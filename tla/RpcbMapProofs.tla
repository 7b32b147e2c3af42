--------------------------- MODULE RpcbMapProofs ---------------------------
(***************************************************************************)
(* Proofs about RpcbMap, for any programs, versions, netids, owners and       *)
(* number of registrations.  The inductive invariant adds to the properties   *)
(* that rpcbind's own entries are in both lists, in front of everything else: *)
(* they are what stops every unset that would reach their ports.              *)
(***************************************************************************)
EXTENDS RpcbMap, TLAPS

\* rpcbind's own entries are there, and every other entry comes after them.
OwnEntriesFirst ==
    /\ OwnRbl \subseteq list_rbl
    /\ OwnPml \subseteq list_pml
    /\ \A m \in list_pml \ OwnPml : m.at > 0

\* The inductive invariant.
IInv == TypeOK /\ OneEntryPerTriple /\ OwnEntriesFirst

-----------------------------------------------------------------------------
(* The operators. *)

\* rpcbind's own entries are well-formed, with places below zero.
LEMMA OwnEntriesType ==
    /\ OwnRbl \subseteq Rbl
    /\ OwnPml \subseteq Pml
    /\ \A e \in OwnRbl : e.owner = rpcbind_superuser
    /\ \A m \in OwnPml : m.at \in Int /\ m.at < 0
  BY MapAssumption DEF OwnRbl, OwnPml, Rbl, Pml, OwnAt, ProtOf, Prots, Ports

\* map_set looks for the exact triple, whatever other versions there are: it
\* finds the set of entries with it empty exactly if it is.
LEMMA FindExact ==
    ASSUME NEW rbl, \A e, f \in rbl : e.prog = f.prog /\ e.vers = f.vers
                        /\ Lower[e.netid] = Lower[f.netid] => e = f,
           \A e \in rbl : e.at \in Int,
           NEW e \in rbl, NEW netid, Lower[netid] = Lower[e.netid]
    PROVE  find_service(rbl, e.prog, e.vers, netid) = {e}
  BY SMT DEF find_service, First

\* RegOf builds a registration.
LEMMA RegOfType ==
    ASSUME NEW pmap \in Pmaps
    PROVE  RegOf(pmap) \in Regs
  <1>1. pmap.pm_port \in Nat /\ pmap.pm_prog \in Progs /\ pmap.pm_vers \in Vers
    BY MapAssumption DEF Pmaps
  <1>2. pmap.pm_port % PortMod \in Ports
    BY <1>1, MapAssumption DEF Ports
  <1>. QED
    BY <1>1, <1>2, MapAssumption DEF RegOf, Regs

\* What map_unset does to the invariant's parts, on any pair of lists.
LEMMA UnsetKeeps ==
    ASSUME NEW s, NEW prog \in Progs, NEW vers \in Vers, NEW netid \in NetIds,
           NEW owner \in Owners,
           OwnRbl \subseteq s.rbl, OwnPml \subseteq s.pml
    PROVE  LET t == map_unset(s, prog, vers, netid, owner)
           IN /\ t.rbl \subseteq s.rbl /\ t.pml \subseteq s.pml
              /\ OwnRbl \subseteq t.rbl /\ OwnPml \subseteq t.pml
              /\ t.ans \in BOOLEAN
  <1> DEFINE match == Matching(s.rbl, prog, vers, netid)
             alien == {e \in match : owner # rpcbind_superuser /\ e.owner # owner}
             gone  == {e \in match : \A f \in alien : e.at < f.at}
             t     == map_unset(s, prog, vers, netid, owner)
  <1>1. /\ t.rbl = s.rbl \ gone
        /\ t.pml = IF alien = {} /\ gone # {}
                   THEN del_pmaplist(s.pml, prog, vers, netid) ELSE s.pml
        /\ t.ans = (alien = {})
    BY DEF map_unset
  <1>2. owner # rpcbind_superuser
    BY MapAssumption
  <1>3. \A e \in OwnRbl : e \in match => e \in alien
    BY <1>2, OwnEntriesType
  <1>4. \A e \in OwnRbl : e \notin gone
    <2>1. \A e \in OwnRbl : e.at \in Int
      BY OwnEntriesType DEF Rbl
    <2>. QED
      BY <1>3, <2>1
  <1>5. \A m \in OwnPml : alien = {} => m \in del_pmaplist(s.pml, prog, vers, netid)
    <2> SUFFICES ASSUME NEW m \in OwnPml, alien = {},
                        m.prog = prog, m.vers = vers,
                        netid = AnyNetid \/ (IpTransport(netid) /\ m.prot = ProtOf(netid))
                 PROVE  FALSE
      BY DEF del_pmaplist
    <2>1. PICK v \in OwnVers, n \in {udptrans, tcptrans} :
             m = [at |-> OwnAt(v, n), prog |-> PMAPPROG, vers |-> v,
                  prot |-> ProtOf(n), port |-> PMAPPORT]
      BY DEF OwnPml
    <2> DEFINE e == [at |-> OwnAt(v, n), prog |-> PMAPPROG, vers |-> v, netid |-> n,
                     addr |-> [host |-> Any, port |-> PMAPPORT],
                     owner |-> rpcbind_superuser]
    <2>2. e \in OwnRbl
      BY DEF OwnRbl
    <2>3. prog = PMAPPROG /\ vers = v
      BY <2>1
    <2>4. netid = AnyNetid \/ netid = n
      BY <2>1, MapAssumption DEF ProtOf, IpTransport
    <2>5. e \in match
      BY <2>2, <2>3, <2>4 DEF Matching
    <2>. QED
      BY <2>2, <2>5, <1>3
  <1>6. del_pmaplist(s.pml, prog, vers, netid) \subseteq s.pml
    BY DEF del_pmaplist
  <1>. QED
    BY <1>1, <1>4, <1>5, <1>6

-----------------------------------------------------------------------------
(* The invariant. *)

LEMMA InitIInv == Init => IInv
  <1> SUFFICES ASSUME Init PROVE IInv
    OBVIOUS
  <1>1. TypeOK
    <2>1. last \in 0 .. MaxAt
      BY MapAssumption DEF Init
    <2>. QED
      BY <2>1, OwnEntriesType, Zenon DEF Init, TypeOK
  <1>2. OneEntryPerTriple
    BY MapAssumption DEF Init, OneEntryPerTriple, OwnRbl
  <1>. QED
    BY <1>1, <1>2 DEF Init, IInv, OwnEntriesFirst

LEMMA SetIInv ==
    ASSUME IInv, NEW reg \in Regs, NEW owner \in Owners, map_set(reg, owner)
    PROVE  IInv'
  <1> DEFINE new == [at |-> last + 1, prog |-> reg.prog, vers |-> reg.vers,
                     netid |-> reg.netid, addr |-> reg.addr, owner |-> owner]
             port == [at |-> last + 1, prog |-> reg.prog, vers |-> reg.vers,
                      prot |-> ProtOf(reg.netid), port |-> reg.addr.port]
             same == {e \in find_service(list_rbl, reg.prog, reg.vers, reg.netid) :
                         e.vers = reg.vers}
  <1> USE DEF IInv
  <1>1. CASE UNCHANGED <<list_rbl, list_pml, last>> /\ ans' \in BOOLEAN
    BY <1>1 DEF TypeOK, OneEntryPerTriple, OwnEntriesFirst
  <1>2. CASE /\ same = {} /\ last < MaxAt /\ last' = last + 1
             /\ list_rbl' = list_rbl \cup {new}
             /\ add_pmaplist(reg)
             /\ ans' = TRUE
    <2>1. new \in Rbl /\ last' \in 0 .. MaxAt
      BY <1>2, MapAssumption DEF TypeOK, Rbl, Regs
    <2>2. list_pml' = list_pml \/ (list_pml' = list_pml \cup {port} /\ port \in Pml)
      <3>1. reg.addr.port \in Ports /\ ProtOf(reg.netid) \in Prots
        BY MapAssumption DEF Regs, ProtOf, Prots
      <3>. QED
        BY <1>2, <3>1 DEF add_pmaplist, TypeOK, Pml, Regs
    <2>3. TypeOK'
      BY <1>2, <2>1, <2>2 DEF TypeOK
    <2>4. \A e \in list_rbl : ~ (e.prog = reg.prog /\ e.vers = reg.vers
                                   /\ Lower[e.netid] = Lower[reg.netid])
      <3> SUFFICES ASSUME NEW e \in list_rbl, e.prog = reg.prog, e.vers = reg.vers,
                          Lower[e.netid] = Lower[reg.netid]
                   PROVE  FALSE
        OBVIOUS
      <3>1. \A f \in list_rbl : f.at \in Int
        BY DEF TypeOK, Rbl
      <3>2. find_service(list_rbl, e.prog, e.vers, reg.netid) = {e}
        BY <3>1, FindExact DEF OneEntryPerTriple
      <3>. QED
        BY <1>2, <3>2
    <2>5. OneEntryPerTriple'
      BY <1>2, <2>4 DEF OneEntryPerTriple
    <2>6. OwnEntriesFirst'
      <3>1. port.at > 0
        BY DEF TypeOK
      <3>. QED
        BY <1>2, <2>2, <3>1 DEF OwnEntriesFirst
    <2>. QED
      BY <2>3, <2>5, <2>6
  <1>. QED
    BY <1>1, <1>2 DEF map_set

\* Removing entries other than rpcbind's own keeps the invariant.
LEMMA ShrinkIInv ==
    ASSUME IInv, list_rbl' \subseteq list_rbl, list_pml' \subseteq list_pml,
           OwnRbl \subseteq list_rbl', OwnPml \subseteq list_pml',
           ans' \in BOOLEAN, last' = last
    PROVE  IInv'
  BY DEF IInv, TypeOK, OneEntryPerTriple, OwnEntriesFirst

LEMMA NextIInv == IInv /\ [Next]_vars => IInv'
  <1> SUFFICES ASSUME IInv, [Next]_vars PROVE IInv'
    OBVIOUS
  <1> DEFINE s0 == Lists
  <1>0. s0.rbl = list_rbl /\ s0.pml = list_pml
    BY DEF Lists
  <1>1. ASSUME NEW owner \in Owners, NEW reg \in Regs, rpcbproc_set_com(reg, owner)
        PROVE  IInv'
    BY <1>1, SetIInv DEF rpcbproc_set_com
  <1>2. ASSUME NEW owner \in Owners, NEW prog \in Progs, NEW vers \in Vers,
               NEW netid \in NetIds, rpcbproc_unset_com(prog, vers, netid, owner)
        PROVE  IInv'
    <2> DEFINE t == map_unset(Lists, prog, vers, netid, owner)
    <2>1. list_rbl' = t.rbl /\ list_pml' = t.pml /\ ans' = t.ans /\ last' = last
      BY <1>2 DEF rpcbproc_unset_com
    <2>2. /\ t.rbl \subseteq list_rbl /\ t.pml \subseteq list_pml
          /\ OwnRbl \subseteq t.rbl /\ OwnPml \subseteq t.pml /\ t.ans \in BOOLEAN
      BY <1>0, UnsetKeeps DEF IInv, OwnEntriesFirst
    <2>. QED
      BY <2>1, <2>2, ShrinkIInv
  <1>3. ASSUME NEW owner \in Owners, NEW pmap \in Pmaps, PmapSet(pmap, owner)
        PROVE  IInv'
    <2>1. CASE map_set(RegOf(pmap), owner)
      BY <2>1, RegOfType, SetIInv
    <2>2. CASE ans' = FALSE /\ UNCHANGED <<list_rbl, list_pml, last>>
      BY <2>2 DEF IInv, TypeOK, OneEntryPerTriple, OwnEntriesFirst
    <2>. QED
      BY <1>3, <2>1, <2>2 DEF PmapSet
  <1>4. ASSUME NEW owner \in Owners, NEW prog \in Progs, NEW vers \in Vers,
               PmapUnset(prog, vers, owner)
        PROVE  IInv'
    <2> DEFINE t1 == map_unset(Lists, prog, vers, tcptrans, owner)
               t2 == map_unset(t1, prog, vers, udptrans, owner)
    <2>1. /\ list_rbl' = t2.rbl /\ list_pml' = t2.pml /\ ans' = (t1.ans \/ t2.ans)
          /\ last' = last
      BY <1>4 DEF PmapUnset
    <2>2. /\ t1.rbl \subseteq list_rbl /\ t1.pml \subseteq list_pml
          /\ OwnRbl \subseteq t1.rbl /\ OwnPml \subseteq t1.pml /\ t1.ans \in BOOLEAN
      BY <1>0, UnsetKeeps, MapAssumption DEF IInv, OwnEntriesFirst
    <2>3. /\ t2.rbl \subseteq t1.rbl /\ t2.pml \subseteq t1.pml
          /\ OwnRbl \subseteq t2.rbl /\ OwnPml \subseteq t2.pml /\ t2.ans \in BOOLEAN
      <3> HIDE DEF t1
      <3>. QED
        BY <2>2, UnsetKeeps, MapAssumption
    <2> HIDE DEF t1, t2
    <2>4. list_rbl' \subseteq list_rbl /\ list_pml' \subseteq list_pml
      BY <2>1, <2>2, <2>3
    <2>5. OwnRbl \subseteq list_rbl' /\ OwnPml \subseteq list_pml' /\ ans' \in BOOLEAN
      BY <2>1, <2>2, <2>3
    <2>. QED
      BY <2>1, <2>4, <2>5, ShrinkIInv
  <1>5. CASE UNCHANGED vars
    BY <1>5 DEF vars, IInv, TypeOK, OneEntryPerTriple, OwnEntriesFirst
  <1>. QED
    BY <1>1, <1>2, <1>3, <1>4, <1>5 DEF Next, rpcb_service, pmap_service

LEMMA Invariance == Spec => []IInv
  BY InitIInv, NextIInv, PTL DEF Spec

-----------------------------------------------------------------------------
(* The theorems. *)

\* Type correctness of the two lists.
THEOREM TypeCorrect == Spec => []TypeOK
  <1>1. IInv => TypeOK
    BY DEF IInv
  <1>. QED
    BY <1>1, Invariance, PTL

\* map_set never lets a second entry of a triple in.
THEOREM NoDuplicates == Spec => []OneEntryPerTriple
  <1>1. IInv => OneEntryPerTriple
    BY DEF IInv
  <1>. QED
    BY <1>1, Invariance, PTL

\* find_service gives every registration for its own program, version, netid.
THEOREM LookupsFindEntries == Spec => []EveryEntryIsFound
  <1>1. IInv => EveryEntryIsFound
    <2> SUFFICES ASSUME IInv, NEW e \in list_rbl, NEW oneVersion \in BOOLEAN
                 PROVE  rpcbproc_getaddr_com(list_rbl, e.prog, e.vers, e.netid, oneVersion)
                           = {e.addr}
      BY DEF EveryEntryIsFound
    <2>1. \A f \in list_rbl : f.at \in Int
      BY DEF IInv, TypeOK, Rbl
    <2>2. find_service(list_rbl, e.prog, e.vers, e.netid) = {e}
      BY <2>1, FindExact DEF IInv, OneEntryPerTriple
    <2>. QED
      BY <2>2 DEF rpcbproc_getaddr_com
  <1>. QED
    BY <1>1, Invariance, PTL

\* The lists' types, unique triples and exact lookups together.
THEOREM RegistrationsSound == Spec => []RegistrationsAreSound
  <1>. QED
    BY TypeCorrect, NoDuplicates, LookupsFindEntries, PTL DEF RegistrationsAreSound

\* No sequence of requests hides rpcbind from its clients.
THEOREM RpcbindStaysFound == Spec => []RpcbindIsFound
  <1>1. IInv => RpcbindIsFound
    <2> SUFFICES ASSUME IInv, NEW v \in OwnVers, NEW netid \in {udptrans, tcptrans}
                 PROVE  /\ pmapproc_getport(list_pml, PMAPPROG, v, ProtOf(netid)) = {PMAPPORT}
                        /\ rpcbproc_getaddr_com(list_rbl, PMAPPROG, v, netid, TRUE)
                              = {[host |-> Any, port |-> PMAPPORT]}
      BY DEF RpcbindIsFound
    <2> DEFINE e == [at |-> OwnAt(v, netid), prog |-> PMAPPROG, vers |-> v,
                     netid |-> netid, addr |-> [host |-> Any, port |-> PMAPPORT],
                     owner |-> rpcbind_superuser]
               m == [at |-> OwnAt(v, netid), prog |-> PMAPPROG, vers |-> v,
                     prot |-> ProtOf(netid), port |-> PMAPPORT]
    <2>1. e \in list_rbl
      BY DEF IInv, OwnEntriesFirst, OwnRbl
    <2>2. \A f \in list_rbl : f.at \in Int
      BY DEF IInv, TypeOK, Rbl
    <2>3. find_service(list_rbl, PMAPPROG, v, netid) = {e}
      <3> HIDE DEF e
      <3>1. e.prog = PMAPPROG /\ e.vers = v /\ e.netid = netid
        BY DEF e
      <3>2. find_service(list_rbl, e.prog, e.vers, netid) = {e}
        BY <2>1, <2>2, <3>1, FindExact DEF IInv, OneEntryPerTriple
      <3>. QED
        BY <3>1, <3>2
    <2>4. m \in OwnPml /\ m \in list_pml
      BY DEF IInv, OwnEntriesFirst, OwnPml
    <2>5. \A f \in list_pml : f.prog = PMAPPROG /\ f.prot = m.prot /\ f.vers = v
                                 => f.at \in Int /\ m.at <= f.at /\ (f = m \/ m.at < f.at)
      <3> SUFFICES ASSUME NEW f \in list_pml, f.prot = m.prot, f.vers = v
                   PROVE  f.at \in Int /\ m.at <= f.at /\ (f = m \/ m.at < f.at)
        OBVIOUS
      <3>1. m.at \in Int /\ m.at < 0
        BY <2>4, OwnEntriesType
      <3>2. CASE f \in OwnPml
        <4>1. PICK w \in OwnVers, n \in {udptrans, tcptrans} :
                 f = [at |-> OwnAt(w, n), prog |-> PMAPPROG, vers |-> w,
                      prot |-> ProtOf(n), port |-> PMAPPORT]
          BY <3>2 DEF OwnPml
        <4>2. w = v /\ n = netid
          BY <4>1, MapAssumption DEF ProtOf
        <4>. QED
          BY <4>1, <4>2, <3>1
      <3>3. CASE f \notin OwnPml
        BY <3>1, <3>3 DEF IInv, OwnEntriesFirst, TypeOK, Pml
      <3>. QED
        BY <3>2, <3>3
    <2>6. find_service_pmap(list_pml, PMAPPROG, v, ProtOf(netid)) = {m}
      <3> DEFINE exact == {f \in {g \in list_pml : g.prog = PMAPPROG /\ g.prot = ProtOf(netid)} :
                              f.vers = v}
      <3>1. m \in exact
        BY <2>4
      <3>2. \A f \in exact : f.at \in Int /\ m.at <= f.at /\ (f = m \/ m.at < f.at)
        BY <2>5
      <3>3. m.at \in Int
        BY <2>4, OwnEntriesType
      <3>4. First(exact) = {m}
        <4> HIDE DEF exact, m
        <4>. QED
          BY <3>1, <3>2, <3>3 DEF First
      <3>. QED
        BY <3>1, <3>4 DEF find_service_pmap
    <2>7. pmapproc_getport(list_pml, PMAPPROG, v, ProtOf(netid)) = {PMAPPORT}
      BY <2>6 DEF pmapproc_getport
    <2>8. rpcbproc_getaddr_com(list_rbl, PMAPPROG, v, netid, TRUE)
             = {[host |-> Any, port |-> PMAPPORT]}
      <3>1. e.vers = v /\ e.addr = [host |-> Any, port |-> PMAPPORT]
        OBVIOUS
      <3> HIDE DEF e
      <3>. QED
        BY <2>3, <3>1 DEF rpcbproc_getaddr_com
    <2>. QED
      BY <2>7, <2>8
  <1>. QED
    BY <1>1, Invariance, PTL

\* A refused or unrelated unset never takes a registration's port away.
THEOREM PortsStay == Spec => PortsStayWithEntry
  <1> DEFINE Keeps(rbl, pml, rbl2, pml2) ==
        \A e \in rbl \cap rbl2 : IpTransport(e.netid) =>
           \A m \in pml : m.prog = e.prog /\ m.vers = e.vers /\ m.prot = ProtOf(e.netid)
              => m \in pml2
  <1>1. ASSUME NEW s, NEW prog, NEW vers, NEW netid, NEW owner,
               NEW t, t = map_unset(s, prog, vers, netid, owner)
        PROVE  t.rbl \subseteq s.rbl /\ Keeps(s.rbl, s.pml, t.rbl, t.pml)
    <2> DEFINE match == Matching(s.rbl, prog, vers, netid)
               alien == {e \in match : owner # rpcbind_superuser /\ e.owner # owner}
               gone  == {e \in match : \A f \in alien : e.at < f.at}
    <2>1. /\ t.rbl = s.rbl \ gone
          /\ t.pml = IF alien = {} /\ gone # {}
                     THEN del_pmaplist(s.pml, prog, vers, netid) ELSE s.pml
      BY <1>1 DEF map_unset
    <2>2. CASE alien # {} \/ gone = {}
      BY <2>1, <2>2
    <2>3. CASE alien = {}
      <3>1. gone = match
        BY <2>3
      <3> SUFFICES ASSUME NEW e \in s.rbl, e \notin match, IpTransport(e.netid),
                          NEW m \in s.pml, m.prog = e.prog, m.vers = e.vers,
                          m.prot = ProtOf(e.netid)
                   PROVE  m \in del_pmaplist(s.pml, prog, vers, netid)
        BY <2>1, <2>3, <3>1
      <3>2. ~ (e.prog = prog /\ e.vers = vers
                 /\ (netid = AnyNetid \/ Lower[netid] = Lower[e.netid]))
        BY DEF Matching
      <3>3. IpTransport(netid) /\ m.prot = ProtOf(netid) => netid = e.netid
        BY DEF IpTransport, ProtOf
      <3>. QED
        BY <3>2, <3>3 DEF del_pmaplist
    <2>. QED
      BY <2>1, <2>2, <2>3
  <1>2. ASSUME [Next]_vars
        PROVE  Keeps(list_rbl, list_pml, list_rbl', list_pml')
    <2>0. Lists.rbl = list_rbl /\ Lists.pml = list_pml
      BY DEF Lists
    <2>1. ASSUME NEW reg, NEW owner, map_set(reg, owner)
          PROVE  list_pml \subseteq list_pml'
      BY <2>1 DEF map_set, add_pmaplist
    <2>2. ASSUME NEW owner \in Owners, NEW prog \in Progs, NEW vers \in Vers,
                 NEW netid \in NetIds, rpcbproc_unset_com(prog, vers, netid, owner)
          PROVE  Keeps(list_rbl, list_pml, list_rbl', list_pml')
      <3> DEFINE t == map_unset(Lists, prog, vers, netid, owner)
      <3>1. list_rbl' = t.rbl /\ list_pml' = t.pml
        BY <2>2 DEF rpcbproc_unset_com
      <3>2. Keeps(Lists.rbl, Lists.pml, t.rbl, t.pml)
        BY <1>1
      <3> HIDE DEF t
      <3>. QED
        BY <2>0, <3>1, <3>2
    <2>3. ASSUME NEW owner \in Owners, NEW prog \in Progs, NEW vers \in Vers,
                 PmapUnset(prog, vers, owner)
          PROVE  Keeps(list_rbl, list_pml, list_rbl', list_pml')
      <3> DEFINE t1 == map_unset(Lists, prog, vers, tcptrans, owner)
                 t2 == map_unset(t1, prog, vers, udptrans, owner)
      <3>1. list_rbl' = t2.rbl /\ list_pml' = t2.pml
        BY <2>3 DEF PmapUnset
      <3>2. t1.rbl \subseteq Lists.rbl /\ Keeps(Lists.rbl, Lists.pml, t1.rbl, t1.pml)
        BY <1>1
      <3>3. t2.rbl \subseteq t1.rbl /\ Keeps(t1.rbl, t1.pml, t2.rbl, t2.pml)
        <4> HIDE DEF t1
        <4>. QED
          BY <1>1
      <3> HIDE DEF t1, t2
      <3>. QED
        BY <2>0, <3>1, <3>2, <3>3
    <2>. QED
      <3>1. CASE \E owner \in Owners, reg \in Regs : rpcbproc_set_com(reg, owner)
        BY <3>1, <2>1 DEF rpcbproc_set_com
      <3>2. CASE \E owner \in Owners, pmap \in Pmaps : PmapSet(pmap, owner)
        BY <3>2, <2>1 DEF PmapSet
      <3>3. CASE UNCHANGED vars
        BY <3>3 DEF vars
      <3> HIDE DEF Keeps
      <3>. QED
        BY <1>2, <2>2, <2>3, <3>1, <3>2, <3>3 DEF Next, rpcb_service, pmap_service
  <1>3. [Next]_vars =>
          [\A e \in list_rbl \cap list_rbl' :
             IpTransport(e.netid) =>
                \A m \in list_pml :
                   m.prog = e.prog /\ m.vers = e.vers /\ m.prot = ProtOf(e.netid)
                      => m \in list_pml']_vars
    BY <1>2
  <1>. QED
    BY <1>3, PTL DEF Spec, PortsStayWithEntry
=============================================================================
