------------------------------ MODULE RpcbMap ------------------------------
(***************************************************************************)
(* The registrations rpcbind keeps (rpcbind/rpcb_svc_com.c, pmap_svc.c): the *)
(* list list_rbl of addresses by program, version and netid, served by       *)
(* rpcbind versions 3 and 4, and the list list_pml of ports by program,      *)
(* version and protocol, served by version 2 (the portmapper, compiled in    *)
(* with PORTMAP).  Both interfaces change both lists.  rpcbind is single-    *)
(* threaded, so every request is one step; lookups change nothing and are    *)
(* operators.                                                                *)
(*                                                                           *)
(* A list is a set whose members carry the place "at" they have in it: the   *)
(* code appends only, so a later entry has a larger one.                     *)
(***************************************************************************)
EXTENDS Integers

CONSTANTS
    Progs, Vers, NetIds, Owners,  \* of requests; an owner is getowner's string
    Lower,                \* [NetIds -> NetIds]: the netid in lower case
    AnyNetid,             \* the empty netid: any transport, in UNSET
    udptrans, tcptrans,   \* netids of rpcbind's UDP and TCP transports
    Addrs,                \* addresses: records of host and port
    NotIp, Any,           \* host part of one that is not IPv4; "0.0.0.0"
    PortMod, PmPorts,     \* ports there are (2^16); pm_port values in requests
    PMAPPROG, PMAPPORT, OwnVers,  \* rpcbind's own program, port and versions
    rpcbind_superuser,    \* owner of rpcbind's own registrations
    MemoryFails,          \* whether malloc may fail
    MaxAt                 \* bound: registrations ever added

Ports == 0 .. PortMod - 1
Prots == {"udp", "tcp"}

\* No request has the superuser as owner: on Windows a stream transport has no
\* credentials (owner "unknown"), and for a datagram transport getowner reads the
\* first field of its private data, the buffer size, which is not 0, as the uid.
ASSUME MapAssumption ==
    /\ Lower \in [NetIds -> NetIds]
    /\ {AnyNetid, udptrans, tcptrans} \subseteq NetIds
    /\ Lower[udptrans] # Lower[tcptrans]
    /\ AnyNetid # udptrans /\ AnyNetid # tcptrans
    /\ \A a \in Addrs : a = [host |-> a.host, port |-> a.port] /\ a.port \in Ports
    /\ \A port \in Ports : [host |-> Any, port |-> port] \in Addrs
    /\ Any # NotIp
    /\ PortMod \in Nat \ {0} /\ PMAPPORT \in Ports /\ PmPorts \subseteq Nat
    /\ PMAPPROG \in Progs /\ OwnVers \subseteq Vers /\ OwnVers \subseteq 2 .. 4
    /\ rpcbind_superuser \notin Owners
    /\ MaxAt \in Nat

VARIABLES
    list_rbl,   \* rpcblist: address by program, version and netid, with owner
    list_pml,   \* pmaplist: port by program, version and protocol
    last,       \* place of the entry appended last
    ans         \* the result sent for the last request

vars == <<list_rbl, list_pml, last, ans>>

Rbl == [at : Int, prog : Progs, vers : Vers, netid : NetIds, addr : Addrs,
        owner : Owners \cup {rpcbind_superuser}]
Pml == [at : Int, prog : Progs, vers : Vers, prot : Prots, port : Ports]

Regs  == [prog : Progs, vers : Vers, netid : NetIds, addr : Addrs]
Pmaps == [pm_prog : Progs, pm_vers : Vers, pm_prot : Prots \cup {"other"},
          pm_port : PmPorts]

TypeOK ==
    /\ list_rbl \subseteq Rbl
    /\ list_pml \subseteq Pml
    /\ last \in 0 .. MaxAt
    /\ ans \in BOOLEAN

-----------------------------------------------------------------------------
(* Lookups.  A result is a set of at most one entry. *)

First(S) == {e \in S : \A f \in S : e.at <= f.at}
Last(S)  == {e \in S : \A f \in S : f.at <= e.at}

\* A plausible bug: netids are compared as they are spelt.
FindAsSpelt(rbl, prog, vers, netid) ==
    LET hits  == {e \in rbl : e.prog = prog /\ e.netid = netid}
        exact == {e \in hits : e.vers = vers}
    IN IF exact # {} THEN First(exact) ELSE Last(hits)

\* The entry of the version or, failing that, the last one of the program.
find_service(rbl, prog, vers, netid) ==
    LET hits  == {e \in rbl : e.prog = prog /\ Lower[e.netid] = Lower[netid]}
        exact == {e \in hits : e.vers = vers}
    IN IF exact # {} THEN First(exact) ELSE Last(hits)

\* The same for the version 2 list.
find_service_pmap(pml, prog, vers, prot) ==
    LET hits  == {m \in pml : m.prog = prog /\ m.prot = prot}
        exact == {m \in hits : m.vers = vers}
    IN IF exact # {} THEN First(exact) ELSE Last(hits)

\* The addresses RPCBPROC_GETVERSADDR (one version) and RPCBPROC_GETADDR (all
\* versions) answer from; mergeaddr only adapts the host part to the caller.
\* is_bound holds of every address (check_binding is FALSE), so a lookup never
\* gets to delete_prog.
rpcbproc_getaddr_com(rbl, prog, vers, netid, oneVersion) ==
    {e.addr : e \in {f \in find_service(rbl, prog, vers, netid) :
                        oneVersion => f.vers = vers}}

\* The port PMAPPROC_GETPORT answers; none stands for 0.
pmapproc_getport(pml, prog, vers, prot) ==
    {m.port : m \in find_service_pmap(pml, prog, vers, prot)}

-----------------------------------------------------------------------------
(* Changes.  *)

ProtOf(netid) == IF netid = udptrans THEN "udp" ELSE "tcp"

IpTransport(netid) == netid \in {udptrans, tcptrans}

\* The version 2 list gets an IPv4 registration, unless there is no memory for
\* it, which map_set ignores.
add_pmaplist(reg) ==
    \/ /\ IpTransport(reg.netid) /\ reg.addr.host # NotIp
       /\ list_pml' = list_pml \cup
             {[at |-> last + 1, prog |-> reg.prog, vers |-> reg.vers,
               prot |-> ProtOf(reg.netid), port |-> reg.addr.port]}
    \/ /\ IpTransport(reg.netid) /\ reg.addr.host # NotIp => MemoryFails
       /\ UNCHANGED list_pml

map_set(reg, owner) ==
    LET same == {e \in find_service(list_rbl, reg.prog, reg.vers, reg.netid) :
                    e.vers = reg.vers}
    IN \/ /\ same # {}
          /\ ans' = \E e \in same : e.addr = reg.addr
          /\ UNCHANGED <<list_rbl, list_pml, last>>
       \/ /\ same = {} /\ MemoryFails
          /\ ans' = FALSE
          /\ UNCHANGED <<list_rbl, list_pml, last>>
       \/ /\ same = {} /\ last < MaxAt
          /\ last' = last + 1
          /\ list_rbl' = list_rbl \cup
                {[at |-> last + 1, prog |-> reg.prog, vers |-> reg.vers,
                  netid |-> reg.netid, addr |-> reg.addr, owner |-> owner]}
          /\ add_pmaplist(reg)
          /\ ans' = TRUE

\* A plausible bug: the protocol is not looked at.
DelAllProts(pml, prog, vers, netid) ==
    {m \in pml : ~ (m.prog = prog /\ m.vers = vers)}

\* netid names the protocol; the empty one stands for all, others for none.
del_pmaplist(pml, prog, vers, netid) ==
    {m \in pml :
        ~ /\ m.prog = prog /\ m.vers = vers
          /\ netid = AnyNetid \/ (IpTransport(netid) /\ m.prot = ProtOf(netid))}

Matching(rbl, prog, vers, netid) ==
    {e \in rbl : /\ e.prog = prog /\ e.vers = vers
                 /\ netid = AnyNetid \/ Lower[netid] = Lower[e.netid]}

\* A plausible bug: the version 2 list is updated before the owner is checked.
UnsetPmapFirst(s, prog, vers, netid, owner) ==
    LET match == Matching(s.rbl, prog, vers, netid)
        alien == {e \in match : owner # rpcbind_superuser /\ e.owner # owner}
    IN [rbl |-> s.rbl \ {e \in match : \A f \in alien : e.at < f.at},
        pml |-> del_pmaplist(s.pml, prog, vers, netid), ans |-> alien = {}]

\* The loop removes matching entries until it meets one of another owner: then
\* it returns 0 at once, the version 2 list untouched.
map_unset(s, prog, vers, netid, owner) ==
    LET match == Matching(s.rbl, prog, vers, netid)
        alien == {e \in match : owner # rpcbind_superuser /\ e.owner # owner}
        gone  == {e \in match : \A f \in alien : e.at < f.at}
    IN [rbl |-> s.rbl \ gone,
        pml |-> IF alien = {} /\ gone # {}
                THEN del_pmaplist(s.pml, prog, vers, netid) ELSE s.pml,
        ans |-> alien = {}]

-----------------------------------------------------------------------------
(* Requests of versions 3 and 4, and of version 2. *)

Lists == [rbl |-> list_rbl, pml |-> list_pml, ans |-> FALSE]

rpcbproc_set_com(reg, owner) == map_set(reg, owner)

rpcbproc_unset_com(prog, vers, netid, owner) ==
    LET s == map_unset(Lists, prog, vers, netid, owner)
    IN /\ list_rbl' = s.rbl /\ list_pml' = s.pml /\ ans' = s.ans
       /\ UNCHANGED last

\* The registration PMAPPROC_SET asks for: "0.0.0.0" and two bytes of the port.
RegOf(pmap) ==
    [prog |-> pmap.pm_prog, vers |-> pmap.pm_vers,
     netid |-> IF pmap.pm_prot = "udp" THEN udptrans ELSE tcptrans,
     addr |-> [host |-> Any, port |-> pmap.pm_port % PortMod]]

PmapSet(pmap, owner) ==
    \/ pmap.pm_prot \in Prots /\ map_set(RegOf(pmap), owner)
    \/ /\ pmap.pm_prot \notin Prots /\ ans' = FALSE
       /\ UNCHANGED <<list_rbl, list_pml, last>>

PmapUnset(prog, vers, owner) ==
    LET s1 == map_unset(Lists, prog, vers, tcptrans, owner)
        s2 == map_unset(s1, prog, vers, udptrans, owner)
    IN /\ list_rbl' = s2.rbl /\ list_pml' = s2.pml /\ ans' = (s1.ans \/ s2.ans)
       /\ UNCHANGED last

-----------------------------------------------------------------------------
\* init_transport puts rpcbind's own versions in front of both lists, for UDP
\* after TCP.
OwnAt(v, netid) == (IF netid = udptrans THEN -10 ELSE -5) - v

OwnRbl ==
    {[at |-> OwnAt(v, netid), prog |-> PMAPPROG, vers |-> v, netid |-> netid,
      addr |-> [host |-> Any, port |-> PMAPPORT], owner |-> rpcbind_superuser] :
         v \in OwnVers, netid \in {udptrans, tcptrans}}

OwnPml ==
    {[at |-> OwnAt(v, netid), prog |-> PMAPPROG, vers |-> v,
      prot |-> ProtOf(netid), port |-> PMAPPORT] :
         v \in OwnVers, netid \in {udptrans, tcptrans}}

Init ==
    /\ list_rbl = OwnRbl
    /\ list_pml = OwnPml
    /\ last = 0
    /\ ans = FALSE

\* What versions 3 and 4, and version 2, dispatch that changes the lists; a
\* request that cannot be decoded or fails check_access changes nothing.
rpcb_service(owner) ==
    \/ \E reg \in Regs : rpcbproc_set_com(reg, owner)
    \/ \E prog \in Progs, vers \in Vers, netid \in NetIds :
           rpcbproc_unset_com(prog, vers, netid, owner)

pmap_service(owner) ==
    \/ \E pmap \in Pmaps : PmapSet(pmap, owner)
    \/ \E prog \in Progs, vers \in Vers : PmapUnset(prog, vers, owner)

Next == \E owner \in Owners : rpcb_service(owner) \/ pmap_service(owner)

Spec == Init /\ [][Next]_vars

-----------------------------------------------------------------------------
(* Properties. *)

\* rpcbind.3: "If there already exists such an entry with rpcbind, rpcb_set will
\* fail."  The search of map_set, which may stop at another version of the
\* program, never lets a second entry for a program, version and netid in,
\* whichever interface and spelling of the netid is used.
OneEntryPerTriple ==
    \A e, f \in list_rbl :
        e.prog = f.prog /\ e.vers = f.vers /\ Lower[e.netid] = Lower[f.netid] => e = f

\* find_service's comment: "returns the item with the given program, version
\* number and netid", and the item of another version only "if that version
\* number is not found".  So every registration is what its own lookup gives,
\* and a lookup of one version never gives the address of another.
EveryEntryIsFound ==
    \A e \in list_rbl :
        \A oneVersion \in BOOLEAN :
            rpcbproc_getaddr_com(list_rbl, e.prog, e.vers, e.netid, oneVersion)
               = {e.addr}

\* What is registered is registered once and found as it was registered.
RegistrationsAreSound == TypeOK /\ OneEntryPerTriple /\ EveryEntryIsFound

\* As long as a UDP or TCP registration stays in list_rbl its ports stay in
\* list_pml: neither an unset that is refused half way nor the unset of another
\* transport, version or owner takes them away from version 2 clients.
PortsStayWithEntry ==
    [][\A e \in list_rbl \cap list_rbl' :
          IpTransport(e.netid) =>
             \A m \in list_pml :
                m.prog = e.prog /\ m.vers = e.vers /\ m.prot = ProtOf(e.netid)
                   => m \in list_pml']_vars

\* Whatever is set and unset through any interface, both interfaces go on
\* finding rpcbind itself at its own port.
RpcbindIsFound ==
    \A v \in OwnVers, netid \in {udptrans, tcptrans} :
        /\ pmapproc_getport(list_pml, PMAPPROG, v, ProtOf(netid)) = {PMAPPORT}
        /\ rpcbproc_getaddr_com(list_rbl, PMAPPROG, v, netid, TRUE)
              = {[host |-> Any, port |-> PMAPPORT]}
=============================================================================
