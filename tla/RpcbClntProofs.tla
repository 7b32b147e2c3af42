--------------------------- MODULE RpcbClntProofs ---------------------------
(***************************************************************************)
(* For every number of threads and hosts and every cache size: the shared  *)
(* cache of rpcbind addresses stays in order, and a lookup that nothing    *)
(* disturbs finds a registered service.                                    *)
(***************************************************************************)
EXTENDS RpcbClnt, FiniteSetTheorems, FunctionTheorems, SequenceTheorems,
        WellFoundedInduction, TLAPS

(* The operators of the cache. *)

LEMMA LeastExists ==
    ASSUME NEW T \in SUBSET Nat, T # {}
    PROVE  \E x \in T : \A y \in T : x <= y
<1> DEFINE R == {p \in Nat \X Nat : p[1] < p[2]}
<1>1. IsWellFoundedOn(R, Nat)
  BY NatLessThanWellFounded DEF OpToRel
<1> HIDE DEF R
<1>2. PICK x \in T : \A y \in T : ~(<<y, x>> \in R)
  BY <1>1, WFMin
<1>3. ASSUME NEW y \in T PROVE x <= y
  <2>1. x \in Nat /\ y \in Nat
    OBVIOUS
  <2>2. ~(y < x)
    BY <1>2, <2>1 DEF R
  <2> QED
    BY <2>1, <2>2
<1> QED
  BY <1>3

\* The entry of a search: the first of its matches.
LEMMA FirstOf ==
    ASSUME NEW T \in SUBSET Nat, T # {}
    PROVE  (CHOOSE i \in T : \A j \in T : i <= j) \in T
BY LeastExists

LEMMA RemoveAtFacts ==
    ASSUME NEW S, NEW s \in Seq(S), NEW i \in 1..Len(s)
    PROVE  /\ RemoveAt(s, i) \in Seq(S)
           /\ Len(RemoveAt(s, i)) = Len(s) - 1
           /\ \A j \in 1..(Len(s) - 1) : RemoveAt(s, i)[j] = s[IF j < i THEN j ELSE j + 1]
<1> DEFINE a == SubSeq(s, 1, i - 1)
           b == SubSeq(s, i + 1, Len(s))
<1>1. Len(s) \in Nat /\ i \in Int
  OBVIOUS
<1>2. a \in Seq(S) /\ Len(a) = i - 1 /\ \A j \in 1..(i - 1) : a[j] = s[j]
  BY <1>1
<1>3. b \in Seq(S) /\ Len(b) = Len(s) - i /\ \A j \in 1..(Len(s) - i) : b[j] = s[j + i]
  BY <1>1
<1>4. RemoveAt(s, i) = a \o b
  BY DEF RemoveAt
<1> HIDE DEF a, b
<1>5. a \o b \in Seq(S) /\ Len(a \o b) = Len(s) - 1
  <2>1. a \o b \in Seq(S) /\ Len(a \o b) = Len(a) + Len(b)
    BY <1>2, <1>3, ConcatProperties, Zenon
  <2>2. Len(a) + Len(b) = Len(s) - 1
    BY <1>1, <1>2, <1>3
  <2> QED
    BY <2>1, <2>2
<1>6. ASSUME NEW j \in 1..(Len(s) - 1)
      PROVE  (a \o b)[j] = s[IF j < i THEN j ELSE j + 1]
  <2>1. CASE j < i
    BY <1>1, <1>2, <1>3, <2>1
  <2>2. CASE ~(j < i)
    <3>1. (a \o b)[j] = b[j - (i - 1)]
      BY <1>1, <1>2, <1>3, <2>2
    <3>2. j - (i - 1) \in 1..(Len(s) - i) /\ j - (i - 1) + i = j + 1
      BY <1>1, <2>2
    <3> QED
      BY <1>3, <2>2, <3>1, <3>2
  <2> QED
    BY <2>1, <2>2
<1> QED
  BY <1>4, <1>5, <1>6

LEMMA FrontFacts ==
    ASSUME NEW S, NEW s \in Seq(S), s # << >>
    PROVE  /\ Front(s) \in Seq(S)
           /\ Len(Front(s)) = Len(s) - 1
           /\ \A j \in 1..(Len(s) - 1) : Front(s)[j] = s[j]
<1>1. Len(s) \in Nat \ {0}
  OBVIOUS
<1>2. Front(s) = SubSeq(s, 1, Len(s) - 1)
  BY DEF Front
<1>3. PICK n \in Nat : n = Len(s) - 1
  BY <1>1
<1>4. /\ SubSeq(s, 1, n) \in Seq(S)
      /\ Len(SubSeq(s, 1, n)) = IF 1 <= n THEN n - 1 + 1 ELSE 0
      /\ \A j \in 1..(n - 1 + 1) : SubSeq(s, 1, n)[j] = s[1 + j - 1]
  <2>1. \A j \in 1..n : s[j] \in S
    BY <1>1, <1>3
  <2> QED
    BY <2>1, SubSeqProperties
<1> QED
  BY <1>2, <1>3, <1>4

LEMMA ConsFacts ==
    ASSUME NEW S, NEW s \in Seq(S), NEW e \in S
    PROVE  /\ <<e>> \o s \in Seq(S)
           /\ Len(<<e>> \o s) = Len(s) + 1
           /\ (<<e>> \o s)[1] = e
           /\ \A j \in 2..(Len(s) + 1) : (<<e>> \o s)[j] = s[j - 1]
OBVIOUS

\* The hosts have addresses of their own.
LEMMA FirstAddresses ==
    LET f == CHOOSE f \in [Hosts -> 1..Cardinality(Hosts)] : IsInjective(f)
    IN  /\ Cardinality(Hosts) \in Nat
        /\ f \in [Hosts -> 1..Cardinality(Hosts)]
        /\ \A g, h \in Hosts : f[g] = f[h] => g = h
<1>1. Cardinality(Hosts) \in Nat /\ ExistsBijection(Hosts, 1..Cardinality(Hosts))
  BY ClntAssumption, FS_CardinalityType, Fun_ExistsBijSymmetric
<1>2. \E f \in [Hosts -> 1..Cardinality(Hosts)] : IsInjective(f)
  BY <1>1 DEF ExistsBijection, Bijection, Injection
<1> QED
  BY <1>1, <1>2 DEF IsInjective
-----------------------------------------------------------------------------
Looking == {"get", "try", "delete", "resolve", "add", "call"}
Places == {"idle", "transport", "found", "service"} \cup Looking
Names == Hosts \cup {"none"}
Nets == Netids \cup {"none"}
Targets == [addr : Nat, port : Nat]
Keeps == [valid : BOOLEAN, host : Names, to : Targets]
Gets == [net : Nets, entry : Nat, addr : Nat]
Clients == [net : Nets, addr : Nat]
Entries == [id : Nat, host : Names, net : Nets, addr : Nat]

FixedType ==
    /\ order \in Seq(Netids) /\ speaks \subseteq 2..5 /\ registered \subseteq Netids
    /\ inet \in BOOLEAN
    /\ where \in [Hosts -> Nat] /\ port \in [Hosts -> Nat] /\ events \in Nat

CallType ==
    /\ pc \in [Threads -> Places]
    /\ host \in [Threads -> Names] /\ net \in [Threads -> Nets]
    /\ left \in [Threads -> Seq(Netids)]
    /\ target \in [Threads -> Targets]
    /\ keep \in [Threads -> Keeps]
    /\ ret \in [Threads -> {"none", "unfound", "success", "failed"}]
    /\ steady \in [Threads -> BOOLEAN] /\ outdated \in [Threads -> BOOLEAN]

LookupType ==
    /\ stage \in [Threads -> {"none", "v2", "list", "regular"}]
    /\ vers \in [Threads -> {0, 3, 4}]
    /\ get \in [Threads -> Gets] /\ client \in [Threads -> Clients]

Types == FixedType /\ CallType /\ LookupType

\* No two hosts have the same address, now or before.
WorldInv ==
    /\ \A h \in Hosts : where[h] <= Cardinality(Hosts) + events
    /\ \A g, h \in Hosts : where[g] = where[h] => g = h

\* The cache, and the lock that keeps an entry while its address is tried.
Stacked(c, n) ==
    /\ c \in Seq(Entries)
    /\ \A i \in 1..Len(c) : c[i].id <= n
    /\ \A i, j \in 1..Len(c) : i < j => c[i].id > c[j].id
CacheInv ==
    /\ ids \in Nat /\ Stacked(cache, ids)
    /\ cachesize = Len(cache) /\ Len(cache) <= CACHESIZE
    /\ rd = {t \in Threads : pc[t] = "try"}
    /\ \A t \in Threads : pc[t] = "try" => \E i \in DOMAIN cache : cache[i].id = get[t].entry

\* What a lookup is for, and with which versions it has failed so far.
LookupOf(t) ==
    /\ pc[t] # "idle" => host[t] \in Hosts
    /\ pc[t] \in Looking \cup {"found"} => \E i \in DOMAIN order : order[i] = net[t]
    /\ \A j \in DOMAIN left[t] : \E i \in DOMAIN order : order[i] = left[t][j]
    /\ pc[t] \in Looking => vers[t] # 0 /\ stage[t] # "none" /\ get[t].net \in Netids
    /\ pc[t] = "call" => client[t].net \in Netids
    /\ pc[t] \in Looking /\ stage[t] = "v2" => inet
    /\ pc[t] \in Looking /\ stage[t] # "v2" /\ inet => 2 \notin speaks
    /\ pc[t] \in Looking /\ vers[t] = 3 => 4 \notin speaks
LookupInv == \A t \in Threads : LookupOf(t)

\* No rpcbind speaks a version the lookup uses.
Mute == speaks \cap (3..4) = {} /\ (2 \in speaks => ~inet)
Hopeless(n) == n \notin registered \/ Mute
Served == \E i \in DOMAIN order : order[i] \in registered
Untried(t, n) == \E j \in DOMAIN left[t] : left[t][j] = n

\* A call that nothing disturbs has given up a transport only where there is
\* nothing to find, and has the host's present address.
Fresh(t) == steady[t] /\ ~outdated[t]
GivenUp(t) ==
    /\ pc[t] = "idle" /\ ret[t] = "unfound" => \A i \in DOMAIN order : Hopeless(order[i])
    /\ pc[t] = "transport" =>
          \A i \in DOMAIN order : Hopeless(order[i]) \/ Untried(t, order[i])
    /\ pc[t] \in Looking \cup {"found"} =>
          \A i \in DOMAIN order : Hopeless(order[i]) \/ Untried(t, order[i]) \/ net[t] = order[i]
Present(t) ==
    /\ pc[t] = "add" => get[t].addr = where[host[t]]
    /\ pc[t] = "call" => client[t].addr = where[host[t]]
    /\ pc[t] = "found" => target[t].addr = where[host[t]] /\ target[t].port = port[host[t]]
CallOf(t) ==
    /\ pc[t] = "found" => net[t] \in registered
    /\ pc[t] = "service" => keep[t].valid
    /\ keep[t].valid \/ ret[t] = "success" => Served
    /\ Fresh(t) => GivenUp(t) /\ Present(t)
CallInv == \A t \in Threads : CallOf(t)

IInv == Types /\ WorldInv /\ CacheInv /\ LookupInv /\ CallInv

LEMMA LookupDefaults ==
    /\ NoClient \in Clients /\ NoGet \in Gets
    /\ \A n \in Nets : [NoGet EXCEPT !.net = n] \in Gets
    /\ NoTarget \in Targets
    /\ NoKeep \in Keeps
BY DEF NoClient, NoGet, NoTarget, NoKeep, Nets, Names, Targets, Keeps, Gets, Clients

LEMMA InitIInv == Init => IInv
<1> SUFFICES ASSUME Init PROVE IInv
  OBVIOUS
<1>1. Types
  <2>1. FixedType
    <3>1. where \in [Hosts -> Nat]
      BY FirstAddresses DEF Init
    <3> QED
      BY <3>1, ClntAssumption DEF FixedType, Netids, Init
  <2>2. CallType
    BY LookupDefaults DEF CallType, Places, Names, Nets, Init
  <2>3. LookupType
    BY LookupDefaults DEF LookupType, Init
  <2> QED
    BY <2>1, <2>2, <2>3 DEF Types
<1>2. WorldInv
  <2>1. /\ where \in [Hosts -> 1..Cardinality(Hosts)] /\ Cardinality(Hosts) \in Nat
        /\ \A g, h \in Hosts : where[g] = where[h] => g = h
    BY FirstAddresses DEF Init
  <2>2. events = 0
    BY DEF Init
  <2> QED
    BY <2>1, <2>2 DEF WorldInv
<1>3. CacheInv
  <2>1. cache \in Seq(Entries) /\ Len(cache) = 0
    BY DEF Init
  <2> QED
    BY <2>1, ClntAssumption DEF CacheInv, Stacked, Init
<1>4. LookupInv
  BY DEF LookupInv, LookupOf, Looking, Init
<1>5. CallInv
  BY DEF CallInv, CallOf, GivenUp, Present, Looking, NoKeep, Init
<1> QED
  BY <1>1, <1>2, <1>3, <1>4, <1>5 DEF IInv

LEMMA FixedStep ==
    ASSUME Types, [Next]_vars
    PROVE  FixedType'
<1> USE DEF Types, FixedType, fixed, world
<1>1. CASE UNCHANGED vars
  BY <1>1 DEF vars
<1>2. ASSUME NEW t \in Threads, NEW h \in Hosts, Begin(t, h) PROVE FixedType'
  BY <1>2 DEF Begin
<1>3. ASSUME NEW t \in Threads, Transported(t) PROVE FixedType'
  BY <1>3 DEF Transported, Transport
<1>4. ASSUME NEW t \in Threads, Service(t) PROVE FixedType'
  BY <1>4 DEF Service
<1>5. ASSUME NEW t \in Threads, Connect(t) PROVE FixedType'
  BY <1>5 DEF Connect
<1>6. ASSUME NEW t \in Threads, CheckCache(t) PROVE FixedType'
  BY <1>6 DEF CheckCache, OnlyGet
<1>7. ASSUME NEW t \in Threads, Try(t) PROVE FixedType'
  BY <1>7 DEF Try, OnlyGet
<1>8. ASSUME NEW t \in Threads, Delete(t) PROVE FixedType'
  BY <1>8 DEF Delete, OnlyGet
<1>9. ASSUME NEW t \in Threads, Resolve(t) PROVE FixedType'
  BY <1>9 DEF Resolve, OnlyGet
<1>10. ASSUME NEW t \in Threads, Add(t) PROVE FixedType'
  BY <1>10 DEF Add, OnlyGet
<1>11. ASSUME NEW t \in Threads, GetPort(t) PROVE FixedType'
  BY <1>11 DEF GetPort, OnlyFind, Found, NotFound, Again, Ended
<1>12. ASSUME NEW t \in Threads, GetAddrList(t) PROVE FixedType'
  BY <1>12 DEF GetAddrList, OnlyFind, Found, NotFound, Again, Regular, Ended
<1>13. ASSUME NEW t \in Threads, GetAddr(t) PROVE FixedType'
  BY <1>13 DEF GetAddr, OnlyFind, Found, NotFound, Again, Ended
<1>14. ASSUME NEW h \in Hosts, Move(h) PROVE FixedType'
  BY <1>14, FirstAddresses DEF Move, Disturb, OnlyWorld
<1>15. ASSUME NEW h \in Hosts, Restart(h) PROVE FixedType'
  BY <1>15 DEF Restart, Disturb, OnlyWorld
<1> QED
  BY <1>1, <1>2, <1>3, <1>4, <1>5, <1>6, <1>7, <1>8, <1>9, <1>10, <1>11, <1>12, <1>13, <1>14, <1>15 DEF Next, Run

\* The port of an address that answers.
LEMMA PortFound ==
    ASSUME FixedType, NEW t \in Threads, HostsAt(client[t].addr) # {}
    PROVE  PortAt(t) \in Nat /\ \E h \in HostsAt(client[t].addr) : PortAt(t) = port[h]
<1>1. PortAt(t) \in {port[h] : h \in HostsAt(client[t].addr)}
  BY DEF PortAt
<1> QED
  BY <1>1 DEF FixedType, HostsAt

\* What the address list, the port or the address a lookup asked for is used for.
LEMMA FoundType ==
    ASSUME Types, NEW t \in Threads, Found(t), HostsAt(client[t].addr) # {}
    PROVE  target' \in [Threads -> Targets]
BY PortFound DEF Types, CallType, LookupType, Found, Targets, Clients

LEMMA KeepTypes ==
    /\ \A h \in Names, to \in Targets : [valid |-> TRUE, host |-> h, to |-> to] \in Keeps
    /\ \A k \in Keeps : [k EXCEPT !.valid = FALSE] \in Keeps
BY DEF Keeps

LEMMA CallStep ==
    ASSUME Types, LookupInv, [Next]_vars
    PROVE  CallType'
<1> USE DEF CallType, At, calling, hist
<1>0. CallType /\ order \in Seq(Netids) /\ Places = {"idle", "transport", "found", "service",
        "get", "try", "delete", "resolve", "add", "call"} /\ Hosts \subseteq Names
  BY DEF Types, FixedType, Places, Looking, Names
<1>1. CASE UNCHANGED vars
  BY <1>0, <1>1 DEF vars
<1>2. ASSUME NEW t \in Threads, NEW h \in Hosts, Begin(t, h) PROVE CallType'
  <2>1. keep' \in [Threads -> Keeps]
    BY <1>0, <1>2, LookupDefaults DEF Begin
  <2>2. left' \in [Threads -> Seq(Netids)] /\ host' \in [Threads -> Names]
    BY <1>0, <1>2 DEF Begin
  <2>3. pc' \in [Threads -> Places]
    BY <1>0, <1>2 DEF Begin
  <2> QED
    BY <1>0, <1>2, <2>1, <2>2, <2>3 DEF Begin
<1>3. ASSUME NEW t \in Threads, Transported(t) PROVE CallType'
  <2>1. left' \in [Threads -> Seq(Netids)] /\ net' \in [Threads -> Nets]
    <3>1. left[t] \in Seq(Netids) /\ (left[t] # << >> => Head(left[t]) \in Nets /\ Tail(left[t]) \in Seq(Netids))
      BY <1>0 DEF Nets
    <3>2. \/ left' = left /\ net' = [net EXCEPT ![t] = "none"]
          \/ /\ left[t] # << >> /\ net' = [net EXCEPT ![t] = Head(left[t])]
             /\ left' = [left EXCEPT ![t] = Tail(left[t])]
      BY <1>0, <1>3 DEF Transported, Transport
    <3>3. CASE left' = left /\ net' = [net EXCEPT ![t] = "none"]
      BY <1>0, <3>3 DEF Nets
    <3>4. CASE /\ left[t] # << >> /\ net' = [net EXCEPT ![t] = Head(left[t])]
               /\ left' = [left EXCEPT ![t] = Tail(left[t])]
      BY <1>0, <3>1, <3>4
    <3> QED
      BY <3>2, <3>3, <3>4
  <2>2. pc' \in [Threads -> Places]
    BY <1>0, <1>3 DEF Transported, Transport
  <2> QED
    BY <1>0, <1>3, <2>1, <2>2 DEF Transported, Transport
<1>4. ASSUME NEW t \in Threads, Service(t) PROVE CallType'
  <2>1. keep' \in [Threads -> Keeps]
    <3>1. [keep[t] EXCEPT !.valid = FALSE] \in Keeps
      BY <1>0, KeepTypes
    <3>2. keep' = keep \/ keep' = [keep EXCEPT ![t] = [keep[t] EXCEPT !.valid = FALSE]]
      BY <1>4 DEF Service
    <3> QED
      BY <1>0, <3>1, <3>2
  <2>2. left' \in [Threads -> Seq(Netids)] /\ net' \in [Threads -> Nets]
    BY <1>0, <1>4 DEF Service, Nets
  <2>3. pc' \in [Threads -> Places]
    BY <1>0, <1>4 DEF Service
  <2> QED
    BY <1>0, <1>4, <2>1, <2>2, <2>3 DEF Service
<1>5. ASSUME NEW t \in Threads, Connect(t) PROVE CallType'
  <2>1. keep' \in [Threads -> Keeps]
    <3>1. [valid |-> TRUE, host |-> host[t], to |-> target[t]] \in Keeps
      BY <1>0, KeepTypes
    <3>2. \/ keep' = keep
          \/ keep' = [keep EXCEPT ![t] = [valid |-> TRUE, host |-> host[t], to |-> target[t]]]
      BY <1>5 DEF Connect
    <3> QED
      BY <1>0, <3>1, <3>2
  <2>2. target' \in [Threads -> Targets]
    BY <1>0, <1>5, LookupDefaults DEF Connect
  <2>3. pc' \in [Threads -> Places]
    BY <1>0, <1>5 DEF Connect
  <2> QED
    BY <1>0, <1>5, <2>1, <2>2, <2>3 DEF Connect
<1>6. ASSUME NEW t \in Threads, CheckCache(t) PROVE CallType'
  BY <1>0, <1>6 DEF CheckCache, OnlyGet
<1>7. ASSUME NEW t \in Threads, Try(t) PROVE CallType'
  BY <1>0, <1>7 DEF Try, OnlyGet
<1>8. ASSUME NEW t \in Threads, Delete(t) PROVE CallType'
  BY <1>0, <1>8 DEF Delete, OnlyGet
<1>9. ASSUME NEW t \in Threads, Resolve(t) PROVE CallType'
  BY <1>0, <1>9 DEF Resolve, OnlyGet
<1>10. ASSUME NEW t \in Threads, Add(t) PROVE CallType'
  BY <1>0, <1>10 DEF Add, OnlyGet
<1>11. ASSUME NEW t \in Threads, GetPort(t) PROVE CallType'
  <2>1. pc' \in [Threads -> Places]
    <3>1. At(t, "call", "found") \/ At(t, "call", "transport") \/ At(t, "call", "call")
      BY <1>11, Zenon DEF GetPort, Found, NotFound, Again
    <3> QED
      BY <1>0, <3>1
  <2>2. target' \in [Threads -> Targets]
    BY <1>0, <1>11, FoundType DEF GetPort, OnlyFind, NotFound, Again, Answer
  <2> QED
    BY <1>0, <1>11, <2>1, <2>2 DEF GetPort, OnlyFind, Found, NotFound, Again, Ended
<1>12. ASSUME NEW t \in Threads, GetAddrList(t) PROVE CallType'
  <2>1. pc' \in [Threads -> Places]
    <3>1. At(t, "call", "found") \/ At(t, "call", "transport") \/ At(t, "call", "call") \/ At(t, "call", "get")
      BY <1>12, Zenon DEF GetAddrList, Found, NotFound, Again, Regular
    <3> QED
      BY <1>0, <3>1
  <2>2. target' \in [Threads -> Targets]
    BY <1>0, <1>12, FoundType DEF GetAddrList, OnlyFind, NotFound, Again, Regular, Answer
  <2> QED
    BY <1>0, <1>12, <2>1, <2>2 DEF GetAddrList, OnlyFind, Found, NotFound, Again, Regular, Ended
<1>13. ASSUME NEW t \in Threads, GetAddr(t) PROVE CallType'
  <2>1. pc' \in [Threads -> Places]
    <3>1. At(t, "call", "found") \/ At(t, "call", "transport") \/ At(t, "call", "call")
      BY <1>13, Zenon DEF GetAddr, Found, NotFound, Again
    <3> QED
      BY <1>0, <3>1
  <2>2. target' \in [Threads -> Targets]
    BY <1>0, <1>13, FoundType DEF GetAddr, OnlyFind, NotFound, Again, Answer
  <2> QED
    BY <1>0, <1>13, <2>1, <2>2 DEF GetAddr, OnlyFind, Found, NotFound, Again, Ended
<1>14. ASSUME NEW h \in Hosts, Move(h) PROVE CallType'
  BY <1>0, <1>14 DEF Move, Disturb, OnlyWorld
<1>15. ASSUME NEW h \in Hosts, Restart(h) PROVE CallType'
  BY <1>0, <1>15 DEF Restart, Disturb, OnlyWorld
<1> QED
  BY <1>0, <1>1, <1>2, <1>3, <1>4, <1>5, <1>6, <1>7, <1>8, <1>9, <1>10, <1>11, <1>12, <1>13, <1>14, <1>15 DEF Next, Run

LEMMA CachedEntries ==
    ASSUME CacheInv, NEW i \in DOMAIN cache
    PROVE  i \in Nat /\ cache[i] \in Entries /\ cache[i].id \in Nat /\ cache[i].addr \in Nat
<1>1. cache \in Seq(Entries)
  BY DEF CacheInv, Stacked
<1>2. i \in Nat /\ cache[i] \in Entries
  BY <1>1
<1> QED
  BY <1>2 DEF Entries

\* What check_cache finds.
LEMMA EntryFound ==
    ASSUME CacheInv, LookupType, NEW t \in Threads, CheckCache(t)
    PROVE  \/ get' = get /\ pc' = [pc EXCEPT ![t] = "resolve"] /\ rd' = rd
           \/ /\ pc' = [pc EXCEPT ![t] = "try"] /\ rd' = rd \cup {t}
              /\ get' \in [Threads -> Gets] /\ get'[t].net = get[t].net
              /\ \A u \in Threads \ {t} : get'[u] = get[u]
              /\ \E i \in DOMAIN cache : get'[t].entry = cache[i].id
<1>1. CASE Matching(t) = {}
  BY <1>1 DEF CheckCache, At
<1>2. CASE Matching(t) # {}
  <2> DEFINE i == CHOOSE j \in Matching(t) : \A k \in Matching(t) : j <= k
  <2>1. Matching(t) \subseteq DOMAIN cache /\ DOMAIN cache \subseteq Nat
    BY DEF Matching, CacheInv, Stacked
  <2>2. i \in DOMAIN cache
    BY <1>2, <2>1, FirstOf
  <2>3. /\ pc' = [pc EXCEPT ![t] = "try"] /\ rd' = rd \cup {t}
        /\ get' = [get EXCEPT ![t].entry = cache[i].id, ![t].addr = cache[i].addr]
    BY <1>2 DEF CheckCache, At
  <2> HIDE DEF i
  <2>4. cache[i].id \in Nat /\ cache[i].addr \in Nat /\ get \in [Threads -> Gets]
    BY <2>2, CachedEntries DEF LookupType
  <2>5. /\ get' \in [Threads -> Gets]
        /\ get'[t].entry = cache[i].id /\ get'[t].net = get[t].net
        /\ \A u \in Threads \ {t} : get'[u] = get[u]
    <3> DEFINE e == cache[i].id
               a == cache[i].addr
               g == get'
    <3>1. e \in Nat /\ a \in Nat /\ g = [get EXCEPT ![t].entry = e, ![t].addr = a]
      BY <2>3, <2>4
    <3> HIDE DEF e, a, g
    <3>2. /\ g \in [Threads -> Gets]
          /\ g[t].entry = e /\ g[t].addr = a /\ g[t].net = get[t].net
          /\ \A u \in Threads \ {t} : g[u] = get[u]
      BY <2>4, <3>1 DEF Gets
    <3> QED
      BY <3>2 DEF e, g
  <2> QED
    BY <2>2, <2>3, <2>5
<1> QED
  BY <1>1, <1>2

\* An answer ends the lookup, or it is asked again with a version it has left.
LEMMA AskStep ==
    ASSUME Types, NEW t \in Threads, LookupOf(t), pc[t] = "call",
           GetPort(t) \/ GetAddrList(t) \/ GetAddr(t)
    PROVE  \/ Found(t) /\ net[t] \in registered /\ HostsAt(client[t].addr) # {}
           \/ NotFound(t) /\ (HostsAt(client[t].addr) = {} \/ Hopeless(net[t]))
           \/ \E s \in {"list", "regular"}, v \in {3, 4} :
                /\ Again(t, s, v) \/ Regular(t, v)
                /\ v = 3 => 4 \notin speaks
                /\ inet => 2 \notin speaks
<1>1. CASE GetPort(t)
  BY <1>1 DEF GetPort, Answer, RPCBVERS4, Hopeless
<1>2. CASE GetAddrList(t)
  BY <1>2 DEF GetAddrList, Answer, RPCBVERS4, RPCBVERS, Hopeless, LookupOf, Looking
<1>3. CASE GetAddr(t)
  <2>1. speaks \subseteq 2..5 /\ vers[t] \in {3, 4} /\ (inet => 2 \notin speaks)
        /\ (vers[t] = 3 => 4 \notin speaks)
    BY <1>3 DEF Types, FixedType, LookupType, LookupOf, Looking, GetAddr
  <2>2. speaks \cap {3, 4} = {} => Mute
    BY <2>1 DEF Mute
  <2>3. Lowest > 4 => speaks \cap {3, 4} = {}
    <3>1. CASE speaks = {}
      BY <3>1
    <3>2. CASE speaks # {}
      <4>1. \E v \in speaks : \A w \in speaks : v <= w
        BY <2>1, <3>2, LeastExists
      <4> QED
        BY <2>1, <4>1 DEF Lowest
    <3> QED
      BY <3>1, <3>2
  <2>4. CASE Answer(t, vers[t]) = "mismatch"
    <3>1. vers[t] \notin speaks
      BY <2>4 DEF Answer
    <3>2. \/ NotFound(t) /\ (Lowest > 4 \/ vers[t] = 3)
          \/ Again(t, "regular", 3) /\ vers[t] # 3
      BY <1>3, <2>4 DEF GetAddr, RPCBVERS4, RPCBVERS
    <3> QED
      BY <2>1, <2>2, <2>3, <3>1, <3>2 DEF Hopeless
  <2>5. CASE Answer(t, vers[t]) # "mismatch"
    BY <1>3, <2>5 DEF GetAddr, Answer, Hopeless
  <2> QED
    BY <2>4, <2>5
<1> QED
  BY <1>1, <1>2, <1>3

LEMMA AskTypes ==
    ASSUME Types, LookupInv, NEW t \in Threads, GetPort(t) \/ GetAddrList(t) \/ GetAddr(t)
    PROVE  LookupType'
<1>0. LookupType /\ LookupOf(t) /\ pc[t] = "call"
  BY DEF Types, LookupInv, GetPort, GetAddrList, GetAddr, Found, NotFound, Again, Regular, At
<1> USE LookupDefaults DEF LookupType
<1>1. CASE Found(t) \/ NotFound(t)
  BY <1>0, <1>1 DEF Found, NotFound, Ended
<1>2. ASSUME NEW s \in {"list", "regular"}, NEW v \in {3, 4}, Again(t, s, v) PROVE LookupType'
  BY <1>0, <1>2 DEF Again
<1>3. ASSUME NEW v \in {3, 4}, Regular(t, v), net[t] # "udp" PROVE LookupType'
  <2>1. [NoGet EXCEPT !.net = "tcp"] \in Gets
    BY DEF Nets, Netids
  <2> QED
    BY <1>0, <1>3, <2>1 DEF Regular
<1> QED
  BY <1>0, <1>1, <1>2, <1>3, AskStep DEF Regular

LEMMA LookupTypeStep ==
    ASSUME Types, CacheInv, LookupInv, [Next]_vars
    PROVE  LookupType'
<1> USE DEF At, lookup
<1>0. LookupType /\ \A h \in Hosts : where[h] \in Nat
  BY DEF Types, FixedType
<1>1. CASE UNCHANGED vars
  BY <1>0, <1>1 DEF LookupType, vars
<1>2. ASSUME NEW t \in Threads, NEW h \in Hosts, Begin(t, h) PROVE LookupType'
  BY <1>0, <1>2 DEF LookupType, Begin
<1>3. ASSUME NEW t \in Threads, Transported(t) PROVE LookupType'
  <2>1. \/ UNCHANGED lookup
        \/ /\ \/ get' = [get EXCEPT ![t] = [NoGet EXCEPT !.net = "udp"]]
              \/ net'[t] \in Nets /\ get' = [get EXCEPT ![t] = [NoGet EXCEPT !.net = net'[t]]]
           /\ \E s \in {"v2", "list", "regular"} : stage' = [stage EXCEPT ![t] = s]
           /\ client' = [client EXCEPT ![t] = NoClient] /\ vers' = [vers EXCEPT ![t] = 4]
    <3>1. (left[t] # << >> => Head(left[t]) \in Nets) /\ net \in [Threads -> Nets]
      BY DEF Types, CallType, Nets
    <3>2. CASE left[t] = << >>
      BY <3>2, <1>3 DEF Transported, Transport
    <3>3. CASE left[t] # << >>
      <4>1. net'[t] \in Nets
        BY <3>1, <3>3, <1>3 DEF Transported, Transport
      <4>2. \/ get' = [get EXCEPT ![t] = [NoGet EXCEPT !.net = "udp"]]
            \/ get' = [get EXCEPT ![t] = [NoGet EXCEPT !.net = net'[t]]]
        BY <3>3, <1>3 DEF Transported, Transport
      <4>3. \E s \in {"v2", "list", "regular"} : stage' = [stage EXCEPT ![t] = s]
        BY <3>3, <1>3 DEF Transported, Transport
      <4>4. client' = [client EXCEPT ![t] = NoClient] /\ vers' = [vers EXCEPT ![t] = 4]
        BY <3>3, <1>3 DEF Transported, Transport, RPCBVERS4
      <4> QED
        BY <4>1, <4>2, <4>3, <4>4
    <3> QED
      BY <3>2, <3>3
  <2>2. [NoGet EXCEPT !.net = "udp"] \in Gets
    BY LookupDefaults DEF Nets, Netids
  <2> QED
    BY <1>0, <2>1, <2>2, LookupDefaults DEF LookupType
<1>4. ASSUME NEW t \in Threads, Service(t) PROVE LookupType'
  BY <1>0, <1>4 DEF LookupType, Service
<1>5. ASSUME NEW t \in Threads, Connect(t) PROVE LookupType'
  BY <1>0, <1>5 DEF LookupType, Connect
<1>6. ASSUME NEW t \in Threads, CheckCache(t) PROVE LookupType'
  <2>1. get' \in [Threads -> Gets]
    BY <1>0, <1>6, EntryFound DEF LookupType
  <2> QED
    BY <1>0, <1>6, <2>1 DEF LookupType, CheckCache, OnlyGet
<1>7. ASSUME NEW t \in Threads, Try(t) PROVE LookupType'
  <2>1. client' = client \/ client' = [client EXCEPT ![t] = [net |-> get[t].net, addr |-> get[t].addr]]
    BY <1>7 DEF Try, OnlyGet
  <2>2. get[t].net \in Nets /\ get[t].addr \in Nat
    BY <1>0 DEF LookupType, Gets
  <2>3. client' \in [Threads -> Clients]
    <3>1. [net |-> get[t].net, addr |-> get[t].addr] \in Clients
      BY <2>2 DEF Clients
    <3> HIDE DEF lookup
    <3> QED
      BY <1>0, <2>1, <3>1 DEF LookupType
  <2> QED
    BY <1>0, <1>7, <2>3 DEF Try, OnlyGet, LookupType
<1>8. ASSUME NEW t \in Threads, Delete(t) PROVE LookupType'
  BY <1>0, <1>8 DEF LookupType, Delete, OnlyGet
<1>9. ASSUME NEW t \in Threads, Resolve(t) PROVE LookupType'
  <2>1. get' = [get EXCEPT ![t] = [get[t] EXCEPT !.addr = where[host[t]]]]
    BY <1>0, <1>9 DEF LookupType, Resolve
  <2>2. where[host[t]] \in Nat /\ get[t] \in Gets
    BY <1>0, <1>9 DEF LookupType, Resolve, LookupInv, LookupOf, Looking
  <2>3. get' \in [Threads -> Gets]
    BY <1>0, <2>1, <2>2 DEF LookupType, Gets
  <2> QED
    BY <1>0, <1>9, <2>3 DEF LookupType, Resolve, OnlyGet
<1>10. ASSUME NEW t \in Threads, Add(t) PROVE LookupType'
  <2>1. client' = client \/ client' = [client EXCEPT ![t] = [net |-> get[t].net, addr |-> get[t].addr]]
    BY <1>10 DEF Add, OnlyGet
  <2>2. get[t].net \in Nets /\ get[t].addr \in Nat
    BY <1>0 DEF LookupType, Gets
  <2>3. client' \in [Threads -> Clients]
    <3>1. [net |-> get[t].net, addr |-> get[t].addr] \in Clients
      BY <2>2 DEF Clients
    <3> HIDE DEF lookup
    <3> QED
      BY <1>0, <2>1, <3>1 DEF LookupType
  <2> QED
    BY <1>0, <1>10, <2>3 DEF Add, OnlyGet, LookupType
<1>11. ASSUME NEW t \in Threads, GetPort(t) PROVE LookupType'
  BY <1>0, <1>11, AskTypes
<1>12. ASSUME NEW t \in Threads, GetAddrList(t) PROVE LookupType'
  BY <1>0, <1>12, AskTypes
<1>13. ASSUME NEW t \in Threads, GetAddr(t) PROVE LookupType'
  BY <1>0, <1>13, AskTypes
<1>14. ASSUME NEW h \in Hosts, Move(h) PROVE LookupType'
  BY <1>0, <1>14 DEF LookupType, Move, Disturb, OnlyWorld
<1>15. ASSUME NEW h \in Hosts, Restart(h) PROVE LookupType'
  BY <1>0, <1>15 DEF LookupType, Restart, Disturb, OnlyWorld
<1> QED
  BY <1>1, <1>2, <1>3, <1>4, <1>5, <1>6, <1>7, <1>8, <1>9, <1>10, <1>11, <1>12, <1>13, <1>14, <1>15 DEF Next, Run

LEMMA WorldStep ==
    ASSUME Types, WorldInv, [Next]_vars
    PROVE  WorldInv'
<1> USE DEF WorldInv, fixed, world
<1>0. FixedType /\ Cardinality(Hosts) \in Nat
  BY FirstAddresses DEF Types
<1>1. CASE UNCHANGED vars
  BY <1>1 DEF vars
<1>2. ASSUME NEW t \in Threads, NEW h \in Hosts, Begin(t, h) PROVE WorldInv'
  BY <1>2 DEF Begin
<1>3. ASSUME NEW t \in Threads, Transported(t) PROVE WorldInv'
  BY <1>3 DEF Transported, Transport
<1>4. ASSUME NEW t \in Threads, Service(t) PROVE WorldInv'
  BY <1>4 DEF Service
<1>5. ASSUME NEW t \in Threads, Connect(t) PROVE WorldInv'
  BY <1>5 DEF Connect
<1>6. ASSUME NEW t \in Threads, CheckCache(t) PROVE WorldInv'
  BY <1>6 DEF CheckCache, OnlyGet
<1>7. ASSUME NEW t \in Threads, Try(t) PROVE WorldInv'
  BY <1>7 DEF Try, OnlyGet
<1>8. ASSUME NEW t \in Threads, Delete(t) PROVE WorldInv'
  BY <1>8 DEF Delete, OnlyGet
<1>9. ASSUME NEW t \in Threads, Resolve(t) PROVE WorldInv'
  BY <1>9 DEF Resolve, OnlyGet
<1>10. ASSUME NEW t \in Threads, Add(t) PROVE WorldInv'
  BY <1>10 DEF Add, OnlyGet
<1>11. ASSUME NEW t \in Threads, GetPort(t) PROVE WorldInv'
  BY <1>11 DEF GetPort, OnlyFind, Found, NotFound, Again, Ended
<1>12. ASSUME NEW t \in Threads, GetAddrList(t) PROVE WorldInv'
  BY <1>12 DEF GetAddrList, OnlyFind, Found, NotFound, Again, Regular, Ended
<1>13. ASSUME NEW t \in Threads, GetAddr(t) PROVE WorldInv'
  BY <1>13 DEF GetAddr, OnlyFind, Found, NotFound, Again, Ended
<1>14. ASSUME NEW h \in Hosts, Move(h) PROVE WorldInv'
  <2>1. /\ where' = [where EXCEPT ![h] = Cardinality(Hosts) + events']
        /\ events' = events + 1
    BY <1>14 DEF Move, Disturb
  <2>2. \A g \in Hosts : where[g] < Cardinality(Hosts) + events'
    BY <1>0, <2>1 DEF FixedType
  <2> QED
    BY <1>0, <2>1, <2>2 DEF FixedType
<1>15. ASSUME NEW h \in Hosts, Restart(h) PROVE WorldInv'
  BY <1>0, <1>15 DEF Restart, Disturb, FixedType
<1> QED
  BY <1>1, <1>2, <1>3, <1>4, <1>5, <1>6, <1>7, <1>8, <1>9, <1>10, <1>11, <1>12, <1>13, <1>14, <1>15 DEF Next, Run

(* The list, after an entry has left it or come to it. *)

LEMMA EntryIds ==
    ASSUME NEW c, NEW n, Stacked(c, n)
    PROVE  c \in Seq(Entries) /\ Len(c) \in Nat /\ \A j \in 1..Len(c) : c[j].id \in Nat
<1>1. c \in Seq(Entries) /\ Len(c) \in Nat
  BY DEF Stacked
<1>2. \A j \in 1..Len(c) : c[j] \in Entries
  BY <1>1
<1> QED
  BY <1>1, <1>2 DEF Entries

LEMMA EntryRemoved ==
    ASSUME NEW c, NEW n \in Nat, Stacked(c, n), NEW i \in 1..Len(c)
    PROVE  Stacked(RemoveAt(c, i), n) /\ Len(RemoveAt(c, i)) = Len(c) - 1
<1>1. c \in Seq(Entries) /\ Len(c) \in Nat /\ \A j \in 1..Len(c) : c[j].id \in Nat
  BY EntryIds
<1> DEFINE d == RemoveAt(c, i)
           at(j) == IF j < i THEN j ELSE j + 1
<1>2. /\ d \in Seq(Entries) /\ Len(d) = Len(c) - 1
      /\ \A j \in 1..(Len(c) - 1) : d[j] = c[at(j)]
  BY <1>1, RemoveAtFacts
<1> HIDE DEF d
<1>3. \A j, k \in 1..(Len(c) - 1) : at(j) \in 1..Len(c) /\ (j < k => at(j) < at(k))
  BY <1>1
<1>4. \A j \in 1..Len(d) : d[j].id <= n
  BY <1>1, <1>2, <1>3 DEF Stacked
<1>5. ASSUME NEW j \in 1..Len(d), NEW k \in 1..Len(d), j < k PROVE d[j].id > d[k].id
  <2>1. /\ d[j] = c[at(j)] /\ d[k] = c[at(k)] /\ at(j) < at(k)
        /\ at(j) \in 1..Len(c) /\ at(k) \in 1..Len(c)
    BY <1>2, <1>3, <1>5
  <2> QED
    BY <2>1 DEF Stacked
<1> QED
  BY <1>2, <1>4, <1>5 DEF Stacked, d

LEMMA LastDropped ==
    ASSUME NEW c, NEW n \in Nat, Stacked(c, n), c # << >>
    PROVE  Stacked(Front(c), n) /\ Len(Front(c)) = Len(c) - 1
<1>1. c \in Seq(Entries) /\ Len(c) \in Nat
  BY DEF Stacked
<1> DEFINE d == Front(c)
<1>2. /\ d \in Seq(Entries) /\ Len(d) = Len(c) - 1
      /\ \A j \in 1..(Len(c) - 1) : d[j] = c[j]
  BY <1>1, FrontFacts
<1> HIDE DEF d
<1>3. Stacked(d, n)
  <2>1. Len(d) \in Nat /\ \A j \in 1..Len(d) : j \in 1..Len(c) /\ d[j] = c[j]
    BY <1>1, <1>2
  <2>2. \A j \in 1..Len(d) : d[j].id <= n
    BY <2>1 DEF Stacked
  <2>3. \A j, k \in 1..Len(d) : j < k => d[j].id > d[k].id
    BY <2>1 DEF Stacked
  <2> QED
    BY <1>2, <2>2, <2>3 DEF Stacked
<1> QED
  BY <1>2, <1>3 DEF d

LEMMA EntryAdded ==
    ASSUME NEW c, NEW n \in Nat, Stacked(c, n), NEW e \in Entries, e.id = n + 1
    PROVE  Stacked(<<e>> \o c, n + 1) /\ Len(<<e>> \o c) = Len(c) + 1
<1>1. c \in Seq(Entries) /\ Len(c) \in Nat /\ \A j \in 1..Len(c) : c[j].id \in Nat
  BY EntryIds
<1> DEFINE d == <<e>> \o c
<1>2. /\ d \in Seq(Entries) /\ Len(d) = Len(c) + 1 /\ d[1] = e
      /\ \A j \in 2..(Len(c) + 1) : d[j] = c[j - 1]
  BY <1>1, ConsFacts
<1> HIDE DEF d
<1>3. \A j \in 1..Len(d) : d[j].id <= n + 1 /\ (j # 1 => d[j].id <= n)
  <2>1. e.id = n + 1 /\ \A j \in 1..Len(c) : c[j].id <= n
    BY DEF Stacked
  <2>2. ASSUME NEW j \in 1..Len(d), j # 1 PROVE d[j].id <= n /\ n <= n + 1 /\ d[j].id \in Nat
    <3>1. j \in 2..(Len(c) + 1) /\ j - 1 \in 1..Len(c)
      BY <1>1, <1>2, <2>2
    <3> QED
      BY <1>1, <1>2, <2>1, <3>1
  <2> QED
    BY <1>2, <2>1, <2>2
<1>4. ASSUME NEW j \in 1..Len(d), NEW k \in 1..Len(d), j < k PROVE d[j].id > d[k].id
  <2>1. CASE j = 1
    BY <1>1, <1>2, <1>3, <1>4, <2>1
  <2>2. CASE j # 1
    <3>1. d[j] = c[j - 1] /\ d[k] = c[k - 1] /\ j - 1 < k - 1
      BY <1>1, <1>2, <1>4, <2>2
    <3> QED
      BY <1>1, <1>2, <1>4, <2>2, <3>1 DEF Stacked
  <2> QED
    BY <2>1, <2>2
<1> QED
  BY <1>2, <1>3, <1>4 DEF Stacked, d

\* A step of a thread that leaves the cache and its lock alone.
LEMMA CacheKept ==
    ASSUME CacheInv, NEW t \in Threads, pc[t] # "try", pc'[t] # "try",
           \A u \in Threads \ {t} : pc'[u] = pc[u] /\ get'[u] = get[u],
           UNCHANGED caching, UNCHANGED rd
    PROVE  CacheInv'
<1>1. UNCHANGED <<cache, cachesize, ids, rd>>
  BY DEF caching
<1>2. rd' = {u \in Threads : pc'[u] = "try"}
  BY <1>1 DEF CacheInv
<1>3. \A u \in Threads : pc'[u] = "try" => \E i \in DOMAIN cache' : cache'[i].id = get'[u].entry
  BY <1>1 DEF CacheInv
<1> QED
  BY <1>1, <1>2, <1>3 DEF CacheInv

LEMMA CacheStep ==
    ASSUME Types, CacheInv, LookupInv, Types', [Next]_vars
    PROVE  CacheInv'
<1> USE DEF At
<1>0. /\ pc \in [Threads -> Places] /\ get \in [Threads -> Gets] /\ get' \in [Threads -> Gets]
      /\ CacheInv /\ LookupType /\ CACHESIZE \in Nat \ {0}
  BY ClntAssumption DEF Types, CallType, LookupType
<1>1. CASE UNCHANGED vars
  BY <1>0, <1>1 DEF vars, caching, lookup, CacheInv
<1>2. ASSUME NEW t \in Threads, NEW h \in Hosts, Begin(t, h) PROVE CacheInv'
  <2>1. /\ pc[t] # "try" /\ pc'[t] # "try" /\ UNCHANGED caching /\ UNCHANGED rd
        /\ \A u \in Threads \ {t} : pc'[u] = pc[u] /\ get'[u] = get[u]
    BY <1>0, <1>2 DEF Begin, lookup
  <2> QED
    BY <1>0, <2>1, CacheKept
<1>3. ASSUME NEW t \in Threads, Transported(t) PROVE CacheInv'
  <2>1. /\ pc[t] # "try" /\ pc'[t] # "try" /\ UNCHANGED caching /\ UNCHANGED rd
        /\ \A u \in Threads \ {t} : pc'[u] = pc[u] /\ get'[u] = get[u]
    BY <1>0, <1>3 DEF Transported, Transport, lookup
  <2> QED
    BY <1>0, <2>1, CacheKept
<1>4. ASSUME NEW t \in Threads, Service(t) PROVE CacheInv'
  <2>1. /\ pc[t] # "try" /\ pc'[t] # "try" /\ UNCHANGED caching /\ UNCHANGED rd
        /\ \A u \in Threads \ {t} : pc'[u] = pc[u] /\ get'[u] = get[u]
    BY <1>0, <1>4 DEF Service, lookup
  <2> QED
    BY <1>0, <2>1, CacheKept
<1>5. ASSUME NEW t \in Threads, Connect(t) PROVE CacheInv'
  <2>1. /\ pc[t] # "try" /\ pc'[t] # "try" /\ UNCHANGED caching /\ UNCHANGED rd
        /\ \A u \in Threads \ {t} : pc'[u] = pc[u] /\ get'[u] = get[u]
    BY <1>0, <1>5 DEF Connect, lookup
  <2> QED
    BY <1>0, <2>1, CacheKept
<1>6. ASSUME NEW t \in Threads, CheckCache(t) PROVE CacheInv'
  <2>1. /\ pc[t] = "get" /\ UNCHANGED <<cache, cachesize, ids>>
    BY <1>6 DEF CheckCache, caching
  <2>2. CASE get' = get /\ pc' = [pc EXCEPT ![t] = "resolve"] /\ rd' = rd
    BY <1>0, <2>1, <2>2 DEF CacheInv
  <2>3. CASE /\ pc' = [pc EXCEPT ![t] = "try"] /\ rd' = rd \cup {t}
             /\ \A u \in Threads \ {t} : get'[u] = get[u]
             /\ \E i \in DOMAIN cache : get'[t].entry = cache[i].id
    <3>1. rd' = {u \in Threads : pc'[u] = "try"}
      BY <1>0, <2>3 DEF CacheInv
    <3>2. \A u \in Threads : pc'[u] = "try" => \E i \in DOMAIN cache : cache[i].id = get'[u].entry
      BY <1>0, <2>3 DEF CacheInv
    <3> QED
      BY <1>0, <2>1, <3>1, <3>2 DEF CacheInv
  <2> QED
    BY <1>0, <1>6, <2>2, <2>3, EntryFound
<1>7. ASSUME NEW t \in Threads, Try(t) PROVE CacheInv'
  <2>1. /\ UNCHANGED <<cache, cachesize, ids, get>> /\ rd' = rd \ {t}
        /\ \E p \in {"call", "delete"} : pc' = [pc EXCEPT ![t] = p]
    BY <1>7 DEF Try, caching
  <2>2. rd' = {u \in Threads : pc'[u] = "try"}
    BY <1>0, <2>1 DEF CacheInv
  <2>3. \A u \in Threads : pc'[u] = "try" => pc[u] = "try"
    BY <1>0, <2>1
  <2> QED
    BY <1>0, <2>1, <2>2, <2>3 DEF CacheInv
<1>8. ASSUME NEW t \in Threads, Delete(t) PROVE CacheInv'
  <2>1. /\ ids' = ids /\ get' = get /\ rd' = rd /\ rd = {} /\ pc' = [pc EXCEPT ![t] = "resolve"]
    BY <1>8 DEF Delete, Writing
  <2>2. \A u \in Threads : pc'[u] # "try" /\ pc[u] # "try"
    BY <1>0, <2>1 DEF CacheInv
  <2> DEFINE hits == {i \in DOMAIN cache : cache[i].addr = get[t].addr}
             i == CHOOSE i \in hits : \A j \in hits : i <= j
  <2>3. CASE hits = {}
    <3>1. UNCHANGED <<cache, cachesize>>
      BY <1>8, <2>3 DEF Delete
    <3> QED
      BY <1>0, <2>1, <2>2, <3>1 DEF CacheInv
  <2>4. CASE hits # {}
    <3>1. cache' = RemoveAt(cache, i) /\ cachesize' = cachesize - 1
      BY <1>8, <2>4 DEF Delete
    <3>2. Stacked(cache, ids) /\ ids \in Nat /\ cachesize = Len(cache) /\ Len(cache) <= CACHESIZE
      BY DEF CacheInv
    <3>3. DOMAIN cache = 1..Len(cache) /\ Len(cache) \in Nat
      BY <3>2 DEF Stacked
    <3>4. hits \in SUBSET Nat /\ hits \subseteq 1..Len(cache)
      BY <3>3
    <3>5. i \in 1..Len(cache)
      BY <2>4, <3>4, FirstOf
    <3> HIDE DEF i
    <3>6. Stacked(cache', ids) /\ Len(cache') = Len(cache) - 1
      BY <3>1, <3>2, <3>5, EntryRemoved
    <3> QED
      BY <1>0, <2>1, <2>2, <3>1, <3>2, <3>3, <3>6 DEF CacheInv
  <2> QED
    BY <2>3, <2>4
<1>9. ASSUME NEW t \in Threads, Resolve(t) PROVE CacheInv'
  <2>1. /\ pc[t] # "try" /\ pc'[t] # "try" /\ UNCHANGED caching /\ UNCHANGED rd
        /\ \A u \in Threads \ {t} : pc'[u] = pc[u] /\ get'[u] = get[u]
    BY <1>0, <1>9 DEF Resolve, OnlyGet
  <2> QED
    BY <1>0, <2>1, CacheKept
<1>10. ASSUME NEW t \in Threads, Add(t) PROVE CacheInv'
  <2> DEFINE new == [id |-> ids + 1, host |-> host[t], net |-> get[t].net, addr |-> get[t].addr]
  <2>1. /\ ids' = ids + 1 /\ rd' = rd /\ rd = {} /\ pc' = [pc EXCEPT ![t] = "call"]
        /\ IF cachesize < CACHESIZE
           THEN cache' = <<new>> \o cache /\ cachesize' = cachesize + 1
           ELSE cache' = <<new>> \o Front(cache) /\ cachesize' = cachesize
    BY <1>10 DEF Add, Writing
  <2>2. \A u \in Threads : pc'[u] # "try" /\ pc[u] # "try"
    BY <1>0, <2>1 DEF CacheInv
  <2>3. Stacked(cache, ids) /\ ids \in Nat /\ cachesize = Len(cache) /\ Len(cache) <= CACHESIZE
    BY DEF CacheInv
  <2>4. new \in Entries /\ new.id = ids + 1
    <3>1. get[t] \in Gets /\ host[t] \in Names
      BY <1>0 DEF Types, CallType
    <3> QED
      BY <2>3, <3>1 DEF Gets, Entries
  <2> HIDE DEF new
  <2>5. Len(cache) \in Nat /\ cache \in Seq(Entries)
    BY <2>3 DEF Stacked
  <2>6. CASE cachesize < CACHESIZE
    <3>1. Stacked(cache', ids + 1) /\ Len(cache') = Len(cache) + 1
      BY <2>1, <2>3, <2>4, <2>6, EntryAdded
    <3> QED
      BY <1>0, <2>1, <2>2, <2>3, <2>5, <2>6, <3>1 DEF CacheInv
  <2>7. CASE ~(cachesize < CACHESIZE)
    <3>1. Len(cache) = CACHESIZE /\ cache # << >>
      BY <1>0, <2>3, <2>5, <2>7
    <3>2. Stacked(Front(cache), ids) /\ Len(Front(cache)) = Len(cache) - 1
      BY <2>3, <3>1, LastDropped
    <3>3. Stacked(cache', ids + 1) /\ Len(cache') = Len(Front(cache)) + 1
      BY <2>1, <2>3, <2>4, <2>7, <3>2, EntryAdded
    <3> QED
      BY <1>0, <2>1, <2>2, <2>3, <2>5, <2>7, <3>1, <3>2, <3>3 DEF CacheInv
  <2> QED
    BY <2>6, <2>7
<1>11. ASSUME NEW t \in Threads, GetPort(t) PROVE CacheInv'
  <2>1. /\ pc[t] # "try" /\ pc'[t] # "try" /\ UNCHANGED caching /\ UNCHANGED rd
        /\ \A u \in Threads \ {t} : pc'[u] = pc[u] /\ get'[u] = get[u]
    BY <1>0, <1>11 DEF GetPort, OnlyFind, Found, NotFound, Again, Ended
  <2> QED
    BY <1>0, <2>1, CacheKept
<1>12. ASSUME NEW t \in Threads, GetAddrList(t) PROVE CacheInv'
  <2>1. /\ pc[t] # "try" /\ pc'[t] # "try" /\ UNCHANGED caching /\ UNCHANGED rd
        /\ \A u \in Threads \ {t} : pc'[u] = pc[u] /\ get'[u] = get[u]
    BY <1>0, <1>12 DEF GetAddrList, OnlyFind, Found, NotFound, Again, Regular, Ended
  <2> QED
    BY <1>0, <2>1, CacheKept
<1>13. ASSUME NEW t \in Threads, GetAddr(t) PROVE CacheInv'
  <2>1. /\ pc[t] # "try" /\ pc'[t] # "try" /\ UNCHANGED caching /\ UNCHANGED rd
        /\ \A u \in Threads \ {t} : pc'[u] = pc[u] /\ get'[u] = get[u]
    BY <1>0, <1>13 DEF GetAddr, OnlyFind, Found, NotFound, Again, Ended
  <2> QED
    BY <1>0, <2>1, CacheKept
<1>14. ASSUME NEW h \in Hosts, Move(h) PROVE CacheInv'
  <2>1. UNCHANGED <<cache, cachesize, ids, rd, pc, get>>
    BY <1>14 DEF Move, OnlyWorld, caching, lookup
  <2> QED
    BY <1>0, <2>1 DEF CacheInv
<1>15. ASSUME NEW h \in Hosts, Restart(h) PROVE CacheInv'
  <2>1. UNCHANGED <<cache, cachesize, ids, rd, pc, get>>
    BY <1>15 DEF Restart, OnlyWorld, caching, lookup
  <2> QED
    BY <1>0, <2>1 DEF CacheInv
<1> QED
  BY <1>1, <1>2, <1>3, <1>4, <1>5, <1>6, <1>7, <1>8, <1>9, <1>10, <1>11, <1>12, <1>13, <1>14, <1>15 DEF Next, Run

\* The other threads' lookups are not touched.
LEMMA LookupSame ==
    ASSUME NEW u, LookupOf(u), UNCHANGED fixed,
           pc'[u] = pc[u], host'[u] = host[u], net'[u] = net[u], left'[u] = left[u],
           vers'[u] = vers[u], stage'[u] = stage[u], get'[u] = get[u], client'[u] = client[u]
    PROVE  LookupOf(u)'
BY DEF LookupOf, fixed

\* The three questions, as steps of the lookup.
LEMMA LookupAsked ==
    ASSUME Types, LookupInv, NEW t \in Threads, GetPort(t) \/ GetAddrList(t) \/ GetAddr(t)
    PROVE  LookupOf(t)'
<1>0. /\ pc \in [Threads -> Places] /\ stage \in [Threads -> {"none", "v2", "list", "regular"}]
      /\ vers \in [Threads -> {0, 3, 4}] /\ get \in [Threads -> Gets]
      /\ net \in [Threads -> Nets] /\ client \in [Threads -> Clients]
  BY DEF Types, CallType, LookupType
<1>1. LookupOf(t) /\ pc[t] = "call"
  BY DEF LookupInv, GetPort, GetAddrList, GetAddr, Found, NotFound, Again, Regular, At
<1>2. /\ UNCHANGED <<order, speaks, inet, registered, host, left, net>>
  BY DEF GetPort, GetAddrList, GetAddr, OnlyFind, fixed
<1>3. CASE Found(t) \/ NotFound(t)
  BY <1>0, <1>1, <1>2, <1>3 DEF Found, NotFound, Ended, At, LookupOf, Looking
<1>4. ASSUME NEW s \in {"list", "regular"}, NEW v \in {3, 4}, Again(t, s, v),
             v = 3 => 4 \notin speaks, inet => 2 \notin speaks
      PROVE  LookupOf(t)'
  BY <1>0, <1>1, <1>2, <1>4 DEF Again, At, LookupOf, Looking
<1>5. ASSUME NEW v \in {3, 4}, Regular(t, v), net[t] # "udp",
             v = 3 => 4 \notin speaks, inet => 2 \notin speaks
      PROVE  LookupOf(t)'
  <2>1. get'[t] = [NoGet EXCEPT !.net = "tcp"] /\ [NoGet EXCEPT !.net = "tcp"].net = "tcp"
    BY <1>0, <1>5 DEF Regular, NoGet
  <2> QED
    BY <1>0, <1>1, <1>2, <1>5, <2>1 DEF Regular, At, LookupOf, Looking, Netids
<1> QED
  BY <1>1, <1>3, <1>4, <1>5, AskStep DEF Regular

LEMMA LookupStep ==
    ASSUME Types, CacheInv, LookupInv, [Next]_vars
    PROVE  LookupInv'
<1> USE DEF At
<1>0. /\ pc \in [Threads -> Places] /\ stage \in [Threads -> {"none", "v2", "list", "regular"}]
      /\ vers \in [Threads -> {0, 3, 4}] /\ get \in [Threads -> Gets]
      /\ net \in [Threads -> Nets] /\ client \in [Threads -> Clients]
      /\ host \in [Threads -> Names] /\ left \in [Threads -> Seq(Netids)] /\ LookupType
      /\ order \in Seq(Netids)
      /\ \A u \in Threads : LookupOf(u)
  BY DEF Types, FixedType, CallType, LookupType, LookupInv
<1>1. CASE UNCHANGED vars
  <2>1. UNCHANGED <<order, speaks, inet, registered, pc, host, left, net, vers, stage, get, client>>
    BY <1>1 DEF vars, OnlyWorld, fixed, lookup, calling
  <2> QED
    BY <1>0, <2>1 DEF LookupInv, LookupOf
<1>2. ASSUME NEW t \in Threads, NEW h \in Hosts, Begin(t, h) PROVE LookupInv'
  <2>1. ASSUME NEW u \in Threads, u # t PROVE LookupOf(u)'
    <3>1. /\ UNCHANGED fixed
          /\ pc'[u] = pc[u] /\ host'[u] = host[u] /\ net'[u] = net[u] /\ left'[u] = left[u]
          /\ vers'[u] = vers[u] /\ stage'[u] = stage[u] /\ get'[u] = get[u] /\ client'[u] = client[u]
      BY <1>0, <2>1, <1>2 DEF Begin, lookup, calling
    <3> QED
      BY <1>0, <3>1, LookupSame
  <2>2. LookupOf(t)'
    BY <1>0, <1>2 DEF Begin, lookup, calling, fixed, LookupOf, Looking
  <2> QED
    BY <2>1, <2>2 DEF LookupInv
<1>3. ASSUME NEW t \in Threads, Transported(t) PROVE LookupInv'
  <2>1. ASSUME NEW u \in Threads, u # t PROVE LookupOf(u)'
    <3>1. /\ UNCHANGED fixed
          /\ pc'[u] = pc[u] /\ host'[u] = host[u] /\ net'[u] = net[u] /\ left'[u] = left[u]
          /\ vers'[u] = vers[u] /\ stage'[u] = stage[u] /\ get'[u] = get[u] /\ client'[u] = client[u]
      BY <1>0, <2>1, <1>3 DEF Transported, Transport, lookup, calling
    <3> QED
      BY <1>0, <3>1, LookupSame
  <2>2. LookupOf(t)'
    <3>1. UNCHANGED <<order, speaks, inet, registered, host>> /\ pc[t] = "transport"
      BY <1>3 DEF Transported, Transport, fixed
    <3>2. CASE left[t] = << >>
      BY <1>0, <1>3, <3>1, <3>2 DEF Transported, Transport, LookupOf, Looking
    <3>3. CASE left[t] # << >>
      <4>1. /\ Head(left[t]) = left[t][1] /\ 1 \in DOMAIN left[t]
            /\ \A j \in DOMAIN Tail(left[t]) : j + 1 \in DOMAIN left[t]
                                               /\ Tail(left[t])[j] = left[t][j + 1]
        BY <1>0, <3>3
      <4>2. /\ net'[t] = Head(left[t]) /\ left'[t] = Tail(left[t]) /\ pc'[t] = "get"
            /\ stage'[t] \in {"v2", "list", "regular"} /\ (inet <=> stage'[t] = "v2") /\ vers'[t] = 4
        BY <1>0, <1>3, <3>3 DEF Transported, Transport, RPCBVERS4
      <4>3. get'[t].net \in Netids
        <5>1. Head(left[t]) \in Netids
          BY <1>0, <3>3
        <5>2. \/ get' = [get EXCEPT ![t] = [NoGet EXCEPT !.net = "udp"]]
              \/ get' = [get EXCEPT ![t] = [NoGet EXCEPT !.net = net'[t]]]
          BY <1>3, <3>3 DEF Transported, Transport
        <5>3. [NoGet EXCEPT !.net = "udp"].net = "udp" /\ [NoGet EXCEPT !.net = net'[t]].net = net'[t]
          BY DEF NoGet
        <5> QED
          BY <1>0, <4>2, <5>1, <5>2, <5>3 DEF Netids
      <4>4. \E i \in DOMAIN order : order[i] = net'[t]
        BY <1>0, <4>1, <4>2 DEF LookupOf
      <4>5. \A j \in DOMAIN left'[t] : \E i \in DOMAIN order : order[i] = left'[t][j]
        BY <1>0, <4>1, <4>2 DEF LookupOf
      <4> QED
        BY <1>0, <3>1, <4>2, <4>3, <4>4, <4>5 DEF LookupOf, Looking
    <3> QED
      BY <3>2, <3>3
  <2> QED
    BY <2>1, <2>2 DEF LookupInv
<1>4. ASSUME NEW t \in Threads, Service(t) PROVE LookupInv'
  <2>1. ASSUME NEW u \in Threads, u # t PROVE LookupOf(u)'
    <3>1. /\ UNCHANGED fixed
          /\ pc'[u] = pc[u] /\ host'[u] = host[u] /\ net'[u] = net[u] /\ left'[u] = left[u]
          /\ vers'[u] = vers[u] /\ stage'[u] = stage[u] /\ get'[u] = get[u] /\ client'[u] = client[u]
      BY <1>0, <2>1, <1>4 DEF Service, lookup, calling
    <3> QED
      BY <1>0, <3>1, LookupSame
  <2>2. LookupOf(t)'
    BY <1>0, <1>4 DEF Service, lookup, calling, fixed, LookupOf, Looking
  <2> QED
    BY <2>1, <2>2 DEF LookupInv
<1>5. ASSUME NEW t \in Threads, Connect(t) PROVE LookupInv'
  <2>1. ASSUME NEW u \in Threads, u # t PROVE LookupOf(u)'
    <3>1. /\ UNCHANGED fixed
          /\ pc'[u] = pc[u] /\ host'[u] = host[u] /\ net'[u] = net[u] /\ left'[u] = left[u]
          /\ vers'[u] = vers[u] /\ stage'[u] = stage[u] /\ get'[u] = get[u] /\ client'[u] = client[u]
      BY <1>0, <2>1, <1>5 DEF Connect, lookup, calling
    <3> QED
      BY <1>0, <3>1, LookupSame
  <2>2. LookupOf(t)'
    BY <1>0, <1>5 DEF Connect, lookup, calling, fixed, LookupOf, Looking
  <2> QED
    BY <2>1, <2>2 DEF LookupInv
<1>6. ASSUME NEW t \in Threads, CheckCache(t) PROVE LookupInv'
  <2>1. ASSUME NEW u \in Threads, u # t PROVE LookupOf(u)'
    <3>1. /\ UNCHANGED fixed
          /\ pc'[u] = pc[u] /\ host'[u] = host[u] /\ net'[u] = net[u] /\ left'[u] = left[u]
          /\ vers'[u] = vers[u] /\ stage'[u] = stage[u] /\ get'[u] = get[u] /\ client'[u] = client[u]
      BY <1>0, <2>1, <1>6, EntryFound DEF CheckCache, OnlyGet, lookup, calling
    <3> QED
      BY <1>0, <3>1, LookupSame
  <2>2. LookupOf(t)'
    <3>1. /\ UNCHANGED <<order, speaks, inet, registered, host, left, net, vers, stage>>
          /\ pc[t] = "get" /\ pc'[t] \in {"resolve", "try"} /\ get'[t].net = get[t].net
      BY <1>0, <1>6, EntryFound DEF CheckCache, OnlyGet, fixed, calling
    <3> QED
      BY <1>0, <3>1 DEF LookupOf, Looking
  <2> QED
    BY <2>1, <2>2 DEF LookupInv
<1>7. ASSUME NEW t \in Threads, Try(t) PROVE LookupInv'
  <2>1. ASSUME NEW u \in Threads, u # t PROVE LookupOf(u)'
    <3>1. /\ UNCHANGED fixed
          /\ pc'[u] = pc[u] /\ host'[u] = host[u] /\ net'[u] = net[u] /\ left'[u] = left[u]
          /\ vers'[u] = vers[u] /\ stage'[u] = stage[u] /\ get'[u] = get[u] /\ client'[u] = client[u]
      BY <1>0, <2>1, <1>7 DEF Try, OnlyGet, lookup, calling
    <3> QED
      BY <1>0, <3>1, LookupSame
  <2>2. LookupOf(t)'
    BY <1>0, <1>7 DEF Try, OnlyGet, lookup, calling, fixed, LookupOf, Looking
  <2> QED
    BY <2>1, <2>2 DEF LookupInv
<1>8. ASSUME NEW t \in Threads, Delete(t) PROVE LookupInv'
  <2>1. ASSUME NEW u \in Threads, u # t PROVE LookupOf(u)'
    <3>1. /\ UNCHANGED fixed
          /\ pc'[u] = pc[u] /\ host'[u] = host[u] /\ net'[u] = net[u] /\ left'[u] = left[u]
          /\ vers'[u] = vers[u] /\ stage'[u] = stage[u] /\ get'[u] = get[u] /\ client'[u] = client[u]
      BY <1>0, <2>1, <1>8 DEF Delete, OnlyGet, lookup, calling
    <3> QED
      BY <1>0, <3>1, LookupSame
  <2>2. LookupOf(t)'
    BY <1>0, <1>8 DEF Delete, OnlyGet, lookup, calling, fixed, LookupOf, Looking
  <2> QED
    BY <2>1, <2>2 DEF LookupInv
<1>9. ASSUME NEW t \in Threads, Resolve(t) PROVE LookupInv'
  <2>1. ASSUME NEW u \in Threads, u # t PROVE LookupOf(u)'
    <3>1. /\ UNCHANGED fixed
          /\ pc'[u] = pc[u] /\ host'[u] = host[u] /\ net'[u] = net[u] /\ left'[u] = left[u]
          /\ vers'[u] = vers[u] /\ stage'[u] = stage[u] /\ get'[u] = get[u] /\ client'[u] = client[u]
      BY <1>0, <2>1, <1>9 DEF Resolve, OnlyGet, lookup, calling
    <3> QED
      BY <1>0, <3>1, LookupSame
  <2>2. LookupOf(t)'
    BY <1>0, <1>9 DEF Resolve, OnlyGet, lookup, calling, fixed, LookupOf, Looking
  <2> QED
    BY <2>1, <2>2 DEF LookupInv
<1>10. ASSUME NEW t \in Threads, Add(t) PROVE LookupInv'
  <2>1. ASSUME NEW u \in Threads, u # t PROVE LookupOf(u)'
    <3>1. /\ UNCHANGED fixed
          /\ pc'[u] = pc[u] /\ host'[u] = host[u] /\ net'[u] = net[u] /\ left'[u] = left[u]
          /\ vers'[u] = vers[u] /\ stage'[u] = stage[u] /\ get'[u] = get[u] /\ client'[u] = client[u]
      BY <1>0, <2>1, <1>10 DEF Add, OnlyGet, lookup, calling
    <3> QED
      BY <1>0, <3>1, LookupSame
  <2>2. LookupOf(t)'
    BY <1>0, <1>10 DEF Add, OnlyGet, lookup, calling, fixed, LookupOf, Looking
  <2> QED
    BY <2>1, <2>2 DEF LookupInv
<1>11. ASSUME NEW t \in Threads, GetPort(t) PROVE LookupInv'
  <2>1. ASSUME NEW u \in Threads, u # t PROVE LookupOf(u)'
    <3>1. /\ UNCHANGED fixed
          /\ pc'[u] = pc[u] /\ host'[u] = host[u] /\ net'[u] = net[u] /\ left'[u] = left[u]
          /\ vers'[u] = vers[u] /\ stage'[u] = stage[u] /\ get'[u] = get[u] /\ client'[u] = client[u]
      BY <1>0, <2>1, <1>11 DEF GetPort, OnlyFind, Found, NotFound, Again, Ended, lookup, calling
    <3> QED
      BY <1>0, <3>1, LookupSame
  <2>2. LookupOf(t)'
    BY <1>11, LookupAsked
  <2> QED
    BY <2>1, <2>2 DEF LookupInv
<1>12. ASSUME NEW t \in Threads, GetAddrList(t) PROVE LookupInv'
  <2>1. ASSUME NEW u \in Threads, u # t PROVE LookupOf(u)'
    <3>1. /\ UNCHANGED fixed
          /\ pc'[u] = pc[u] /\ host'[u] = host[u] /\ net'[u] = net[u] /\ left'[u] = left[u]
          /\ vers'[u] = vers[u] /\ stage'[u] = stage[u] /\ get'[u] = get[u] /\ client'[u] = client[u]
      BY <1>0, <2>1, <1>12 DEF GetAddrList, OnlyFind, Found, NotFound, Again, Regular, Ended, lookup, calling
    <3> QED
      BY <1>0, <3>1, LookupSame
  <2>2. LookupOf(t)'
    BY <1>12, LookupAsked
  <2> QED
    BY <2>1, <2>2 DEF LookupInv
<1>13. ASSUME NEW t \in Threads, GetAddr(t) PROVE LookupInv'
  <2>1. ASSUME NEW u \in Threads, u # t PROVE LookupOf(u)'
    <3>1. /\ UNCHANGED fixed
          /\ pc'[u] = pc[u] /\ host'[u] = host[u] /\ net'[u] = net[u] /\ left'[u] = left[u]
          /\ vers'[u] = vers[u] /\ stage'[u] = stage[u] /\ get'[u] = get[u] /\ client'[u] = client[u]
      BY <1>0, <2>1, <1>13 DEF GetAddr, OnlyFind, Found, NotFound, Again, Ended, lookup, calling
    <3> QED
      BY <1>0, <3>1, LookupSame
  <2>2. LookupOf(t)'
    BY <1>13, LookupAsked
  <2> QED
    BY <2>1, <2>2 DEF LookupInv
<1>14. ASSUME NEW h \in Hosts, Move(h) PROVE LookupInv'
  <2>1. UNCHANGED <<order, speaks, inet, registered, pc, host, left, net, vers, stage, get, client>>
    BY <1>14 DEF Move, OnlyWorld, fixed, lookup, calling
  <2> QED
    BY <1>0, <2>1 DEF LookupInv, LookupOf
<1>15. ASSUME NEW h \in Hosts, Restart(h) PROVE LookupInv'
  <2>1. UNCHANGED <<order, speaks, inet, registered, pc, host, left, net, vers, stage, get, client>>
    BY <1>15 DEF Restart, OnlyWorld, fixed, lookup, calling
  <2> QED
    BY <1>0, <2>1 DEF LookupInv, LookupOf
<1> QED
  BY <1>1, <1>2, <1>3, <1>4, <1>5, <1>6, <1>7, <1>8, <1>9, <1>10, <1>11, <1>12, <1>13, <1>14, <1>15 DEF Next, Run

\* Only the host that has an address answers there.
LEMMA Answering ==
    ASSUME WorldInv, NEW h \in Hosts
    PROVE  HostsAt(where[h]) = {h}
BY DEF WorldInv, HostsAt

\* The other threads' calls are not touched.
LEMMA CallSame ==
    ASSUME NEW u, CallOf(u), UNCHANGED fixed, where'[host[u]] = where[host[u]],
           port'[host[u]] = port[host[u]],
           pc'[u] = pc[u], host'[u] = host[u], net'[u] = net[u], left'[u] = left[u],
           get'[u] = get[u], client'[u] = client[u], target'[u] = target[u], keep'[u] = keep[u],
           ret'[u] = ret[u], steady'[u] = steady[u], outdated'[u] = outdated[u]
    PROVE  CallOf(u)'
BY DEF CallOf, Fresh, GivenUp, Present, Untried, Hopeless, Mute, Served, fixed

\* The three questions, as steps of the call.
LEMMA CallAsked ==
    ASSUME Types, WorldInv, LookupInv, CallInv, NEW t \in Threads,
           GetPort(t) \/ GetAddrList(t) \/ GetAddr(t)
    PROVE  CallOf(t)'
<1>0. /\ pc \in [Threads -> Places] /\ net \in [Threads -> Nets] /\ client \in [Threads -> Clients]
      /\ target \in [Threads -> Targets]
      /\ FixedType
  BY DEF Types, CallType, LookupType
<1>1. LookupOf(t) /\ pc[t] = "call" /\ CallOf(t) /\ host[t] \in Hosts
  BY DEF CallInv, LookupInv, LookupOf, GetPort, GetAddrList, GetAddr, Found, NotFound, Again, Regular, At
<1>2. /\ UNCHANGED <<order, speaks, inet, registered, where, port, host, left, net, keep, ret, steady,
                     outdated>>
  BY DEF GetPort, GetAddrList, GetAddr, OnlyFind, fixed, world, hist
<1>3. Fresh(t) => HostsAt(client[t].addr) = {host[t]}
  BY <1>1, Answering DEF CallOf, Present
<1>4. CASE Found(t) /\ net[t] \in registered /\ HostsAt(client[t].addr) # {}
  <2>1. pc'[t] = "found" /\ target'[t].addr = client[t].addr /\ target'[t].port = PortAt(t)
    BY <1>0, <1>4 DEF Found, At
  <2>2. Fresh(t) => PortAt(t) = port[host[t]]
    BY <1>0, <1>3, <1>4, PortFound
  <2>3. Fresh(t) => Present(t)'
    BY <1>1, <1>2, <2>1, <2>2 DEF CallOf, Present
  <2>4. Fresh(t) => GivenUp(t)'
    BY <1>1, <1>2, <2>1 DEF CallOf, GivenUp, Looking, Hopeless, Mute, Untried
  <2> QED
    BY <1>1, <1>2, <1>4, <2>1, <2>3, <2>4 DEF CallOf, Fresh, Served
<1>5. CASE NotFound(t) /\ (HostsAt(client[t].addr) = {} \/ Hopeless(net[t]))
  <2>1. pc'[t] = "transport"
    BY <1>0, <1>5 DEF NotFound, At
  <2>2. Fresh(t) => Hopeless(net[t])
    BY <1>3, <1>5
  <2>3. Fresh(t) => GivenUp(t)'
    BY <1>1, <1>2, <2>1, <2>2 DEF CallOf, GivenUp, Looking, Hopeless, Mute, Untried
  <2> QED
    BY <1>1, <1>2, <2>1, <2>3 DEF CallOf, Fresh, Served, Present
<1>6. ASSUME NEW s \in {"list", "regular"}, NEW v \in {3, 4}, Again(t, s, v) \/ Regular(t, v)
      PROVE  CallOf(t)'
  <2>1. \/ pc'[t] = "call" /\ client' = client
        \/ pc'[t] = "get"
    BY <1>0, <1>6 DEF Again, Regular, At
  <2>2. Fresh(t) => GivenUp(t)'
    BY <1>1, <1>2, <2>1 DEF CallOf, GivenUp, Looking, Hopeless, Mute, Untried
  <2> QED
    BY <1>1, <1>2, <2>1, <2>2 DEF CallOf, Fresh, Served, Present
<1> QED
  BY <1>1, <1>4, <1>5, <1>6, AskStep

LEMMA CallInvStep ==
    ASSUME Types, WorldInv, CacheInv, LookupInv, CallInv, [Next]_vars
    PROVE  CallInv'
<1> USE DEF At
<1>0. /\ pc \in [Threads -> Places] /\ get \in [Threads -> Gets] /\ net \in [Threads -> Nets]
      /\ client \in [Threads -> Clients] /\ host \in [Threads -> Names]
      /\ left \in [Threads -> Seq(Netids)] /\ target \in [Threads -> Targets]
      /\ keep \in [Threads -> Keeps] /\ steady \in [Threads -> BOOLEAN]
      /\ outdated \in [Threads -> BOOLEAN]
      /\ ret \in [Threads -> {"none", "unfound", "success", "failed"}]
      /\ LookupType /\ order \in Seq(Netids)
      /\ \A u \in Threads : CallOf(u) /\ LookupOf(u)
  BY DEF Types, FixedType, CallType, LookupType, LookupInv, CallInv
<1>1. CASE UNCHANGED vars
  BY <1>0, <1>1, CallSame DEF vars, world, lookup, calling, hist, CallInv
<1>2. ASSUME NEW t \in Threads, NEW h \in Hosts, Begin(t, h) PROVE CallInv'
  <2>1. ASSUME NEW u \in Threads, u # t PROVE CallOf(u)'
    <3>1. /\ UNCHANGED fixed /\ UNCHANGED <<where, port>>
          /\ pc'[u] = pc[u] /\ host'[u] = host[u] /\ net'[u] = net[u] /\ left'[u] = left[u]
          /\ get'[u] = get[u] /\ client'[u] = client[u] /\ target'[u] = target[u]
          /\ keep'[u] = keep[u] /\ ret'[u] = ret[u] /\ steady'[u] = steady[u]
          /\ outdated'[u] = outdated[u]
      BY <1>0, <2>1, <1>2 DEF Begin, world, lookup, calling, hist
    <3> QED
      BY <1>0, <3>1, CallSame
  <2>2. CallOf(t)'
    <3>1. /\ UNCHANGED <<order, speaks, inet, registered, where, port, ret>> /\ pc[t] = "idle"
          /\ \/ pc'[t] = "service" /\ keep[t].valid /\ keep' = keep
             \/ pc'[t] = "transport" /\ keep'[t] = NoKeep /\ left'[t] = order
      BY <1>0, <1>2 DEF Begin, fixed, world
    <3>2. \A i \in DOMAIN order : pc'[t] = "transport" => Untried(t, order[i])'
      BY <3>1 DEF Untried
    <3>3. GivenUp(t)' /\ Present(t)'
      BY <3>1, <3>2 DEF GivenUp, Present, Looking
    <3> QED
      BY <1>0, <3>1, <3>3 DEF CallOf, Served, NoKeep
  <2> QED
    BY <2>1, <2>2 DEF CallInv
<1>3. ASSUME NEW t \in Threads, Transported(t) PROVE CallInv'
  <2>1. ASSUME NEW u \in Threads, u # t PROVE CallOf(u)'
    <3>1. /\ UNCHANGED fixed /\ UNCHANGED <<where, port>>
          /\ pc'[u] = pc[u] /\ host'[u] = host[u] /\ net'[u] = net[u] /\ left'[u] = left[u]
          /\ get'[u] = get[u] /\ client'[u] = client[u] /\ target'[u] = target[u]
          /\ keep'[u] = keep[u] /\ ret'[u] = ret[u] /\ steady'[u] = steady[u]
          /\ outdated'[u] = outdated[u]
      BY <1>0, <2>1, <1>3 DEF Transported, Transport, world, lookup, calling, hist
    <3> QED
      BY <1>0, <3>1, CallSame
  <2>2. CallOf(t)'
    <3>1. /\ UNCHANGED <<order, speaks, inet, registered, where, port, host, keep, steady, outdated>>
          /\ pc[t] = "transport"
      BY <1>3 DEF Transported, Transport, fixed, world
    <3>2. CASE left[t] = << >>
      <4>1. pc'[t] = "idle" /\ ret'[t] = "unfound"
        BY <1>0, <1>3, <3>2 DEF Transported, Transport
      <4>2. \A n : ~Untried(t, n)
        BY <3>2 DEF Untried
      <4>3. Fresh(t)' => GivenUp(t)'
        BY <1>0, <3>1, <4>1, <4>2 DEF CallOf, Fresh, GivenUp, Looking, Hopeless, Mute
      <4> QED
        BY <1>0, <3>1, <4>1, <4>3 DEF CallOf, Served, Present
    <3>3. CASE left[t] # << >>
      <4>1. /\ pc'[t] = "get" /\ ret' = ret
            /\ net'[t] = Head(left[t]) /\ left'[t] = Tail(left[t])
        BY <1>0, <1>3, <3>3 DEF Transported, Transport
      <4>2. ASSUME NEW n, Untried(t, n) PROVE Untried(t, n)' \/ net'[t] = n
        <5>1. PICK j \in DOMAIN left[t] : left[t][j] = n
          BY <4>2 DEF Untried
        <5>2. CASE j = 1
          BY <1>0, <3>3, <4>1, <5>1, <5>2
        <5>3. CASE j # 1
          <6>1. j - 1 \in DOMAIN Tail(left[t]) /\ Tail(left[t])[j - 1] = left[t][j]
            BY <1>0, <3>3, <5>3
          <6> QED
            BY <4>1, <5>1, <6>1 DEF Untried
        <5> QED
          BY <5>2, <5>3
      <4>3. Fresh(t)' => GivenUp(t)'
        BY <1>0, <3>1, <4>1, <4>2 DEF CallOf, Fresh, GivenUp, Looking, Hopeless, Mute
      <4> QED
        BY <1>0, <3>1, <4>1, <4>3 DEF CallOf, Served, Present
    <3> QED
      BY <3>2, <3>3
  <2> QED
    BY <2>1, <2>2 DEF CallInv
<1>4. ASSUME NEW t \in Threads, Service(t) PROVE CallInv'
  <2>1. ASSUME NEW u \in Threads, u # t PROVE CallOf(u)'
    <3>1. /\ UNCHANGED fixed /\ UNCHANGED <<where, port>>
          /\ pc'[u] = pc[u] /\ host'[u] = host[u] /\ net'[u] = net[u] /\ left'[u] = left[u]
          /\ get'[u] = get[u] /\ client'[u] = client[u] /\ target'[u] = target[u]
          /\ keep'[u] = keep[u] /\ ret'[u] = ret[u] /\ steady'[u] = steady[u]
          /\ outdated'[u] = outdated[u]
      BY <1>0, <2>1, <1>4 DEF Service, world, lookup, calling, hist
    <3> QED
      BY <1>0, <3>1, CallSame
  <2>2. CallOf(t)'
    <3>1. /\ UNCHANGED <<order, speaks, inet, registered, where, port, host, steady, outdated>>
          /\ pc[t] = "service" /\ pc'[t] = "idle"
          /\ ret'[t] \in {"success", "failed"} /\ (keep'[t].valid => keep[t].valid)
      BY <1>0, <1>4 DEF Service, fixed, world, Keeps
    <3> QED
      BY <1>0, <3>1 DEF CallOf, Served, GivenUp, Present, Looking
  <2> QED
    BY <2>1, <2>2 DEF CallInv
<1>5. ASSUME NEW t \in Threads, Connect(t) PROVE CallInv'
  <2>1. ASSUME NEW u \in Threads, u # t PROVE CallOf(u)'
    <3>1. /\ UNCHANGED fixed /\ UNCHANGED <<where, port>>
          /\ pc'[u] = pc[u] /\ host'[u] = host[u] /\ net'[u] = net[u] /\ left'[u] = left[u]
          /\ get'[u] = get[u] /\ client'[u] = client[u] /\ target'[u] = target[u]
          /\ keep'[u] = keep[u] /\ ret'[u] = ret[u] /\ steady'[u] = steady[u]
          /\ outdated'[u] = outdated[u]
      BY <1>0, <2>1, <1>5 DEF Connect, world, lookup, calling, hist
    <3> QED
      BY <1>0, <3>1, CallSame
  <2>2. CallOf(t)'
    <3>1. UNCHANGED <<order, speaks, inet, registered, where, port, host, left, net, ret, steady, outdated>>
      BY <1>5 DEF Connect, fixed, world, hist
    <3>2. CallOf(t) /\ LookupOf(t) /\ pc[t] = "found"
      BY <1>0, <1>5 DEF Connect
    <3>3. Served
      BY <3>2 DEF CallOf, LookupOf, Looking, Served
    <3>4. CASE net[t] = "tcp" /\ ~Reachable(target[t])
      <4>1. pc'[t] = "transport" /\ keep' = keep
        BY <1>0, <1>5, <3>4 DEF Connect
      <4>2. ~Fresh(t)
        BY <3>2, <3>4, Answering DEF CallOf, LookupOf, Present, Reachable
      <4> QED
        BY <3>1, <3>2, <4>1, <4>2 DEF CallOf, Served, Fresh
    <3>5. CASE ~(net[t] = "tcp" /\ ~Reachable(target[t]))
      <4>1. pc'[t] = "service" /\ keep'[t].valid
        BY <1>0, <1>5, <3>5 DEF Connect
      <4> QED
        BY <3>1, <3>2, <3>3, <4>1 DEF CallOf, Served, GivenUp, Present, Looking
    <3> QED
      BY <3>4, <3>5
  <2> QED
    BY <2>1, <2>2 DEF CallInv
<1>6. ASSUME NEW t \in Threads, CheckCache(t) PROVE CallInv'
  <2>1. ASSUME NEW u \in Threads, u # t PROVE CallOf(u)'
    <3>1. /\ UNCHANGED fixed /\ UNCHANGED <<where, port>>
          /\ pc'[u] = pc[u] /\ host'[u] = host[u] /\ net'[u] = net[u] /\ left'[u] = left[u]
          /\ get'[u] = get[u] /\ client'[u] = client[u] /\ target'[u] = target[u]
          /\ keep'[u] = keep[u] /\ ret'[u] = ret[u] /\ steady'[u] = steady[u]
          /\ outdated'[u] = outdated[u]
      BY <1>0, <2>1, <1>6, EntryFound DEF CheckCache, OnlyGet, world, lookup, calling, hist
    <3> QED
      BY <1>0, <3>1, CallSame
  <2>2. CallOf(t)'
    <3>1. /\ UNCHANGED <<order, speaks, inet, registered, where, port, host, left, net, keep, ret, steady>>
          /\ outdated' = outdated /\ pc[t] = "get" /\ pc'[t] \in {"resolve", "try"}
      BY <1>0, <1>6, EntryFound DEF CheckCache, OnlyGet, fixed, world, calling, hist
    <3>2. Fresh(t)' => Fresh(t)
      BY <3>1 DEF Fresh
    <3>3. Fresh(t)' => GivenUp(t)' /\ Present(t)'
      BY <1>0, <3>1, <3>2 DEF CallOf, GivenUp, Present, Looking, Hopeless, Mute, Untried, Fresh
    <3> QED
      BY <1>0, <3>1, <3>3 DEF CallOf, Served
  <2> QED
    BY <2>1, <2>2 DEF CallInv
<1>7. ASSUME NEW t \in Threads, Try(t) PROVE CallInv'
  <2>1. ASSUME NEW u \in Threads, u # t PROVE CallOf(u)'
    <3>1. /\ UNCHANGED fixed /\ UNCHANGED <<where, port>>
          /\ pc'[u] = pc[u] /\ host'[u] = host[u] /\ net'[u] = net[u] /\ left'[u] = left[u]
          /\ get'[u] = get[u] /\ client'[u] = client[u] /\ target'[u] = target[u]
          /\ keep'[u] = keep[u] /\ ret'[u] = ret[u] /\ steady'[u] = steady[u]
          /\ outdated'[u] = outdated[u]
      BY <1>0, <2>1, <1>7 DEF Try, OnlyGet, world, lookup, calling, hist
    <3> QED
      BY <1>0, <3>1, CallSame
  <2>2. CallOf(t)'
    <3>4. UNCHANGED <<order, speaks, inet, registered, where, port, host, left, net, keep, ret, steady>>
      BY <1>7 DEF Try, OnlyGet, fixed, world, calling
    <3>5. ASSUME get[t].net = "udp" \/ HostsAt(get[t].addr) # {}
          PROVE  /\ pc[t] = "try" /\ pc'[t] = "call" /\ client'[t].addr = get[t].addr
                 /\ outdated'[t] = (outdated[t] \/ get[t].addr # where[host[t]])
      <4>1. /\ pc[t] = "try" /\ pc'[t] = "call"
            /\ client'[t] = [net |-> get[t].net, addr |-> get[t].addr]
        BY <1>0, <1>7, <3>5 DEF Try
      <4>2. outdated'[t] = (outdated[t] \/ get[t].addr # where[host[t]])
        BY <1>0, <1>7, <3>5 DEF Try
      <4> QED
        BY <4>1, <4>2
    <3>6. ASSUME ~(get[t].net = "udp" \/ HostsAt(get[t].addr) # {})
          PROVE  pc[t] = "try" /\ pc'[t] = "delete" /\ outdated' = outdated
      BY <1>0, <1>7, <3>6 DEF Try
    <3>1. /\ UNCHANGED <<order, speaks, inet, registered, where, port, host, left, net, keep, ret, steady>>
          /\ pc[t] = "try" /\ (outdated[t] => outdated'[t])
          /\ \/ pc'[t] = "delete"
             \/ /\ pc'[t] = "call" /\ client'[t].addr = get[t].addr
                /\ outdated'[t] \/ get[t].addr = where[host[t]]
      BY <3>4, <3>5, <3>6
    <3>2. Fresh(t)' => Fresh(t)
      BY <3>1 DEF Fresh
    <3>3. Fresh(t)' => GivenUp(t)' /\ Present(t)'
      BY <1>0, <3>1, <3>2 DEF CallOf, GivenUp, Present, Looking, Hopeless, Mute, Untried, Fresh
    <3> QED
      BY <1>0, <3>1, <3>3 DEF CallOf, Served
  <2> QED
    BY <2>1, <2>2 DEF CallInv
<1>8. ASSUME NEW t \in Threads, Delete(t) PROVE CallInv'
  <2>1. ASSUME NEW u \in Threads, u # t PROVE CallOf(u)'
    <3>1. /\ UNCHANGED fixed /\ UNCHANGED <<where, port>>
          /\ pc'[u] = pc[u] /\ host'[u] = host[u] /\ net'[u] = net[u] /\ left'[u] = left[u]
          /\ get'[u] = get[u] /\ client'[u] = client[u] /\ target'[u] = target[u]
          /\ keep'[u] = keep[u] /\ ret'[u] = ret[u] /\ steady'[u] = steady[u]
          /\ outdated'[u] = outdated[u]
      BY <1>0, <2>1, <1>8 DEF Delete, OnlyGet, world, lookup, calling, hist
    <3> QED
      BY <1>0, <3>1, CallSame
  <2>2. CallOf(t)'
    <3>1. /\ UNCHANGED <<order, speaks, inet, registered, where, port, host, left, net, keep, ret, steady>>
          /\ outdated' = outdated /\ pc[t] = "delete" /\ pc'[t] = "resolve"
      BY <1>0, <1>8 DEF Delete, OnlyGet, fixed, world, calling, hist
    <3>2. Fresh(t)' => Fresh(t)
      BY <3>1 DEF Fresh
    <3>3. Fresh(t)' => GivenUp(t)' /\ Present(t)'
      BY <1>0, <3>1, <3>2 DEF CallOf, GivenUp, Present, Looking, Hopeless, Mute, Untried, Fresh
    <3> QED
      BY <1>0, <3>1, <3>3 DEF CallOf, Served
  <2> QED
    BY <2>1, <2>2 DEF CallInv
<1>9. ASSUME NEW t \in Threads, Resolve(t) PROVE CallInv'
  <2>1. ASSUME NEW u \in Threads, u # t PROVE CallOf(u)'
    <3>1. /\ UNCHANGED fixed /\ UNCHANGED <<where, port>>
          /\ pc'[u] = pc[u] /\ host'[u] = host[u] /\ net'[u] = net[u] /\ left'[u] = left[u]
          /\ get'[u] = get[u] /\ client'[u] = client[u] /\ target'[u] = target[u]
          /\ keep'[u] = keep[u] /\ ret'[u] = ret[u] /\ steady'[u] = steady[u]
          /\ outdated'[u] = outdated[u]
      BY <1>0, <2>1, <1>9 DEF Resolve, OnlyGet, world, lookup, calling, hist
    <3> QED
      BY <1>0, <3>1, CallSame
  <2>2. CallOf(t)'
    <3>1. /\ UNCHANGED <<order, speaks, inet, registered, where, port, host, left, net, keep, ret, steady>>
          /\ outdated' = outdated /\ pc[t] = "resolve" /\ pc'[t] = "add"
          /\ get'[t].addr = where[host[t]]
      BY <1>0, <1>9 DEF Resolve, OnlyGet, Gets, fixed, world, calling, hist
    <3>2. Fresh(t)' => Fresh(t)
      BY <3>1 DEF Fresh
    <3>3. Fresh(t)' => GivenUp(t)' /\ Present(t)'
      BY <1>0, <3>1, <3>2 DEF CallOf, GivenUp, Present, Looking, Hopeless, Mute, Untried, Fresh
    <3> QED
      BY <1>0, <3>1, <3>3 DEF CallOf, Served
  <2> QED
    BY <2>1, <2>2 DEF CallInv
<1>10. ASSUME NEW t \in Threads, Add(t) PROVE CallInv'
  <2>1. ASSUME NEW u \in Threads, u # t PROVE CallOf(u)'
    <3>1. /\ UNCHANGED fixed /\ UNCHANGED <<where, port>>
          /\ pc'[u] = pc[u] /\ host'[u] = host[u] /\ net'[u] = net[u] /\ left'[u] = left[u]
          /\ get'[u] = get[u] /\ client'[u] = client[u] /\ target'[u] = target[u]
          /\ keep'[u] = keep[u] /\ ret'[u] = ret[u] /\ steady'[u] = steady[u]
          /\ outdated'[u] = outdated[u]
      BY <1>0, <2>1, <1>10 DEF Add, OnlyGet, world, lookup, calling, hist
    <3> QED
      BY <1>0, <3>1, CallSame
  <2>2. CallOf(t)'
    <3>1. /\ UNCHANGED <<order, speaks, inet, registered, where, port, host, left, net, keep, ret, steady>>
          /\ outdated' = outdated /\ pc[t] = "add" /\ pc'[t] = "call"
          /\ client'[t].addr = get[t].addr
      BY <1>0, <1>10 DEF Add, OnlyGet, fixed, world, calling, hist
    <3>2. Fresh(t)' => Fresh(t)
      BY <3>1 DEF Fresh
    <3>3. Fresh(t)' => GivenUp(t)' /\ Present(t)'
      BY <1>0, <3>1, <3>2 DEF CallOf, GivenUp, Present, Looking, Hopeless, Mute, Untried, Fresh
    <3> QED
      BY <1>0, <3>1, <3>3 DEF CallOf, Served
  <2> QED
    BY <2>1, <2>2 DEF CallInv
<1>11. ASSUME NEW t \in Threads, GetPort(t) PROVE CallInv'
  <2>1. ASSUME NEW u \in Threads, u # t PROVE CallOf(u)'
    <3>1. /\ UNCHANGED fixed /\ UNCHANGED <<where, port>>
          /\ pc'[u] = pc[u] /\ host'[u] = host[u] /\ net'[u] = net[u] /\ left'[u] = left[u]
          /\ get'[u] = get[u] /\ client'[u] = client[u] /\ target'[u] = target[u]
          /\ keep'[u] = keep[u] /\ ret'[u] = ret[u] /\ steady'[u] = steady[u]
          /\ outdated'[u] = outdated[u]
      BY <1>0, <2>1, <1>11 DEF GetPort, OnlyFind, Found, NotFound, Again, Ended, world, lookup, calling, hist
    <3> QED
      BY <1>0, <3>1, CallSame
  <2>2. CallOf(t)'
    BY <1>11, CallAsked
  <2> QED
    BY <2>1, <2>2 DEF CallInv
<1>12. ASSUME NEW t \in Threads, GetAddrList(t) PROVE CallInv'
  <2>1. ASSUME NEW u \in Threads, u # t PROVE CallOf(u)'
    <3>1. /\ UNCHANGED fixed /\ UNCHANGED <<where, port>>
          /\ pc'[u] = pc[u] /\ host'[u] = host[u] /\ net'[u] = net[u] /\ left'[u] = left[u]
          /\ get'[u] = get[u] /\ client'[u] = client[u] /\ target'[u] = target[u]
          /\ keep'[u] = keep[u] /\ ret'[u] = ret[u] /\ steady'[u] = steady[u]
          /\ outdated'[u] = outdated[u]
      BY <1>0, <2>1, <1>12 DEF GetAddrList, OnlyFind, Found, NotFound, Again, Regular, Ended, world, lookup, calling, hist
    <3> QED
      BY <1>0, <3>1, CallSame
  <2>2. CallOf(t)'
    BY <1>12, CallAsked
  <2> QED
    BY <2>1, <2>2 DEF CallInv
<1>13. ASSUME NEW t \in Threads, GetAddr(t) PROVE CallInv'
  <2>1. ASSUME NEW u \in Threads, u # t PROVE CallOf(u)'
    <3>1. /\ UNCHANGED fixed /\ UNCHANGED <<where, port>>
          /\ pc'[u] = pc[u] /\ host'[u] = host[u] /\ net'[u] = net[u] /\ left'[u] = left[u]
          /\ get'[u] = get[u] /\ client'[u] = client[u] /\ target'[u] = target[u]
          /\ keep'[u] = keep[u] /\ ret'[u] = ret[u] /\ steady'[u] = steady[u]
          /\ outdated'[u] = outdated[u]
      BY <1>0, <2>1, <1>13 DEF GetAddr, OnlyFind, Found, NotFound, Again, Ended, world, lookup, calling, hist
    <3> QED
      BY <1>0, <3>1, CallSame
  <2>2. CallOf(t)'
    BY <1>13, CallAsked
  <2> QED
    BY <2>1, <2>2 DEF CallInv
<1>14. ASSUME NEW h \in Hosts, Move(h) PROVE CallInv'
  <2> SUFFICES ASSUME NEW u \in Threads PROVE CallOf(u)'
    BY DEF CallInv
  <2>1. /\ UNCHANGED <<order, speaks, inet, registered, pc, host, left, net, get, client, target, keep,
                       ret, outdated>>
        /\ steady'[u] = (steady[u] /\ host[u] # h)
    BY <1>14 DEF Move, Disturb, OnlyWorld, fixed, lookup, calling
  <2>2. Fresh(u)' => Fresh(u) /\ host[u] # h
    BY <1>0, <2>1 DEF Fresh
  <2>3. host[u] # h => where'[host[u]] = where[host[u]] /\ port'[host[u]] = port[host[u]]
    BY <1>14 DEF Move, Types, FixedType
  <2>4. Fresh(u)' => Present(u)' /\ GivenUp(u)'
    BY <1>0, <2>1, <2>2, <2>3 DEF CallOf, Present, GivenUp, Looking, Hopeless, Mute, Untried
  <2> QED
    BY <1>0, <2>1, <2>4 DEF CallOf, Served
<1>15. ASSUME NEW h \in Hosts, Restart(h) PROVE CallInv'
  <2> SUFFICES ASSUME NEW u \in Threads PROVE CallOf(u)'
    BY DEF CallInv
  <2>1. /\ UNCHANGED <<order, speaks, inet, registered, pc, host, left, net, get, client, target, keep,
                       ret, outdated>>
        /\ steady'[u] = (steady[u] /\ host[u] # h)
    BY <1>15 DEF Restart, Disturb, OnlyWorld, fixed, lookup, calling
  <2>2. Fresh(u)' => Fresh(u) /\ host[u] # h
    BY <1>0, <2>1 DEF Fresh
  <2>3. host[u] # h => where'[host[u]] = where[host[u]] /\ port'[host[u]] = port[host[u]]
    BY <1>15 DEF Restart, Types, FixedType
  <2>4. Fresh(u)' => Present(u)' /\ GivenUp(u)'
    BY <1>0, <2>1, <2>2, <2>3 DEF CallOf, Present, GivenUp, Looking, Hopeless, Mute, Untried
  <2> QED
    BY <1>0, <2>1, <2>4 DEF CallOf, Served
<1> QED
  BY <1>1, <1>2, <1>3, <1>4, <1>5, <1>6, <1>7, <1>8, <1>9, <1>10, <1>11, <1>12, <1>13, <1>14, <1>15 DEF Next, Run
-----------------------------------------------------------------------------
LEMMA StepIInv == IInv /\ [Next]_vars => IInv'
<1> SUFFICES ASSUME IInv, [Next]_vars PROVE IInv'
  OBVIOUS
<1> USE DEF IInv
<1>1. Types'
  BY FixedStep, CallStep, LookupTypeStep DEF Types
<1>2. WorldInv' /\ LookupInv' /\ CallInv'
  BY WorldStep, LookupStep, CallInvStep
<1>3. CacheInv'
  BY <1>1, CacheStep
<1> QED
  BY <1>1, <1>2, <1>3

LEMMA IInvHolds == Spec => []IInv
BY InitIInv, StepIInv, PTL DEF Spec

\* The count that decides on evictions stays the length of the list, a newer entry stays
\* in front of an older one, and an entry stays while a thread tries its address
\* (rpcb_clnt.c: check_cache, delete_cache, add_cache), whatever the threads, the hosts,
\* their moves and CACHESIZE.
THEOREM CacheSound == Spec => []CacheIsSound
<1>1. IInv => CacheIsSound
  <2> SUFFICES ASSUME IInv PROVE CacheIsSound
    OBVIOUS
  <2>1. cache \in Seq(Entries) /\ cachesize = Len(cache) /\ Len(cache) <= CACHESIZE
    BY DEF IInv, CacheInv, Stacked
  <2>2. ASSUME NEW t \in Threads, pc[t] = "call"
        PROVE  client[t].net \in Netids /\ vers[t] \in 3..4
    <3>1. LookupOf(t) /\ vers[t] \in {0, 3, 4}
      BY DEF IInv, Types, LookupType, LookupInv
    <3> QED
      BY <2>2, <3>1 DEF LookupOf, Looking
  <2>3. TypeOK
    BY <2>1, <2>2 DEF TypeOK, IInv, CacheInv, Types, CallType, InUse, Places, Looking
  <2>4. CacheInOrder
    BY <2>1 DEF CacheInOrder, IInv, CacheInv, Stacked
  <2>5. EntryTriedIsCached
    BY DEF EntryTriedIsCached, InUse, IInv, CacheInv
  <2> QED
    BY <2>3, <2>4, <2>5 DEF CacheIsSound
<1> QED
  BY <1>1, IInvHolds, PTL

\* A call that no move or restart disturbs, and that met no outdated address, ends
\* without an address only where no transport of the network type is registered or no
\* version the lookup uses is spoken, and no call succeeds of a service that is not
\* registered (rpcb_clnt.c: __rpcb_findaddr, clnt_generic.c: clnt_create), for every
\* network type, set of versions and number of threads and hosts.
THEOREM LookupsFind == Spec => []SteadyCallsSucceed
<1>1. IInv => SteadyCallsSucceed
  <2> SUFFICES ASSUME IInv, NEW t \in Threads
               PROVE  /\ pc[t] = "idle" /\ steady[t] /\ ret[t] = "unfound" =>
                           \/ outdated[t] \/ Range(order) \cap registered = {}
                           \/ speaks \cap (3..4) = {} /\ (2 \in speaks => ~inet)
                      /\ ret[t] = "success" => Range(order) \cap registered # {}
    BY DEF SteadyCallsSucceed
  <2>1. CallOf(t)
    BY DEF IInv, CallInv
  <2>2. Range(order) = {order[i] : i \in DOMAIN order}
    BY DEF Range
  <2>3. ret[t] = "success" => Range(order) \cap registered # {}
    BY <2>1, <2>2 DEF CallOf, Served
  <2>4. ASSUME pc[t] = "idle", steady[t], ret[t] = "unfound", ~outdated[t]
        PROVE  Range(order) \cap registered = {} \/ Mute
    BY <2>1, <2>2, <2>4 DEF CallOf, Fresh, GivenUp, Hopeless
  <2> QED
    BY <2>3, <2>4 DEF Mute
<1> QED
  BY <1>1, IInvHolds, PTL
=============================================================================
