------------------------------ MODULE RpcbClnt ------------------------------
(***************************************************************************)
(* How a client finds a service: rpc_call with the handle each thread      *)
(* keeps (libsrc/clnt_simple.c), clnt_create over the transports of a      *)
(* network type (clnt_generic.c), and the lookup with rpcbind, its         *)
(* protocol versions and the cache of rpcbind addresses that all threads   *)
(* share (rpcb_clnt.c).                                                    *)
(*                                                                         *)
(* Around it the hosts move to other addresses and their service comes     *)
(* back on another port.  An address is a number, each used by one host; a *)
(* host answers at its present one, and of a previous one a connection is  *)
(* refused and a datagram lost.                                            *)
(***************************************************************************)
EXTENDS Integers, Sequences, FiniteSets, SequencesExt

CONSTANTS
    Threads, Hosts,
    Orders,      \* network types: sequences of "udp" and "tcp"
    Speakable,   \* sets of protocol versions the rpcbinds may speak
    Registrable, \* sets of transports the service may be registered for
    CACHESIZE,   \* 6 in the code
    MaxCalls,    \* bound: calls of all threads
    MaxEvents    \* bound: moves and restarts

RPCBVERS == 3
RPCBVERS4 == 4

ASSUME ClntAssumption ==
    /\ IsFiniteSet(Hosts)
    /\ Orders \subseteq Seq({"udp", "tcp"}) /\ Speakable \subseteq SUBSET (2..5)
    /\ Registrable \subseteq SUBSET {"udp", "tcp"}
    /\ CACHESIZE \in Nat \ {0} /\ MaxCalls \in Nat /\ MaxEvents \in Nat

Netids == {"udp", "tcp"}

VARIABLES
    order, speaks, inet, registered,     \* fixed in a behaviour
    where, port, events,                 \* the hosts
    cache,     \* front first: [id, host, net, addr]
    cachesize, ids,
    rd,        \* readers of rpcbaddr_cache_lock
    pc, host, left, net,                 \* each thread: host, transports left, netid
    stage,     \* of the lookup: "v2", "list", "regular"
    vers,
    get,       \* getclnthandle: the netid it is for, the entry it found
    client,    \* the handle to rpcbind: [net, addr]
    target,    \* the address found, and the handle rpc_call keeps
    keep, calls,
    ret,       \* history: how the last call ended
    steady, outdated   \* history: no host has moved since the call began; a cached address had

world == <<where, port, events>>
fixed == <<order, speaks, inet, registered>>
caching == <<cache, cachesize, ids>>
lookup == <<stage, vers, get, client>>
calling == <<host, left, net, target, keep, calls>>
hist == <<ret, steady, outdated>>
vars == <<fixed, world, caching, rd, pc, lookup, calling, hist>>

NoClient == [net |-> "none", addr |-> 0]
NoGet == [net |-> "none", entry |-> 0, addr |-> 0]
NoTarget == [addr |-> 0, port |-> 0]
NoKeep == [valid |-> FALSE, host |-> "none", to |-> NoTarget]

Init ==
    /\ order \in Orders /\ speaks \in Speakable /\ inet \in BOOLEAN
    /\ registered \in Registrable
    /\ where = CHOOSE f \in [Hosts -> 1..Cardinality(Hosts)] : IsInjective(f)
    /\ port = [h \in Hosts |-> 1] /\ events = 0
    /\ cache = << >> /\ cachesize = 0 /\ ids = 0 /\ rd = {}
    /\ pc = [t \in Threads |-> "idle"] /\ host = [t \in Threads |-> "none"]
    /\ left = [t \in Threads |-> << >>] /\ net = [t \in Threads |-> "none"]
    /\ stage = [t \in Threads |-> "none"] /\ vers = [t \in Threads |-> 0]
    /\ get = [t \in Threads |-> NoGet] /\ client = [t \in Threads |-> NoClient]
    /\ target = [t \in Threads |-> NoTarget] /\ keep = [t \in Threads |-> NoKeep]
    /\ calls = 0
    /\ ret = [t \in Threads |-> "none"] /\ steady = [t \in Threads |-> TRUE]
    /\ outdated = [t \in Threads |-> FALSE]

At(t, from, to) == pc[t] = from /\ pc' = [pc EXCEPT ![t] = to]
HostsAt(a) == {h \in Hosts : where[h] = a}
Reachable(to) == \E h \in HostsAt(to.addr) : port[h] = to.port
-----------------------------------------------------------------------------
(* rpc_call and clnt_create *)

Begin(t, h) ==
    /\ calls < MaxCalls /\ calls' = calls + 1
    /\ host' = [host EXCEPT ![t] = h]
    /\ steady' = [steady EXCEPT ![t] = TRUE] /\ outdated' = [outdated EXCEPT ![t] = FALSE]
    /\ IF keep[t].valid /\ keep[t].host = h
       THEN At(t, "idle", "service") /\ UNCHANGED <<keep, left>>
       ELSE /\ At(t, "idle", "transport") /\ keep' = [keep EXCEPT ![t] = NoKeep]
            /\ left' = [left EXCEPT ![t] = order]
    /\ UNCHANGED <<fixed, world, caching, rd, lookup, net, target, ret>>

\* clnt_create: the next transport of the network type.
Transport(t) ==
    \/ /\ left[t] = << >> /\ At(t, "transport", "idle")
       /\ ret' = [ret EXCEPT ![t] = "unfound"]
       /\ net' = [net EXCEPT ![t] = "none"] /\ UNCHANGED <<left, stage, vers, get, client>>
    \/ /\ left[t] # << >> /\ At(t, "transport", "get")
       /\ net' = [net EXCEPT ![t] = Head(left[t])] /\ left' = [left EXCEPT ![t] = Tail(@)]
       \* __rpcb_findaddr begins: over inet with version 2 by datagram.
       /\ stage' = [stage EXCEPT ![t] = IF inet THEN "v2"
                                        ELSE IF net'[t] = "tcp" THEN "list" ELSE "regular"]
       /\ get' = [get EXCEPT ![t] =
                    [NoGet EXCEPT !.net = IF inet \/ stage'[t] = "list" THEN "udp" ELSE net'[t]]]
       /\ client' = [client EXCEPT ![t] = NoClient]
       /\ vers' = [vers EXCEPT ![t] = RPCBVERS4]
       /\ UNCHANGED ret
Transported(t) ==
    /\ Transport(t)
    /\ UNCHANGED <<fixed, world, caching, rd, host, target, keep, calls, steady, outdated>>

\* CLNT_CALL of the service; a failure empties what rpc_call keeps.
Service(t) ==
    /\ At(t, "service", "idle")
    /\ IF Reachable(keep[t].to)
       THEN ret' = [ret EXCEPT ![t] = "success"] /\ UNCHANGED keep
       ELSE ret' = [ret EXCEPT ![t] = "failed"] /\ keep' = [keep EXCEPT ![t].valid = FALSE]
    /\ left' = [left EXCEPT ![t] = << >>] /\ net' = [net EXCEPT ![t] = "none"]
    /\ UNCHANGED <<fixed, world, caching, rd, lookup, host, target, calls, steady, outdated>>

\* clnt_tp_create: connect, or give the datagram handle the service's address.
Connect(t) ==
    /\ IF net[t] = "tcp" /\ ~Reachable(target[t])
       THEN At(t, "found", "transport") /\ UNCHANGED keep
       ELSE /\ At(t, "found", "service")
            /\ keep' = [keep EXCEPT ![t] = [valid |-> TRUE, host |-> host[t], to |-> target[t]]]
    /\ target' = [target EXCEPT ![t] = NoTarget]
    /\ UNCHANGED <<fixed, world, caching, rd, lookup, host, left, net, calls, hist>>
-----------------------------------------------------------------------------
(* getclnthandle *)
OnlyGet == UNCHANGED <<fixed, world, stage, vers, calling, ret, steady>>

Matching(t) == {i \in DOMAIN cache : cache[i].host = host[t] /\ cache[i].net = get[t].net}
\* check_cache, with the lock held for reading from now on if it finds an entry.
CheckCache(t) ==
    /\ IF Matching(t) = {} THEN At(t, "get", "resolve") /\ UNCHANGED <<rd, get>>
       ELSE LET i == CHOOSE j \in Matching(t) : \A k \in Matching(t) : j <= k
            IN  /\ At(t, "get", "try") /\ rd' = rd \cup {t}
                /\ get' = [get EXCEPT ![t].entry = cache[i].id, ![t].addr = cache[i].addr]
    /\ UNCHANGED <<caching, client, outdated>> /\ OnlyGet

\* Mutant: the lookup is repeated at once.
TryAgain(t) ==
    /\ rd' = rd \ {t}
    /\ IF get[t].net = "udp" \/ HostsAt(get[t].addr) # {}
       THEN /\ At(t, "try", "call")
            /\ client' = [client EXCEPT ![t] = [net |-> get[t].net, addr |-> get[t].addr]]
       ELSE At(t, "try", "get") /\ UNCHANGED client
    /\ outdated' = [outdated EXCEPT ![t] = @ \/ get[t].addr # where[host[t]]]
    /\ UNCHANGED <<caching, get>> /\ OnlyGet
\* clnt_tli_create of a cached address.
Try(t) ==
    /\ rd' = rd \ {t}
    /\ IF get[t].net = "udp" \/ HostsAt(get[t].addr) # {}
       THEN /\ At(t, "try", "call")
            /\ client' = [client EXCEPT ![t] = [net |-> get[t].net, addr |-> get[t].addr]]
            /\ outdated' = [outdated EXCEPT ![t] = @ \/ get[t].addr # where[host[t]]]
       ELSE At(t, "try", "delete") /\ UNCHANGED <<client, outdated>>
    /\ UNCHANGED <<caching, get>> /\ OnlyGet

Writing == rd = {}

\* Mutant: the lock is not taken.
DeleteUnlocked(t) ==
    /\ At(t, "delete", "resolve")
    /\ LET hits == {i \in DOMAIN cache : cache[i].addr = get[t].addr}
       IN  IF hits = {} THEN UNCHANGED <<cache, cachesize>>
           ELSE /\ cache' = RemoveAt(cache, CHOOSE i \in hits : \A j \in hits : i <= j)
                /\ cachesize' = cachesize - 1
    /\ UNCHANGED <<ids, rd, get, client, outdated>> /\ OnlyGet
\* delete_cache: the first entry with that address, whoever's it is.
Delete(t) ==
    /\ Writing /\ At(t, "delete", "resolve")
    /\ LET hits == {i \in DOMAIN cache : cache[i].addr = get[t].addr}
       IN  IF hits = {} THEN UNCHANGED <<cache, cachesize>>
           ELSE /\ cache' = RemoveAt(cache, CHOOSE i \in hits : \A j \in hits : i <= j)
                /\ cachesize' = cachesize - 1
    /\ UNCHANGED <<ids, rd, get, client, outdated>> /\ OnlyGet

\* getaddrinfo, and clnt_tli_create of the address there is now.
Resolve(t) ==
    /\ At(t, "resolve", "add") /\ get' = [get EXCEPT ![t].addr = where[host[t]]]
    /\ UNCHANGED <<caching, rd, client, outdated>> /\ OnlyGet

\* add_cache; the last entry goes when it is full.
Add(t) ==
    /\ Writing /\ At(t, "add", "call") /\ ids' = ids + 1
    /\ LET new == [id |-> ids', host |-> host[t], net |-> get[t].net, addr |-> get[t].addr]
       IN  IF cachesize < CACHESIZE
           THEN cache' = <<new>> \o cache /\ cachesize' = cachesize + 1
           ELSE cache' = <<new>> \o Front(cache) /\ UNCHANGED cachesize
    /\ client' = [client EXCEPT ![t] = [net |-> get[t].net, addr |-> get[t].addr]]
    /\ UNCHANGED <<rd, get, outdated>> /\ OnlyGet
-----------------------------------------------------------------------------
(* __rpcb_findaddr *)
OnlyFind == UNCHANGED <<fixed, world, caching, rd, host, left, net, keep, calls, hist>>

\* What rpcbind at the handle's address answers to version v.
Answer(t, v) ==
    IF HostsAt(client[t].addr) = {} THEN "nothing"
    ELSE IF v \notin speaks THEN "mismatch"
    ELSE IF net[t] \in registered THEN "address" ELSE "unknown"
PortAt(t) == CHOOSE p \in {port[h] : h \in HostsAt(client[t].addr)} : TRUE
Lowest == CHOOSE v \in speaks : \A w \in speaks : v <= w

Ended(t) ==
    /\ stage' = [stage EXCEPT ![t] = "none"] /\ vers' = [vers EXCEPT ![t] = 0]
    /\ get' = [get EXCEPT ![t] = NoGet] /\ client' = [client EXCEPT ![t] = NoClient]
Found(t) ==
    /\ At(t, "call", "found")
    /\ target' = [target EXCEPT ![t] = [addr |-> client[t].addr, port |-> PortAt(t)]]
    /\ Ended(t)
NotFound(t) == At(t, "call", "transport") /\ UNCHANGED target /\ Ended(t)
Again(t, s, v) ==
    /\ At(t, "call", "call") /\ stage' = [stage EXCEPT ![t] = s] /\ vers' = [vers EXCEPT ![t] = v]
    /\ UNCHANGED <<target, get, client>>
\* The regular way: over the service's own transport, from version v.
Regular(t, v) ==
    IF net[t] = "udp" THEN Again(t, "regular", v)
    ELSE /\ At(t, "call", "get") /\ stage' = [stage EXCEPT ![t] = "regular"]
         /\ vers' = [vers EXCEPT ![t] = v]
         /\ get' = [get EXCEPT ![t] = [NoGet EXCEPT !.net = "tcp"]]
         /\ client' = [client EXCEPT ![t] = NoClient] /\ UNCHANGED target

\* PMAPPROC_GETPORT, version 2.
GetPort(t) ==
    /\ stage[t] = "v2"
    /\ LET a == Answer(t, 2)
       IN  \/ a = "address" /\ Found(t)
           \/ a \in {"unknown", "nothing"} /\ NotFound(t)
           \/ a = "mismatch" /\ Again(t, IF net[t] = "tcp" THEN "list" ELSE "regular", RPCBVERS4)
    /\ OnlyFind

\* RPCBPROC_GETADDRLIST over the datagram transport, version 4.
GetAddrList(t) ==
    /\ stage[t] = "list"
    /\ LET a == Answer(t, RPCBVERS4)
       IN  \/ a = "address" /\ Found(t)
           \/ a = "unknown" /\ Regular(t, RPCBVERS4)
           \/ a = "mismatch" /\ Regular(t, RPCBVERS)
           \/ a = "nothing" /\ NotFound(t)
    /\ OnlyFind

\* Mutant: version 3 is not tried.
GetAddr4(t) ==
    /\ stage[t] = "regular"
    /\ LET a == Answer(t, vers[t])
       IN  \/ a = "address" /\ Found(t)
           \/ a \in {"unknown", "nothing", "mismatch"} /\ NotFound(t)
    /\ OnlyFind
\* RPCBPROC_GETADDR, version 4 and then 3.
GetAddr(t) ==
    /\ stage[t] = "regular"
    /\ LET a == Answer(t, vers[t])
       IN  \/ a = "address" /\ Found(t)
           \/ a \in {"unknown", "nothing"} /\ NotFound(t)
           \/ /\ a = "mismatch"
              /\ IF Lowest > RPCBVERS4 \/ vers[t] = RPCBVERS THEN NotFound(t)
                 ELSE Again(t, "regular", RPCBVERS)
    /\ OnlyFind
-----------------------------------------------------------------------------
(* The hosts *)
OnlyWorld == UNCHANGED <<fixed, caching, rd, pc, lookup, calling, ret, outdated>>
Disturb(h) ==
    /\ events < MaxEvents /\ events' = events + 1
    /\ steady' = [t \in Threads |-> steady[t] /\ host[t] # h]
Move(h) ==
    /\ Disturb(h)
    /\ where' = [where EXCEPT ![h] = Cardinality(Hosts) + events'] /\ UNCHANGED port
    /\ OnlyWorld
Restart(h) ==
    /\ Disturb(h)
    /\ port' = [port EXCEPT ![h] = @ + 1] /\ UNCHANGED where
    /\ OnlyWorld

Run(t) == \/ Transported(t) \/ Service(t) \/ Connect(t) \/ CheckCache(t) \/ Try(t) \/ Delete(t)
          \/ Resolve(t) \/ Add(t) \/ GetPort(t) \/ GetAddrList(t) \/ GetAddr(t)
Next == \/ \E t \in Threads : Run(t) \/ \E h \in Hosts : Begin(t, h)
        \/ \E h \in Hosts : Move(h) \/ Restart(h)
Spec == Init /\ [][Next]_vars
FairSpec == Spec /\ \A t \in Threads : WF_vars(Run(t))
-----------------------------------------------------------------------------
InUse(t) == pc[t] = "try"

TypeOK ==
    /\ pc \in [Threads -> {"idle", "transport", "get", "try", "delete", "resolve", "add", "call",
                           "found", "service"}]
    /\ rd = {t \in Threads : InUse(t)}
    /\ cachesize \in Int /\ Len(cache) <= CACHESIZE
    /\ \A t \in Threads : pc[t] = "call" => client[t].net \in Netids /\ vers[t] \in 3..4

\* The count decides whether an entry is evicted: it stays the length of the list, and
\* what a lookup finds first is the newest entry there is for the host and transport
\* (rpcb_clnt.c: add_cache, delete_cache).
CacheInOrder ==
    /\ cachesize = Len(cache)
    /\ \A i, j \in DOMAIN cache : i < j => cache[i].id > cache[j].id

\* An entry stays while a thread tries its address (rpcbaddr_cache_lock).
EntryTriedIsCached == \A t \in Threads : InUse(t) => \E i \in DOMAIN cache : cache[i].id = get[t].entry

\* The shared cache of rpcbind addresses, under all threads' lookups and failures.
CacheIsSound == TypeOK /\ CacheInOrder /\ EntryTriedIsCached

\* Whichever version the rpcbind of a host speaks, a call of a registered service that
\* no move or restart disturbs gets through, unless the call used an outdated address
\* from the cache or the thread's own handle was old; and no call of an unregistered
\* one does (rpcb_clnt.c: __rpcb_findaddr, clnt_generic.c: clnt_create).
SteadyCallsSucceed ==
    \A t \in Threads :
        /\ pc[t] = "idle" /\ steady[t] /\ ret[t] = "unfound" =>
              \/ outdated[t] \/ Range(order) \cap registered = {}
              \/ speaks \cap (3..4) = {} /\ (2 \in speaks => ~inet)
        /\ ret[t] = "success" => Range(order) \cap registered # {}

\* Every call returns, although lookups exclude each other and repeat.
CallsReturn == \A t \in Threads : (pc[t] # "idle") ~> (pc[t] = "idle")
=============================================================================
