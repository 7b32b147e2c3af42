---------------------------- MODULE DupReqCache ----------------------------
(***************************************************************************)
(* The datagram server transport of libsrc/svc_dg.c with its duplicate-    *)
(* request cache: svc_dg_create, svc_dg_recv, svc_dg_reply, svc_dg_destroy *)
(* and svc_dg_enablecache / cache_set / cache_get.                         *)
(*                                                                         *)
(* Kept: the hash table of collision chains, the fifo of victims, the      *)
(* ownership of the I/O buffers (cache_set gives the buffer holding the    *)
(* reply to the cache and takes the victim's buffer, or a fresh one, as    *)
(* the next I/O buffer), the XDR stream that must follow that swap, every  *)
(* early return and every allocation that may fail.  Abstracted: the       *)
(* (prog, vers, proc) triple is one value of Procs, a reply body is the    *)
(* request it answers and the number of the execution that produced it.    *)
(*                                                                         *)
(* A service routine runs between a successful svc_dg_recv and the return  *)
(* to the dispatch loop; st says where the loop is.                        *)
(***************************************************************************)
EXTENDS Naturals, Sequences, FiniteSets

CONSTANTS
    Xids,        \* transaction ids clients may use (u_int32_t)
    Procs,       \* (program, version, procedure) triples
    Addrs,       \* caller transport addresses
    Nodes,       \* heap of struct cache_node
    Bufs,        \* heap of su_iosz byte buffers
    NoNode,      \* the NULL cache_ptr
    CacheSize,   \* the size given to svc_dg_enablecache
    MaxExec,     \* bound: executions of service routines
    EnableDuringDispatch  \* may svc_dg_enablecache run inside a dispatch?

SPARSENESS == 4

ASSUME XidsAssumption == Xids \subseteq Nat /\ Xids # {}
ASSUME CallersAssumption == Procs # {} /\ Addrs # {}
ASSUME HeapAssumption == Bufs # {} /\ Nodes \cap Bufs = {}
ASSUME CacheSizeAssumption == CacheSize \in Nat \ {0}
ASSUME NoNodeAssumption == NoNode \notin Nodes
ASSUME MaxExecAssumption == MaxExec \in Nat
ASSUME EnableAssumption == EnableDuringDispatch \in BOOLEAN

Requests == [xid : Xids, proc : Procs, addr : Addrs]
Buckets == 0 .. (SPARSENESS * CacheSize - 1)
Slots == 0 .. (CacheSize - 1)

\* The hashing function.
CACHE_LOC(xid) == xid % (SPARSENESS * CacheSize)

Replies == [req : Requests, exec : 1 .. MaxExec]
Junk == [kind |-> "junk"]      \* a received datagram, or a failed encoding
BufContents == Replies \cup {Junk}

CacheNodes == [cache_xid : Xids, cache_proc : Procs, cache_addr : Addrs,
               cache_reply : Bufs]

VARIABLES
    st,             \* "none", "idle", "dispatch" (before), "replied" (after)
    call,           \* the rpc_msg being dispatched
    su_xid, xp_rtaddr,
    rpc_buffer,     \* the transport's I/O buffer
    xdrs,           \* the buffer su_xdrs is open on
    buf,            \* contents of the buffers
    heap,           \* allocated nodes and buffers
    su_cache,       \* is the cache enabled?
    uc_entries, uc_fifo, uc_nextvictim, uc_proc,
    node,           \* contents of the cache nodes
    \* history
    execs,          \* executions of service routines so far
    out,            \* the datagram the last step sent, and what it answers
    served          \* requests whose replies were cached, oldest first

xprtVars == <<st, call, su_xid, xp_rtaddr, rpc_buffer, xdrs, buf>>
cacheVars == <<su_cache, uc_entries, uc_fifo, uc_nextvictim, uc_proc, node>>
histVars == <<execs, out, served>>
vars == <<xprtVars, heap, cacheVars, histVars>>

NoOut == [req |-> "none"]
AnyRequest == CHOOSE r \in Requests : TRUE
AnyNode == [cache_xid |-> AnyRequest.xid, cache_proc |-> AnyRequest.proc,
            cache_addr |-> AnyRequest.addr, cache_reply |-> CHOOSE b \in Bufs : TRUE]

Init ==
    /\ st = "none"
    /\ call = AnyRequest
    /\ su_xid = AnyRequest.xid
    /\ xp_rtaddr = AnyRequest.addr
    /\ rpc_buffer = (CHOOSE b \in Bufs : TRUE)
    /\ xdrs = rpc_buffer
    /\ buf = [b \in Bufs |-> Junk]
    /\ heap = {}
    /\ su_cache = FALSE
    /\ uc_entries = [b \in Buckets |-> << >>]
    /\ uc_fifo = [s \in Slots |-> NoNode]
    /\ uc_nextvictim = 0
    /\ uc_proc = AnyRequest.proc
    /\ node = [n \in Nodes |-> AnyNode]
    /\ execs = 0
    /\ out = NoOut
    /\ served = << >>
-----------------------------------------------------------------------------
(* Transport creation and destruction. *)

\* svc_dg_create: the transport owns one I/O buffer, su_xdrs is opened on it,
\* no cache.
Create ==
    /\ st = "none"
    /\ \E b \in Bufs \ heap :
        /\ rpc_buffer' = b
        /\ xdrs' = b
        /\ heap' = heap \cup {b}
    /\ st' = "idle"
    /\ su_cache' = FALSE
    /\ UNCHANGED <<call, su_xid, xp_rtaddr, buf, uc_entries, uc_fifo, uc_nextvictim,
                   uc_proc, node, histVars>>

\* svc_dg_destroy: frees the current I/O buffer.  What the cache owns (nodes and
\* reply buffers) becomes unreachable but stays allocated.
Destroy ==
    /\ st = "idle"
    /\ st' = "none"
    /\ heap' = heap \ {rpc_buffer}
    /\ su_cache' = FALSE
    /\ buf' = [b \in Bufs |-> Junk]
    /\ uc_entries' = [b \in Buckets |-> << >>]
    /\ uc_fifo' = [s \in Slots |-> NoNode]
    /\ uc_nextvictim' = 0
    /\ node' = [n \in Nodes |-> AnyNode]
    /\ out' = NoOut
    /\ served' = << >>
    /\ UNCHANGED <<call, su_xid, xp_rtaddr, rpc_buffer, xdrs, uc_proc, execs>>

\* svc_dg_enablecache on a transport without a cache.  The saved triple uc_proc
\* is not initialised: it holds whatever the allocation returned.  (With a
\* cache, or when an allocation fails, it changes nothing.)
EnableCache ==
    /\ st = "idle" \/ (EnableDuringDispatch /\ st \in {"dispatch", "replied"})
    /\ ~su_cache
    /\ su_cache' = TRUE
    /\ uc_entries' = [b \in Buckets |-> << >>]
    /\ uc_fifo' = [s \in Slots |-> NoNode]
    /\ uc_nextvictim' = 0
    /\ uc_proc' \in Procs
    /\ out' = NoOut
    /\ UNCHANGED <<xprtVars, heap, node, execs, served>>
-----------------------------------------------------------------------------
(* The cache. *)

\* Mutant: the caller's address is not compared.
MatchesAnyCaller(n, r) ==
    /\ node[n].cache_xid = r.xid
    /\ node[n].cache_proc = r.proc

\* The comparison of cache_get's loop.
Matches(n, r) ==
    /\ node[n].cache_xid = r.xid
    /\ node[n].cache_proc = r.proc
    /\ node[n].cache_addr = r.addr

\* The nodes on r's chain that answer r, as positions in the chain.
Hits(r) ==
    {i \in 1 .. Len(uc_entries[CACHE_LOC(r.xid)]) :
        Matches(uc_entries[CACHE_LOC(r.xid)][i], r)}

\* cache_get finds node n: the first match on the chain.
CacheGet(r, n) ==
    \E i \in Hits(r) : /\ n = uc_entries[CACHE_LOC(r.xid)][i]
                       /\ \A j \in Hits(r) : i <= j

OnChain(n, chain) == \E i \in DOMAIN chain : chain[i] = n
NoRepeats(chain) == \A i, j \in DOMAIN chain : chain[i] = chain[j] => i = j

\* Mutant: the victim stays on its chain.
UnlinkNothing(chain, i) == chain

\* A chain without its i-th node.
Unlink(chain, i) ==
    [j \in 1 .. (Len(chain) - 1) |-> IF j < i THEN chain[j] ELSE chain[j + 1]]

\* The tail of cache_set: node n takes over the buffer holding the reply, newbuf
\* becomes the I/O buffer and su_xdrs is reopened on it; n goes to the head of
\* chain loc of the table `entries' and into the victim's slot of the fifo.
StoreAwayAt(n, newbuf, entries, loc, nextvictim) ==
    /\ node' = [node EXCEPT ![n] = [cache_xid |-> su_xid, cache_proc |-> uc_proc,
                                    cache_addr |-> xp_rtaddr,
                                    cache_reply |-> rpc_buffer]]
    /\ rpc_buffer' = newbuf
    /\ xdrs' = newbuf
    /\ uc_entries' = [entries EXCEPT ![loc] = <<n>> \o entries[loc]]
    /\ uc_fifo' = [uc_fifo EXCEPT ![uc_nextvictim] = n]
    /\ uc_nextvictim' = nextvictim
    /\ served' = Append(served, call)

NextVictim == (uc_nextvictim + 1) % CacheSize

\* Mutants: the buffers are not exchanged; the fifo index does not advance.
StoreAwayKeepsBuffer(n, newbuf, entries) ==
    StoreAwayAt(n, rpc_buffer, entries, CACHE_LOC(su_xid), NextVictim)
StoreAwaySameSlot(n, newbuf, entries) ==
    StoreAwayAt(n, newbuf, entries, CACHE_LOC(su_xid), uc_nextvictim)

StoreAway(n, newbuf, entries) ==
    StoreAwayAt(n, newbuf, entries, CACHE_LOC(su_xid), NextVictim)

\* cache_set when the fifo slot is taken: the victim is unlinked from its chain
\* and its reply buffer becomes the next I/O buffer.
ReuseVictim(victim) ==
    LET loc == CACHE_LOC(node[victim].cache_xid) IN
    \E i \in DOMAIN uc_entries[loc] :
        /\ uc_entries[loc][i] = victim
        /\ \A j \in 1 .. (i - 1) : uc_entries[loc][j] # victim
        /\ StoreAway(victim, node[victim].cache_reply,
                     [uc_entries EXCEPT ![loc] = Unlink(@, i)])
        /\ UNCHANGED heap

\* The victim is not on the chain its xid hashes to ("victim not found").
VictimNotFound(victim) ==
    ~OnChain(victim, uc_entries[CACHE_LOC(node[victim].cache_xid)])

NothingCached ==
    UNCHANGED <<heap, node, rpc_buffer, xdrs, uc_entries, uc_fifo,
                uc_nextvictim, served>>

\* cache_set: reuse the victim, allocate a node and a buffer, or give up.
CacheSet ==
    LET victim == uc_fifo[uc_nextvictim] IN
    \/ /\ victim # NoNode
       /\ \/ ReuseVictim(victim)
          \/ VictimNotFound(victim) /\ NothingCached
    \/ /\ victim = NoNode
       /\ \/ \E n \in Nodes \ heap, newbuf \in Bufs \ heap :
               /\ heap' = heap \cup {n, newbuf}
               /\ StoreAway(n, newbuf, uc_entries)
          \/ NothingCached            \* an allocation failed
-----------------------------------------------------------------------------
(* Requests and replies. *)

\* svc_dg_recv returns FALSE before a call is decoded: a short datagram, or one
\* xdr_callmsg rejects (then the caller's address is already recorded).
RecvBad ==
    /\ st = "idle"
    /\ buf' = [buf EXCEPT ![rpc_buffer] = Junk]
    /\ xp_rtaddr' \in Addrs
    /\ out' = NoOut
    /\ UNCHANGED <<st, call, su_xid, rpc_buffer, xdrs, heap, cacheVars, execs, served>>

\* The part of svc_dg_recv common to both outcomes of the cache lookup.
Receive(r) ==
    /\ st = "idle"
    /\ xp_rtaddr' = r.addr
    /\ su_xid' = r.xid
    /\ buf' = [buf EXCEPT ![rpc_buffer] = Junk]
    /\ UNCHANGED <<rpc_buffer, xdrs, heap, su_cache, uc_entries, uc_fifo,
                   uc_nextvictim, node, served>>

\* svc_dg_recv: cache_get finds the request, its reply is sent again.
RecvReplay(r) ==
    /\ Receive(r)
    /\ su_cache
    /\ \E n \in Nodes :
         /\ CacheGet(r, n)
         /\ out' = [req |-> r, reply |-> buf'[node[n].cache_reply]]
    /\ UNCHANGED <<st, call, uc_proc, execs>>

\* svc_dg_recv: no cache, or cache_get misses (and remembers the triple); the
\* request is dispatched.
RecvDispatch(r) ==
    /\ Receive(r)
    /\ su_cache => Hits(r) = {}
    /\ execs < MaxExec
    /\ st' = "dispatch"
    /\ call' = r
    /\ uc_proc' = IF su_cache THEN r.proc ELSE uc_proc
    /\ execs' = execs + 1
    /\ out' = NoOut

\* The reply of the running service routine: one value per execution.
Result == [req |-> call, exec |-> execs]

\* svc_dg_reply: the reply is encoded through su_xdrs and rpc_buffer is sent.
ReplySent ==
    /\ st = "dispatch"
    /\ buf' = [buf EXCEPT ![xdrs] = Result]
    /\ out' = [req |-> call, reply |-> buf'[rpc_buffer]]
    /\ IF su_cache THEN CacheSet ELSE NothingCached
    /\ st' = "replied"
    /\ UNCHANGED <<call, su_xid, xp_rtaddr, su_cache, uc_proc, execs>>

\* svc_dg_reply returns FALSE: the encoding failed, or sendto did not take the
\* whole datagram; nothing is cached and the service routine may try again.
ReplyFails ==
    /\ st = "dispatch"
    /\ buf' \in {[buf EXCEPT ![xdrs] = c] : c \in {Junk, Result}}
    /\ out' = NoOut
    /\ UNCHANGED <<st, call, su_xid, xp_rtaddr, rpc_buffer, xdrs, heap, cacheVars,
                   execs, served>>

\* The service routine returns to the dispatch loop, with or without a reply.
Return ==
    /\ st \in {"dispatch", "replied"}
    /\ st' = "idle"
    /\ call' = AnyRequest
    /\ out' = NoOut
    /\ UNCHANGED <<su_xid, xp_rtaddr, rpc_buffer, xdrs, buf, heap, cacheVars,
                   execs, served>>

Next ==
    \/ Create
    \/ Destroy
    \/ EnableCache
    \/ RecvBad
    \/ \E r \in Requests : RecvReplay(r)
    \/ \E r \in Requests : RecvDispatch(r)
    \/ ReplySent
    \/ ReplyFails
    \/ Return

Spec == Init /\ [][Next]_vars
-----------------------------------------------------------------------------
(* Properties. *)

\* The nodes the cache holds, by fifo slot.
Occupied == {s \in Slots : uc_fifo[s] # NoNode}
InUse(b) == \E s \in Occupied : node[uc_fifo[s]].cache_reply = b

\* Types of the transport, of the cache it points to and of the history.
TypeOK ==
    /\ st \in {"none", "idle", "dispatch", "replied"}
    /\ call \in Requests
    /\ su_xid \in Xids
    /\ xp_rtaddr \in Addrs
    /\ rpc_buffer \in Bufs
    /\ xdrs \in Bufs
    /\ buf \in [Bufs -> BufContents]
    /\ heap \subseteq (Nodes \cup Bufs)
    /\ su_cache \in BOOLEAN
    /\ uc_entries \in [Buckets -> Seq(Nodes)]
    /\ uc_fifo \in [Slots -> Nodes \cup {NoNode}]
    /\ uc_nextvictim \in Slots
    /\ uc_proc \in Procs
    /\ node \in [Nodes -> CacheNodes]
    /\ execs \in 0 .. MaxExec
    /\ out = NoOut \/ out \in [req : Requests, reply : BufContents]
    /\ served \in Seq(Requests)

\* The I/O buffer, which recvfrom and the encoding of replies overwrite, is
\* never a buffer whose reply the cache still holds; the buffer that is sent
\* is the one that was encoded into; two nodes never share a buffer; nothing
\* in use has been freed.
BufferOwnership ==
    st # "none" =>
        /\ xdrs = rpc_buffer
        /\ rpc_buffer \in heap
        /\ su_cache =>
            /\ ~InUse(rpc_buffer)
            /\ \A s \in Occupied : /\ uc_fifo[s] \in heap
                                   /\ node[uc_fifo[s]].cache_reply \in heap
            /\ \A s, t \in Occupied :
                 node[uc_fifo[s]].cache_reply = node[uc_fifo[t]].cache_reply => s = t

\* The fifo and the hash table hold the same nodes: every fifo node is on the
\* chain its xid hashes to, a chain holds no node twice and only fifo nodes.
\* So cache_set's "victim not found" return is dead code.
FifoMatchesTable ==
    (st # "none" /\ su_cache) =>
        /\ \A s, t \in Occupied : uc_fifo[s] = uc_fifo[t] => s = t
        /\ \A s \in Occupied :
             OnChain(uc_fifo[s], uc_entries[CACHE_LOC(node[uc_fifo[s]].cache_xid)])
        /\ \A b \in Buckets :
             /\ NoRepeats(uc_entries[b])
             /\ \A n \in Nodes : OnChain(n, uc_entries[b]) =>
                  /\ \E s \in Occupied : uc_fifo[s] = n
                  /\ CACHE_LOC(node[n].cache_xid) = b

\* cache_set never gives up with "victim not found".
VictimAlwaysFound ==
    (st # "none" /\ su_cache /\ uc_fifo[uc_nextvictim] # NoNode) =>
        ~VictimNotFound(uc_fifo[uc_nextvictim])

\* The cache keeps its shape while its fifo wraps and allocations fail: it is well
\* typed, fifo and table agree, and the victim is always found (svc_dg.c: cache_set).
CacheStructure == TypeOK /\ FifoMatchesTable /\ VictimAlwaysFound

\* Whatever the server sends, from a service routine or out of the cache, is a
\* reply to the very request (xid, procedure and caller) that made it send.
RepliesAnswerTheirRequest ==
    out # NoOut => out.reply \in Replies /\ out.reply.req = out.req

\* An execution of a request that was cached at most CacheSize replies ago
\* never starts (what "duplicate request cache" promises).
NoRecentReexecution ==
    [][(execs' > execs /\ su_cache) =>
         \A k \in DOMAIN served :
            k > Len(served) - CacheSize => served[k] # call']_vars
=============================================================================
