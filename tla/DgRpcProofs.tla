---------------------------- MODULE DgRpcProofs -----------------------------
(***************************************************************************)
(* The datagram server alone, for every cache size, every set of requests  *)
(* and every heap: the shape of its duplicate-request cache, what it sends *)
(* and what it never executes twice.                                       *)
(*                                                                         *)
(* Then server, network and clients together, for every number of clients, *)
(* calls, retransmissions and refreshes, over a network that loses,        *)
(* repeats, delays and reorders: a reply that is accepted is the reply to  *)
(* the running call, polls end by the timeout, and the client, the server  *)
(* and its cache implement RpcSemantics.                                   *)
(***************************************************************************)
EXTENDS DgRpc, Integers, TLAPS

-----------------------------------------------------------------------------
(* The operators. *)

\* The hashing function stays inside the table.
LEMMA LocInTable == \A x \in Xids : CACHE_LOC(x) \in Buckets
  BY XidsAssumption, CacheSizeAssumption DEF CACHE_LOC, Buckets, SPARSENESS

\* Unlinking the k-th node of a chain without repeats removes exactly that node.
LEMMA UnlinkRemoves ==
  ASSUME NEW chain \in Seq(Nodes), NEW k \in DOMAIN chain, NoRepeats(chain)
  PROVE  /\ Unlink(chain, k) \in Seq(Nodes)
         /\ NoRepeats(Unlink(chain, k))
         /\ \A n \in Nodes :
              OnChain(n, Unlink(chain, k)) <=> (n # chain[k] /\ OnChain(n, chain))
<1> DEFINE u == Unlink(chain, k)
<1>1. /\ Len(chain) \in Nat /\ k \in 1 .. Len(chain)
      /\ DOMAIN chain = 1 .. Len(chain)
      /\ \A i \in 1 .. Len(chain) : chain[i] \in Nodes
  OBVIOUS
<1>2. /\ u = [j \in 1 .. (Len(chain) - 1) |-> IF j < k THEN chain[j] ELSE chain[j + 1]]
      /\ DOMAIN u = 1 .. (Len(chain) - 1)
      /\ \A j \in 1 .. (Len(chain) - 1) :
            u[j] = IF j < k THEN chain[j] ELSE chain[j + 1]
  BY DEF Unlink
<1>3. u \in Seq(Nodes)
  <2>1. Len(chain) - 1 \in Nat
    BY <1>1
  <2>2. \A j \in 1 .. (Len(chain) - 1) : u[j] \in Nodes
    BY <1>1, <1>2
  <2> QED BY <1>2, <2>1, <2>2
<1>4. NoRepeats(u)
  BY <1>1, <1>2 DEF NoRepeats
<1>5. ASSUME NEW n \in Nodes PROVE OnChain(n, u) <=> (n # chain[k] /\ OnChain(n, chain))
  <2>1. ASSUME OnChain(n, u) PROVE n # chain[k] /\ OnChain(n, chain)
    BY <1>1, <1>2, <2>1 DEF OnChain, NoRepeats
  <2>2. ASSUME n # chain[k], OnChain(n, chain) PROVE OnChain(n, u)
    <3>1. PICK i \in 1 .. Len(chain) : chain[i] = n
      BY <1>1, <2>2 DEF OnChain
    <3>2. CASE i < k
      <4>1. i \in 1 .. (Len(chain) - 1) /\ u[i] = n
        BY <1>1, <1>2, <3>1, <3>2
      <4> QED BY <1>2, <4>1 DEF OnChain
    <3>3. CASE i > k
      <4>1. i - 1 \in 1 .. (Len(chain) - 1) /\ u[i - 1] = n
        BY <1>1, <1>2, <3>1, <3>3
      <4> QED BY <1>2, <4>1 DEF OnChain
    <3> QED BY <1>1, <2>2, <3>1, <3>2, <3>3
  <2> QED BY <2>1, <2>2
<1> QED BY <1>3, <1>4, <1>5

\* Linking a node that is not on a chain at its head adds exactly that node.
LEMMA LinkAdds ==
  ASSUME NEW chain \in Seq(Nodes), NEW m \in Nodes, NoRepeats(chain), ~OnChain(m, chain)
  PROVE  /\ <<m>> \o chain \in Seq(Nodes)
         /\ NoRepeats(<<m>> \o chain)
         /\ \A n \in Nodes : OnChain(n, <<m>> \o chain) <=> (n = m \/ OnChain(n, chain))
<1> DEFINE c == <<m>> \o chain
<1>1. /\ c \in Seq(Nodes)
      /\ Len(chain) \in Nat /\ Len(c) = Len(chain) + 1
      /\ DOMAIN c = 1 .. (Len(chain) + 1) /\ DOMAIN chain = 1 .. Len(chain)
      /\ c[1] = m
      /\ \A i \in 1 .. Len(chain) : c[i + 1] = chain[i]
  OBVIOUS
<1> HIDE DEF c
<1>2. \A i \in DOMAIN c : i = 1 \/ (i - 1 \in DOMAIN chain /\ c[i] = chain[i - 1])
  <2> SUFFICES ASSUME NEW i \in DOMAIN c, i # 1
               PROVE i - 1 \in DOMAIN chain /\ c[i] = chain[i - 1]
    OBVIOUS
  <2>1. i - 1 \in 1 .. Len(chain) /\ (i - 1) + 1 = i
    BY <1>1
  <2> QED BY <1>1, <2>1
<1>3. NoRepeats(c)
  BY <1>1, <1>2 DEF NoRepeats, OnChain
<1>4. ASSUME NEW n \in Nodes PROVE OnChain(n, c) <=> (n = m \/ OnChain(n, chain))
  <2>1. ASSUME OnChain(n, c) PROVE n = m \/ OnChain(n, chain)
    BY <1>1, <1>2, <2>1 DEF OnChain
  <2>2. ASSUME n = m PROVE OnChain(n, c)
    BY <1>1, <2>2 DEF OnChain
  <2>3. ASSUME OnChain(n, chain) PROVE OnChain(n, c)
    <3>1. PICK i \in 1 .. Len(chain) : chain[i] = n
      BY <1>1, <2>3 DEF OnChain
    <3>2. i + 1 \in DOMAIN c /\ c[i + 1] = n
      BY <1>1, <3>1
    <3> QED BY <3>2 DEF OnChain
  <2> QED BY <2>1, <2>2, <2>3
<1> QED BY <1>1, <1>3, <1>4 DEF c
-----------------------------------------------------------------------------
(* The inductive invariant. *)

\* Neither BufferOwnership nor FifoMatchesTable is inductive without the other
\* parts: the fresh cells of cache_set are fresh because what is in use is
\* allocated, and the victim's buffer is free because it is unlinked.
Dispatching == st = "dispatch" => execs > 0
StructInv == TypeOK /\ BufferOwnership /\ FifoMatchesTable /\ Dispatching

LEMMA RequestsNotEmpty == AnyRequest \in Requests
<1>1. PICK x \in Xids, p \in Procs, a \in Addrs : TRUE
  BY XidsAssumption, CallersAssumption
<1>2. [xid |-> x, proc |-> p, addr |-> a] \in Requests
  BY DEF Requests
<1> QED BY <1>2 DEF AnyRequest

LEMMA InitStruct == Init => StructInv
<1> SUFFICES ASSUME Init PROVE StructInv
  OBVIOUS
<1>1. (CHOOSE b \in Bufs : TRUE) \in Bufs
  BY HeapAssumption
<1>2. AnyRequest.xid \in Xids /\ AnyRequest.proc \in Procs /\ AnyRequest.addr \in Addrs
  BY RequestsNotEmpty DEF Requests
<1>3. AnyNode \in CacheNodes
  BY <1>1, <1>2 DEF AnyNode, CacheNodes
<1>4. << >> \in Seq(Nodes) /\ << >> \in Seq(Requests)
  OBVIOUS
<1>5. 0 \in Slots /\ 0 \in 0 .. MaxExec
  BY CacheSizeAssumption, MaxExecAssumption DEF Slots
<1>6. TypeOK
  BY <1>1, <1>2, <1>3, <1>4, <1>5, RequestsNotEmpty DEF Init, TypeOK, BufContents
<1>7. BufferOwnership /\ FifoMatchesTable /\ Dispatching
  BY DEF Init, BufferOwnership, FifoMatchesTable, Dispatching
<1> QED BY <1>6, <1>7 DEF StructInv

\* What cache_set's last part does to the fifo and the table, once the node it
\* stores (the unlinked victim, or a fresh one) is on no chain.
LEMMA StoreAwayStruct ==
  ASSUME TypeOK, FifoMatchesTable, st = "dispatch", su_cache,
         NEW n \in Nodes, NEW newbuf \in Bufs,
         NEW entries \in [Buckets -> Seq(Nodes)],
         \A b \in Buckets : NoRepeats(entries[b]) /\ ~OnChain(n, entries[b]),
         \A b \in Buckets : \A m \in Nodes :
            m # n => (OnChain(m, entries[b]) <=> OnChain(m, uc_entries[b])),
         \A s \in Slots : uc_fifo[s] = n => s = uc_nextvictim,
         uc_fifo[uc_nextvictim] \in {n, NoNode},
         st' = "replied", su_cache' = su_cache,
         StoreAway(n, newbuf, entries)
  PROVE  /\ FifoMatchesTable'
         /\ uc_entries' \in [Buckets -> Seq(Nodes)]
         /\ uc_fifo' \in [Slots -> Nodes \cup {NoNode}]
         /\ uc_nextvictim' \in Slots
         /\ node' \in [Nodes -> CacheNodes]
         /\ rpc_buffer' = newbuf /\ xdrs' = newbuf
         /\ served' = Append(served, call)
<1> DEFINE loc == CACHE_LOC(su_xid)
           new == [cache_xid |-> su_xid, cache_proc |-> uc_proc,
                   cache_addr |-> xp_rtaddr, cache_reply |-> rpc_buffer]
<1>1. loc \in Buckets
  BY LocInTable DEF TypeOK
<1>2. /\ node' = [node EXCEPT ![n] = new]
      /\ uc_entries' = [entries EXCEPT ![loc] = <<n>> \o entries[loc]]
      /\ uc_fifo' = [uc_fifo EXCEPT ![uc_nextvictim] = n]
      /\ rpc_buffer' = newbuf /\ xdrs' = newbuf
      /\ served' = Append(served, call)
      /\ uc_nextvictim' = (uc_nextvictim + 1) % CacheSize
  BY DEF StoreAway, StoreAwayAt, NextVictim
<1>3. new \in CacheNodes
  BY DEF TypeOK, CacheNodes
<1> HIDE DEF loc
<1>4. /\ <<n>> \o entries[loc] \in Seq(Nodes)
      /\ NoRepeats(<<n>> \o entries[loc])
      /\ \A m \in Nodes :
            OnChain(m, <<n>> \o entries[loc]) <=> (m = n \/ OnChain(m, entries[loc]))
  BY <1>1, LinkAdds
<1>5. /\ uc_entries' \in [Buckets -> Seq(Nodes)]
      /\ uc_fifo' \in [Slots -> Nodes \cup {NoNode}]
      /\ node' \in [Nodes -> CacheNodes]
  BY <1>1, <1>2, <1>3, <1>4 DEF TypeOK
<1>6. uc_nextvictim' \in Slots
  BY <1>2, CacheSizeAssumption DEF TypeOK, Slots
<1>7. \A b \in Buckets : /\ NoRepeats(uc_entries'[b])
                         /\ \A m \in Nodes : OnChain(m, uc_entries'[b]) <=>
                              ((m = n /\ b = loc) \/ (m # n /\ OnChain(m, uc_entries[b])))
  <2> SUFFICES ASSUME NEW b \in Buckets
               PROVE  /\ NoRepeats(uc_entries'[b])
                      /\ \A m \in Nodes : OnChain(m, uc_entries'[b]) <=>
                           ((m = n /\ b = loc) \/ (m # n /\ OnChain(m, uc_entries[b])))
    OBVIOUS
  <2>1. CASE b = loc
    <3>1. uc_entries'[b] = <<n>> \o entries[loc]
      BY <1>1, <1>2, <2>1
    <3> QED BY <1>4, <2>1, <3>1
  <2>2. CASE b # loc
    <3>1. uc_entries'[b] = entries[b]
      BY <1>2, <2>2
    <3> QED BY <2>2, <3>1
  <2> QED BY <2>1, <2>2
<1>8. \A s \in Slots : uc_fifo'[s] = IF s = uc_nextvictim THEN n ELSE uc_fifo[s]
  BY <1>2 DEF TypeOK
<1>9. \A m \in Nodes : node'[m] = IF m = n THEN new ELSE node[m]
  BY <1>2 DEF TypeOK
<1>10. CACHE_LOC(new.cache_xid) = loc
  BY DEF loc
<1> HIDE DEF new
<1>11. FifoMatchesTable'
  <2>1. /\ n # NoNode /\ uc_nextvictim \in Slots
        /\ \A s \in Slots : uc_fifo[s] \in Nodes \cup {NoNode}
    BY NoNodeAssumption DEF TypeOK
  <2>2. Occupied' = Occupied \cup {uc_nextvictim}
    BY <1>8, <2>1 DEF Occupied
  <2>3. \A s, t \in Occupied' : uc_fifo'[s] = uc_fifo'[t] => s = t
    BY <1>8, <2>1 DEF Occupied, FifoMatchesTable
  <2>4. ASSUME NEW s \in Occupied'
        PROVE OnChain(uc_fifo'[s], uc_entries'[CACHE_LOC(node'[uc_fifo'[s]].cache_xid)])
    <3>1. CASE s = uc_nextvictim
      BY <1>1, <1>7, <1>8, <1>9, <1>10, <2>1, <3>1
    <3>2. CASE s # uc_nextvictim
      <4>1. /\ s \in Occupied /\ s \in Slots /\ uc_fifo'[s] = uc_fifo[s]
            /\ uc_fifo[s] \in Nodes /\ uc_fifo[s] # n
        BY <1>8, <2>1, <2>2, <3>2 DEF Occupied
      <4>2. CACHE_LOC(node[uc_fifo[s]].cache_xid) \in Buckets
        BY <4>1, LocInTable DEF TypeOK, CacheNodes
      <4>3. OnChain(uc_fifo[s], uc_entries[CACHE_LOC(node[uc_fifo[s]].cache_xid)])
        BY <4>1 DEF FifoMatchesTable
      <4> QED BY <1>7, <1>9, <4>1, <4>2, <4>3
    <3> QED BY <3>1, <3>2
  <2>5. ASSUME NEW b \in Buckets, NEW m \in Nodes, OnChain(m, uc_entries'[b])
        PROVE  (\E s \in Occupied' : uc_fifo'[s] = m) /\ CACHE_LOC(node'[m].cache_xid) = b
    <3>1. CASE m = n /\ b = loc
      BY <1>8, <1>9, <1>10, <2>1, <2>2, <3>1
    <3>2. CASE m # n /\ OnChain(m, uc_entries[b])
      <4>1. PICK s \in Occupied : uc_fifo[s] = m
        BY <3>2 DEF FifoMatchesTable
      <4>2. CACHE_LOC(node[m].cache_xid) = b
        BY <3>2 DEF FifoMatchesTable
      <4>3. s # uc_nextvictim
        BY <2>1, <3>2, <4>1 DEF Occupied
      <4>4. s \in Occupied' /\ uc_fifo'[s] = m
        BY <1>8, <2>2, <4>1, <4>3 DEF Occupied
      <4> QED BY <1>9, <3>2, <4>2, <4>4
    <3> QED BY <1>7, <2>5, <3>1, <3>2
  <2> QED BY <1>7, <2>3, <2>4, <2>5 DEF FifoMatchesTable
<1> QED BY <1>2, <1>5, <1>6, <1>11

\* cache_set keeps the structure: the victim's slot is refilled with the victim
\* itself or with fresh cells, or nothing changes.
LEMMA CacheSetStruct ==
  ASSUME StructInv, st = "dispatch", su_cache, CacheSet,
         st' = "replied", su_cache' = su_cache
  PROVE  /\ BufferOwnership' /\ FifoMatchesTable'
         /\ uc_entries' \in [Buckets -> Seq(Nodes)]
         /\ uc_fifo' \in [Slots -> Nodes \cup {NoNode}]
         /\ uc_nextvictim' \in Slots
         /\ node' \in [Nodes -> CacheNodes]
         /\ rpc_buffer' \in Bufs /\ xdrs' \in Bufs
         /\ heap' \subseteq (Nodes \cup Bufs)
         /\ served' \in Seq(Requests)
<1> DEFINE v == uc_fifo[uc_nextvictim]
<1>1. /\ uc_nextvictim \in Slots /\ v \in Nodes \cup {NoNode} /\ NoNode \notin Nodes
      /\ \A s \in Slots : uc_fifo[s] \in Nodes \cup {NoNode}
      /\ \A m \in Nodes : node[m] \in CacheNodes
      /\ \A b \in Buckets : uc_entries[b] \in Seq(Nodes)
      /\ uc_entries \in [Buckets -> Seq(Nodes)]
      /\ rpc_buffer \in Bufs /\ rpc_buffer \in heap /\ xdrs = rpc_buffer
      /\ served \in Seq(Requests) /\ call \in Requests
      /\ heap \subseteq (Nodes \cup Bufs)
  BY NoNodeAssumption DEF StructInv, TypeOK, BufferOwnership
<1>2. TypeOK /\ FifoMatchesTable
  BY DEF StructInv
<1>3. CASE NothingCached
  BY <1>1, <1>2, <1>3
     DEF NothingCached, StructInv, TypeOK, BufferOwnership, FifoMatchesTable, Occupied, InUse
<1>4. CASE v # NoNode /\ ReuseVictim(v)
  <2> DEFINE loc == CACHE_LOC(node[v].cache_xid)
  <2>1. v \in Nodes /\ loc \in Buckets /\ uc_nextvictim \in Occupied
    BY <1>1, <1>4, LocInTable DEF CacheNodes, Occupied
  <2>2. PICK i \in DOMAIN uc_entries[loc] :
          /\ uc_entries[loc][i] = v
          /\ StoreAway(v, node[v].cache_reply,
                       [uc_entries EXCEPT ![loc] = Unlink(uc_entries[loc], i)])
          /\ UNCHANGED heap
    BY <1>4, <2>1 DEF ReuseVictim
  <2> DEFINE entries == [uc_entries EXCEPT ![loc] = Unlink(uc_entries[loc], i)]
  <2>3. \A b \in Buckets : NoRepeats(uc_entries[b])
    BY <1>2 DEF StructInv, FifoMatchesTable
  <2>4. /\ Unlink(uc_entries[loc], i) \in Seq(Nodes)
        /\ NoRepeats(Unlink(uc_entries[loc], i))
        /\ \A m \in Nodes : OnChain(m, Unlink(uc_entries[loc], i)) <=>
                              (m # v /\ OnChain(m, uc_entries[loc]))
    BY <1>1, <2>1, <2>2, <2>3, UnlinkRemoves
  <2>5. entries \in [Buckets -> Seq(Nodes)]
    BY <1>1, <2>1, <2>4
  <2>6. \A b \in Buckets : b # loc => entries[b] = uc_entries[b] /\ ~OnChain(v, uc_entries[b])
    BY <1>1, <1>2, <2>1 DEF FifoMatchesTable
  <2>7. entries[loc] = Unlink(uc_entries[loc], i)
    BY <1>1, <2>1
  <2> HIDE DEF entries, loc
  <2>8. \A b \in Buckets : NoRepeats(entries[b]) /\ ~OnChain(v, entries[b])
    BY <2>1, <2>3, <2>4, <2>6, <2>7
  <2>9. \A b \in Buckets : \A m \in Nodes :
           m # v => (OnChain(m, entries[b]) <=> OnChain(m, uc_entries[b]))
    BY <2>4, <2>6, <2>7
  <2>10. \A s \in Slots : uc_fifo[s] = v => s = uc_nextvictim
    BY <1>1, <1>2, <1>4 DEF FifoMatchesTable, Occupied
  <2>11. node[v].cache_reply \in Bufs /\ StoreAway(v, node[v].cache_reply, entries)
    BY <1>1, <2>1, <2>2 DEF CacheNodes, entries, loc
  <2>12. /\ FifoMatchesTable'
         /\ uc_entries' \in [Buckets -> Seq(Nodes)]
         /\ uc_fifo' \in [Slots -> Nodes \cup {NoNode}]
         /\ uc_nextvictim' \in Slots
         /\ node' \in [Nodes -> CacheNodes]
         /\ rpc_buffer' = node[v].cache_reply /\ xdrs' = node[v].cache_reply
         /\ served' = Append(served, call)
    BY <1>2, <2>1, <2>5, <2>8, <2>9, <2>10, <2>11, StoreAwayStruct
  <2>13. BufferOwnership'
    <3>1. uc_fifo' = uc_fifo
      BY <1>1, <2>11 DEF StoreAway, StoreAwayAt, StructInv, TypeOK
    <3>2. \A m \in Nodes : node'[m].cache_reply =
                              IF m = v THEN rpc_buffer ELSE node[m].cache_reply
      BY <1>1, <2>11 DEF StoreAway, StoreAwayAt, StructInv, TypeOK
    <3>3. BufferOwnership /\ st # "none" /\ su_cache
      BY DEF StructInv
    <3>4. \A s \in Occupied : uc_fifo[s] \in Nodes /\ s \in Slots
      BY <1>1 DEF Occupied
    <3>5. Occupied' = Occupied
      BY <3>1 DEF Occupied
    <3> HIDE DEF v
    <3>6. ~InUse(rpc_buffer)'
      BY <2>1, <2>10, <2>12, <3>1, <3>2, <3>3, <3>4, <3>5 DEF BufferOwnership, InUse, v
    <3>7. \A s, t \in Occupied' :
             node'[uc_fifo'[s]].cache_reply = node'[uc_fifo'[t]].cache_reply => s = t
      BY <2>10, <3>1, <3>2, <3>3, <3>4, <3>5 DEF BufferOwnership, InUse
    <3>8. \A s \in Occupied' : uc_fifo'[s] \in heap' /\ node'[uc_fifo'[s]].cache_reply \in heap'
      BY <1>1, <2>2, <3>1, <3>2, <3>3, <3>4, <3>5 DEF BufferOwnership
    <3>9. xdrs' = rpc_buffer' /\ rpc_buffer' \in heap'
      BY <2>1, <2>2, <2>12, <3>3 DEF BufferOwnership, v
    <3> QED BY <3>6, <3>7, <3>8, <3>9 DEF BufferOwnership
  <2> QED BY <1>1, <2>2, <2>11, <2>12, <2>13
<1>5. CASE v = NoNode /\ \E n \in Nodes \ heap, newbuf \in Bufs \ heap :
             heap' = heap \cup {n, newbuf} /\ StoreAway(n, newbuf, uc_entries)
  <2>1. PICK n \in Nodes \ heap, newbuf \in Bufs \ heap :
             heap' = heap \cup {n, newbuf} /\ StoreAway(n, newbuf, uc_entries)
    BY <1>5
  <2>2. BufferOwnership /\ st # "none" /\ su_cache
    BY DEF StructInv
  <2>3. \A s \in Slots : uc_fifo[s] # n
    BY <1>1, <2>1, <2>2 DEF BufferOwnership, Occupied
  <2>4. \A b \in Buckets : NoRepeats(uc_entries[b]) /\ ~OnChain(n, uc_entries[b])
    BY <1>2, <2>1, <2>3 DEF FifoMatchesTable, Occupied
  <2>5. /\ FifoMatchesTable'
        /\ uc_entries' \in [Buckets -> Seq(Nodes)]
        /\ uc_fifo' \in [Slots -> Nodes \cup {NoNode}]
        /\ uc_nextvictim' \in Slots
        /\ node' \in [Nodes -> CacheNodes]
        /\ rpc_buffer' = newbuf /\ xdrs' = newbuf
        /\ served' = Append(served, call)
    BY <1>1, <1>2, <1>5, <2>1, <2>3, <2>4, StoreAwayStruct
  <2>6. BufferOwnership'
    <3>1. \A s \in Slots : uc_fifo'[s] = IF s = uc_nextvictim THEN n ELSE uc_fifo[s]
      BY <1>1, <2>1 DEF StoreAway, StoreAwayAt, StructInv, TypeOK
    <3>2. \A m \in Nodes : node'[m].cache_reply =
                              IF m = n THEN rpc_buffer ELSE node[m].cache_reply
      BY <1>1, <2>1 DEF StoreAway, StoreAwayAt, StructInv, TypeOK
    <3>3. Occupied' = Occupied \cup {uc_nextvictim} /\ uc_nextvictim \notin Occupied
      BY <1>1, <1>5, <2>1, <3>1 DEF Occupied
    <3>4. \A s \in Occupied : /\ uc_fifo'[s] = uc_fifo[s] /\ uc_fifo[s] \in Nodes
                              /\ node'[uc_fifo[s]].cache_reply = node[uc_fifo[s]].cache_reply
      BY <1>1, <2>3, <3>1, <3>2, <3>3 DEF Occupied
    <3>5. uc_fifo'[uc_nextvictim] = n /\ node'[n].cache_reply = rpc_buffer
      BY <1>1, <2>1, <3>1, <3>2
    <3>6. ~InUse(rpc_buffer)'
      <4>1. ASSUME NEW s \in Occupied' PROVE node'[uc_fifo'[s]].cache_reply # newbuf
        <5>1. \A t \in Occupied : node[uc_fifo[t]].cache_reply \in heap
          BY <2>2 DEF BufferOwnership
        <5>2. CASE s \in Occupied
          BY <2>1, <3>4, <5>1, <5>2
        <5>3. CASE s = uc_nextvictim
          BY <1>1, <2>1, <3>5, <5>3
        <5> QED BY <3>3, <5>2, <5>3
      <4> QED BY <2>5, <4>1 DEF InUse
    <3>7. \A s, t \in Occupied' :
             node'[uc_fifo'[s]].cache_reply = node'[uc_fifo'[t]].cache_reply => s = t
      BY <2>2, <3>3, <3>4, <3>5 DEF BufferOwnership, InUse
    <3>8. \A s \in Occupied' : uc_fifo'[s] \in heap' /\ node'[uc_fifo'[s]].cache_reply \in heap'
      BY <1>1, <2>1, <2>2, <3>3, <3>4, <3>5 DEF BufferOwnership
    <3>9. xdrs' = rpc_buffer' /\ rpc_buffer' \in heap'
      BY <2>1, <2>5
    <3> QED BY <3>6, <3>7, <3>8, <3>9 DEF BufferOwnership
  <2> QED BY <1>1, <2>1, <2>5, <2>6
<1> QED BY <1>3, <1>4, <1>5 DEF CacheSet

\* Every step preserves the structural invariant.
LEMMA NextStruct == StructInv /\ [Next]_vars => StructInv'
<1> SUFFICES ASSUME StructInv, [Next]_vars PROVE StructInv'
  OBVIOUS
<1> USE DEF StructInv, Dispatching
<1>0. AnyRequest \in Requests /\ (\A r \in Requests : r.xid \in Xids /\ r.proc \in Procs /\ r.addr \in Addrs)
  BY RequestsNotEmpty DEF Requests
<1>1. CASE Create
  BY <1>1 DEF Create, histVars, TypeOK, BufferOwnership, FifoMatchesTable
<1>2. CASE Destroy
  <2>1. AnyNode \in CacheNodes
    BY <1>0, HeapAssumption DEF AnyNode, CacheNodes
  <2>2. 0 \in Slots
    BY CacheSizeAssumption DEF Slots
  <2>3. << >> \in Seq(Nodes) /\ << >> \in Seq(Requests)
    OBVIOUS
  <2>4. TypeOK'
    BY <1>2, <2>1, <2>2, <2>3 DEF Destroy, TypeOK, BufContents
  <2>5. st' = "none"
    BY <1>2 DEF Destroy
  <2> QED BY <2>4, <2>5 DEF BufferOwnership, FifoMatchesTable
<1>3. CASE EnableCache
  <2>1. TypeOK'
    BY <1>3, CacheSizeAssumption DEF EnableCache, xprtVars, TypeOK, Slots
  <2>2. Occupied' = {}
    BY <1>3 DEF EnableCache, Occupied
  <2>3. BufferOwnership'
    BY <1>3, <2>2 DEF EnableCache, xprtVars, BufferOwnership, InUse
  <2>4. \A b \in Buckets : uc_entries'[b] = << >>
    BY <1>3 DEF EnableCache
  <2>5. FifoMatchesTable'
    BY <2>2, <2>4 DEF FifoMatchesTable, OnChain, NoRepeats
  <2>6. Dispatching'
    BY <1>3 DEF EnableCache, xprtVars
  <2> QED BY <2>1, <2>3, <2>5, <2>6
<1>4. CASE RecvBad
  BY <1>4 DEF RecvBad, cacheVars, TypeOK, BufContents, BufferOwnership,
              FifoMatchesTable, Occupied, InUse
<1>5. ASSUME NEW r \in Requests, RecvReplay(r) PROVE StructInv'
  <2>1. PICK n \in Nodes : out' = [req |-> r, reply |-> buf'[node[n].cache_reply]]
    BY <1>5 DEF RecvReplay
  <2>2. out' \in [req : Requests, reply : BufContents]
    BY <1>5, <2>1 DEF RecvReplay, Receive, TypeOK, BufContents, CacheNodes
  <2> QED BY <1>0, <1>5, <2>2 DEF RecvReplay, Receive, TypeOK, BufContents, BufferOwnership,
              FifoMatchesTable, Occupied, InUse
<1>6. ASSUME NEW r \in Requests, RecvDispatch(r) PROVE StructInv'
  <2>1. TypeOK'
    BY <1>0, <1>6, MaxExecAssumption DEF RecvDispatch, Receive, TypeOK, BufContents
  <2>2. BufferOwnership' /\ FifoMatchesTable'
    BY <1>6 DEF RecvDispatch, Receive, BufferOwnership, FifoMatchesTable, Occupied, InUse
  <2>3. Dispatching'
    BY <1>6 DEF RecvDispatch, TypeOK
  <2> QED BY <2>1, <2>2, <2>3
<1>7. CASE ReplySent
  <2>1. st = "dispatch" /\ st' = "replied" /\ su_cache' = su_cache
    BY <1>7 DEF ReplySent
  <2>2. Result \in Replies
    BY <2>1 DEF Result, Replies, TypeOK
  <2>3. buf' \in [Bufs -> BufContents] /\ out' \in [req : Requests, reply : BufContents]
    BY <1>7, <2>2 DEF ReplySent, TypeOK, BufContents
  <2>4. CASE su_cache
    <3>1. CacheSet
      BY <1>7, <2>4 DEF ReplySent
    <3>2. /\ BufferOwnership' /\ FifoMatchesTable'
          /\ uc_entries' \in [Buckets -> Seq(Nodes)]
          /\ uc_fifo' \in [Slots -> Nodes \cup {NoNode}]
          /\ uc_nextvictim' \in Slots
          /\ node' \in [Nodes -> CacheNodes]
          /\ rpc_buffer' \in Bufs /\ xdrs' \in Bufs
          /\ heap' \subseteq (Nodes \cup Bufs)
          /\ served' \in Seq(Requests)
      BY <2>1, <2>4, <3>1, CacheSetStruct
    <3>3. TypeOK'
      BY <1>7, <2>1, <2>3, <3>2 DEF ReplySent, TypeOK
    <3> QED BY <2>1, <3>2, <3>3 DEF Dispatching
  <2>5. CASE ~su_cache
    BY <1>7, <2>1, <2>3, <2>5 DEF ReplySent, NothingCached, TypeOK, BufferOwnership,
                                  FifoMatchesTable
  <2> QED BY <2>4, <2>5
<1>8. CASE ReplyFails
  <2>1. Result \in Replies
    BY <1>8 DEF ReplyFails, Result, Replies, TypeOK
  <2>2. buf' \in [Bufs -> BufContents]
    BY <1>8, <2>1 DEF ReplyFails, TypeOK, BufContents
  <2> QED BY <1>8, <2>2 DEF ReplyFails, cacheVars, TypeOK, BufferOwnership,
              FifoMatchesTable, Occupied, InUse, Dispatching
<1>9. CASE Return
  BY <1>0, <1>9 DEF Return, cacheVars, TypeOK, BufferOwnership, FifoMatchesTable,
                    Occupied, InUse
<1>10. CASE UNCHANGED vars
  BY <1>10 DEF vars, xprtVars, cacheVars, histVars, TypeOK, BufferOwnership,
               FifoMatchesTable, Occupied, InUse
<1> QED BY <1>1, <1>2, <1>3, <1>4, <1>5, <1>6, <1>7, <1>8, <1>9, <1>10 DEF Next
-----------------------------------------------------------------------------
(* Theorems about the structure of the cache. *)

\* Type correctness of the datagram server.
THEOREM TypeCorrect == Spec => []TypeOK
<1>1. StructInv => TypeOK
  BY DEF StructInv
<1> QED BY InitStruct, NextStruct, <1>1, PTL DEF Spec

\* A buffer is never both the I/O buffer and part of the cache, and the XDR stream
\* always follows the exchange of buffers in cache_set.
THEOREM BuffersOwnedOnce == Spec => []BufferOwnership
<1>1. StructInv => BufferOwnership
  BY DEF StructInv
<1> QED BY InitStruct, NextStruct, <1>1, PTL DEF Spec

\* The fifo and the hash table always hold the same nodes.
THEOREM FifoAgreesWithTable == Spec => []FifoMatchesTable
<1>1. StructInv => FifoMatchesTable
  BY DEF StructInv
<1> QED BY InitStruct, NextStruct, <1>1, PTL DEF Spec

\* The "victim not found" return of cache_set is never taken.
THEOREM VictimFound == Spec => []VictimAlwaysFound
<1>1. StructInv => VictimAlwaysFound
  BY DEF StructInv, TypeOK, VictimAlwaysFound, FifoMatchesTable, VictimNotFound, Occupied
<1> QED BY InitStruct, NextStruct, <1>1, PTL DEF Spec

\* The cache keeps its shape: types, fifo and table, victim.
THEOREM StructureKept == Spec => []CacheStructure
<1> QED BY TypeCorrect, FifoAgreesWithTable, VictimFound, PTL DEF CacheStructure
-----------------------------------------------------------------------------
(* What is sent. *)

KeyOf(n) == [xid |-> n.cache_xid, proc |-> n.cache_proc, addr |-> n.cache_addr]

\* While a service routine runs, the transport remembers its caller.
CallerRemembered ==
    st = "dispatch" => /\ su_xid = call.xid
                       /\ xp_rtaddr = call.addr
                       /\ su_cache => uc_proc = call.proc

\* Every cached buffer holds a reply to the request the node is filed under.
CachedRepliesFiled ==
    (st # "none" /\ su_cache) =>
        \A s \in Occupied :
            /\ buf[node[uc_fifo[s]].cache_reply] \in Replies
            /\ buf[node[uc_fifo[s]].cache_reply].req = KeyOf(node[uc_fifo[s]])

ReplyInv == CallerRemembered /\ CachedRepliesFiled /\ RepliesAnswerTheirRequest

\* What cache_set files the reply under is the request of the running routine.
LEMMA CacheSetFiles ==
  ASSUME StructInv, ReplyInv, st = "dispatch", su_cache, CacheSet,
         buf' = [buf EXCEPT ![xdrs] = Result],
         st' = "replied", su_cache' = su_cache, StructInv'
  PROVE  CachedRepliesFiled'
<1>1. /\ \A s \in Slots : uc_fifo[s] \in Nodes \cup {NoNode}
      /\ \A m \in Nodes : node[m] \in CacheNodes
      /\ xdrs = rpc_buffer /\ rpc_buffer \in Bufs /\ buf \in [Bufs -> BufContents]
      /\ uc_nextvictim \in Slots
      /\ \A s \in Occupied : /\ s \in Slots /\ uc_fifo[s] \in Nodes
                             /\ node[uc_fifo[s]].cache_reply \in Bufs
                             /\ node[uc_fifo[s]].cache_reply # rpc_buffer
  BY DEF StructInv, TypeOK, BufferOwnership, Occupied, InUse, CacheNodes
<1>2. Result \in Replies /\ Result.req = call
  BY DEF StructInv, TypeOK, Dispatching, Result, Replies
<1>3. call = [xid |-> su_xid, proc |-> uc_proc, addr |-> xp_rtaddr]
  BY DEF StructInv, TypeOK, ReplyInv, CallerRemembered, Requests
<1>4. buf'[rpc_buffer] = Result /\ \A b \in Bufs : b # rpc_buffer => buf'[b] = buf[b]
  BY <1>1
<1>5. \A s \in Occupied : /\ buf'[node[uc_fifo[s]].cache_reply] \in Replies
                          /\ buf'[node[uc_fifo[s]].cache_reply].req = KeyOf(node[uc_fifo[s]])
  BY <1>1, <1>4 DEF ReplyInv, CachedRepliesFiled
<1>6. CASE NothingCached
  <2>1. Occupied' = Occupied /\ uc_fifo' = uc_fifo /\ node' = node
    BY <1>6 DEF NothingCached, Occupied
  <2> QED BY <1>5, <2>1 DEF CachedRepliesFiled
<1>7. ASSUME NEW n \in Nodes, NEW newbuf, NEW entries, StoreAway(n, newbuf, entries)
      PROVE CachedRepliesFiled'
  <2>1. \A s \in Slots : uc_fifo'[s] = IF s = uc_nextvictim THEN n ELSE uc_fifo[s]
    BY <1>1, <1>7 DEF StoreAway, StoreAwayAt, StructInv, TypeOK
  <2>2. \A m \in Nodes : m # n => node'[m] = node[m]
    BY <1>7 DEF StoreAway, StoreAwayAt, StructInv, TypeOK
  <2>3. node'[n] = [cache_xid |-> su_xid, cache_proc |-> uc_proc,
                    cache_addr |-> xp_rtaddr, cache_reply |-> rpc_buffer]
    BY <1>7 DEF StoreAway, StoreAwayAt, StructInv, TypeOK
  <2>4. ASSUME NEW s \in Occupied'
        PROVE  /\ buf'[node'[uc_fifo'[s]].cache_reply] \in Replies
               /\ buf'[node'[uc_fifo'[s]].cache_reply].req = KeyOf(node'[uc_fifo'[s]])
    <3>1. s \in Slots /\ uc_fifo'[s] # NoNode
      BY DEF Occupied
    <3>2. CASE uc_fifo'[s] = n
      BY <1>2, <1>3, <1>4, <2>3, <3>2 DEF KeyOf
    <3>3. CASE uc_fifo'[s] # n
      <4>1. s \in Occupied /\ uc_fifo'[s] = uc_fifo[s] /\ uc_fifo[s] \in Nodes
        BY <1>1, <2>1, <3>1, <3>3 DEF Occupied
      <4>2. node'[uc_fifo'[s]] = node[uc_fifo[s]]
        BY <2>2, <3>3, <4>1
      <4> QED BY <1>5, <4>1, <4>2
    <3> QED BY <3>2, <3>3
  <2> QED BY <2>4 DEF CachedRepliesFiled
<1>8. CASE uc_fifo[uc_nextvictim] # NoNode /\ ReuseVictim(uc_fifo[uc_nextvictim])
  <2>1. uc_fifo[uc_nextvictim] \in Nodes
    BY <1>1, <1>8
  <2> QED BY <1>7, <1>8, <2>1 DEF ReuseVictim
<1> QED BY <1>6, <1>7, <1>8 DEF CacheSet

\* If the cache is only enabled between dispatches, every step keeps what is sent
\* and what is cached in line with the requests.
LEMMA NextReply ==
  ASSUME ~EnableDuringDispatch, StructInv, StructInv', ReplyInv, [Next]_vars
  PROVE  ReplyInv'
<1> USE DEF ReplyInv
<1>1. CASE Create
  BY <1>1 DEF Create, histVars, CallerRemembered, CachedRepliesFiled, RepliesAnswerTheirRequest
<1>2. CASE Destroy
  BY <1>2 DEF Destroy, CallerRemembered, CachedRepliesFiled, RepliesAnswerTheirRequest
<1>3. CASE EnableCache
  <2>1. Occupied' = {}
    BY <1>3 DEF EnableCache, Occupied
  <2> QED BY <1>3, <2>1
          DEF EnableCache, xprtVars, CallerRemembered, CachedRepliesFiled, RepliesAnswerTheirRequest
<1>4. ASSUME buf' = [buf EXCEPT ![rpc_buffer] = Junk],
             UNCHANGED <<su_cache, uc_entries, uc_fifo, node>>, st = "idle"
      PROVE  CachedRepliesFiled'
  <2>1. su_cache => \A s \in Occupied :
              buf'[node[uc_fifo[s]].cache_reply] = buf[node[uc_fifo[s]].cache_reply]
    BY <1>4 DEF StructInv, TypeOK, BufferOwnership, InUse, Occupied, CacheNodes
  <2>2. Occupied' = Occupied
    BY <1>4 DEF Occupied
  <2> QED BY <1>4, <2>1, <2>2 DEF CachedRepliesFiled
<1>5. CASE RecvBad
  BY <1>4, <1>5 DEF RecvBad, cacheVars, CallerRemembered, RepliesAnswerTheirRequest
<1>6. ASSUME NEW r \in Requests, RecvReplay(r) PROVE ReplyInv'
  <2>1. CachedRepliesFiled'
    BY <1>4, <1>6 DEF RecvReplay, Receive
  <2>2. PICK n \in Nodes : CacheGet(r, n) /\ out' = [req |-> r, reply |-> buf'[node[n].cache_reply]]
    BY <1>6 DEF RecvReplay
  <2>3. CACHE_LOC(r.xid) \in Buckets
    BY LocInTable DEF Requests
  <2>4. OnChain(n, uc_entries[CACHE_LOC(r.xid)]) /\ Matches(n, r)
    BY <2>2, <2>3 DEF CacheGet, Hits, OnChain, StructInv, TypeOK
  <2>5. PICK s \in Occupied : uc_fifo[s] = n
    BY <1>6, <2>3, <2>4 DEF RecvReplay, Receive, StructInv, FifoMatchesTable
  <2>6. Occupied' = Occupied /\ uc_fifo' = uc_fifo /\ node' = node /\ su_cache' /\ st' = "idle"
    BY <1>6 DEF RecvReplay, Receive, Occupied
  <2>7. buf'[node[n].cache_reply] \in Replies /\ buf'[node[n].cache_reply].req = KeyOf(node[n])
    BY <2>1, <2>5, <2>6 DEF CachedRepliesFiled
  <2>8. KeyOf(node[n]) = r
    BY <2>4 DEF KeyOf, Matches, Requests
  <2>9. RepliesAnswerTheirRequest'
    BY <2>2, <2>7, <2>8 DEF RepliesAnswerTheirRequest
  <2> QED BY <2>1, <2>6, <2>9 DEF CallerRemembered
<1>7. ASSUME NEW r \in Requests, RecvDispatch(r) PROVE ReplyInv'
  BY <1>4, <1>7 DEF RecvDispatch, Receive, CallerRemembered, RepliesAnswerTheirRequest
<1>8. CASE ReplySent
  <2>1. CallerRemembered'
    BY <1>8 DEF ReplySent, CallerRemembered
  <2>2. RepliesAnswerTheirRequest'
    <3>1. buf'[rpc_buffer] = Result
      BY <1>8 DEF ReplySent, StructInv, TypeOK, BufferOwnership
    <3>2. Result \in Replies /\ Result.req = call
      BY <1>8 DEF ReplySent, StructInv, TypeOK, Dispatching, Result, Replies
    <3> QED BY <1>8, <3>1, <3>2 DEF ReplySent, RepliesAnswerTheirRequest
  <2>3. CASE su_cache
    <3>1. CachedRepliesFiled'
      BY <1>8, <2>3, CacheSetFiles DEF ReplySent
    <3> QED BY <2>1, <2>2, <3>1
  <2>4. CASE ~su_cache
    BY <1>8, <2>1, <2>2, <2>4 DEF ReplySent, CachedRepliesFiled
  <2> QED BY <2>3, <2>4
<1>9. CASE ReplyFails
  <2>1. PICK c \in {Junk, Result} : buf' = [buf EXCEPT ![xdrs] = c]
    BY <1>9 DEF ReplyFails
  <2>2. su_cache => \A s \in Occupied :
              buf'[node[uc_fifo[s]].cache_reply] = buf[node[uc_fifo[s]].cache_reply]
    BY <1>9, <2>1 DEF ReplyFails, StructInv, TypeOK, BufferOwnership, InUse, Occupied, CacheNodes
  <2>3. Occupied' = Occupied /\ UNCHANGED <<uc_fifo, node, su_cache>>
    BY <1>9 DEF ReplyFails, cacheVars, Occupied
  <2>4. CachedRepliesFiled'
    BY <1>9, <2>2, <2>3 DEF ReplyFails, CachedRepliesFiled
  <2> QED BY <1>9, <2>4 DEF ReplyFails, cacheVars, CallerRemembered, RepliesAnswerTheirRequest
<1>10. CASE Return
  <2>1. CachedRepliesFiled'
    BY <1>10 DEF Return, cacheVars, CachedRepliesFiled, Occupied
  <2> QED BY <1>10, <2>1 DEF Return, CallerRemembered, RepliesAnswerTheirRequest
<1>11. CASE UNCHANGED vars
  BY <1>11 DEF vars, xprtVars, cacheVars, histVars, CallerRemembered, CachedRepliesFiled,
               RepliesAnswerTheirRequest, Occupied
<1> QED BY <1>1, <1>2, <1>3, <1>5, <1>6, <1>7, <1>8, <1>9, <1>10, <1>11 DEF Next

\* Every datagram the server sends, fresh or out of the cache, is a reply to the
\* request that made it send, provided svc_dg_enablecache is not called inside a
\* dispatch (the saved triple of cache_get would not be the caller's).
THEOREM RepliesCorrect ==
  ASSUME ~EnableDuringDispatch
  PROVE  Spec => []RepliesAnswerTheirRequest
<1>1. Init => ReplyInv
  BY DEF Init, ReplyInv, CallerRemembered, CachedRepliesFiled, RepliesAnswerTheirRequest
<1>2. StructInv /\ StructInv' /\ ReplyInv /\ [Next]_vars => ReplyInv'
  BY NextReply
<1>3. ReplyInv => RepliesAnswerTheirRequest
  BY DEF ReplyInv
<1> QED BY InitStruct, NextStruct, <1>1, <1>2, <1>3, PTL DEF Spec
-----------------------------------------------------------------------------
(* What is executed again. *)

\* The quotient and the remainder determine each other.
LEMMA RemainderUnique ==
  ASSUME NEW q \in Int, NEW r \in 0 .. (CacheSize - 1)
  PROVE  (CacheSize * q + r) % CacheSize = r
<1> DEFINE n == CacheSize * q + r
           d == n \div CacheSize
           m == n % CacheSize
<1>1. CacheSize \in Nat \ {0} /\ n \in Int
  BY CacheSizeAssumption
<1>2. d \in Int /\ m \in 0 .. (CacheSize - 1) /\ n = CacheSize * d + m
  <2> HIDE DEF n
  <2> QED BY <1>1
<1>3. CacheSize * (q - d) = m - r
  <2> HIDE DEF d, m
  <2> QED BY <1>1, <1>2
<1> HIDE DEF n, d, m
<1>4. CASE q - d <= -1
  <2>1. CacheSize * (q - d) <= -CacheSize
    BY <1>1, <1>2, <1>4
  <2> QED BY <1>1, <1>2, <1>3, <2>1
<1>5. CASE q - d >= 1
  <2>1. CacheSize * (q - d) >= CacheSize
    BY <1>1, <1>2, <1>5
  <2> QED BY <1>1, <1>2, <1>3, <2>1
<1>6. CASE q - d = 0
  <2>1. m = r
    BY <1>1, <1>2, <1>3, <1>6
  <2> QED BY <2>1 DEF m, n
<1> QED BY <1>2, <1>4, <1>5, <1>6

\* A number is its quotient by the size of the ring and its slot.
LEMMA SlotOf ==
  ASSUME NEW a \in Nat
  PROVE  /\ a % CacheSize \in 0 .. (CacheSize - 1)
         /\ \E q \in Int : a = CacheSize * q + (a % CacheSize)
<1>1. /\ a \div CacheSize \in Int /\ a % CacheSize \in 0 .. (CacheSize - 1)
      /\ a = CacheSize * (a \div CacheSize) + (a % CacheSize)
  BY CacheSizeAssumption
<1> QED BY <1>1

\* Slots of the ring less than a lap apart differ.
LEMMA LessThanALap ==
  ASSUME NEW a \in Nat, NEW b \in Nat, a < b, b - a < CacheSize
  PROVE  a % CacheSize # b % CacheSize
<1>1. PICK q \in Int : a = CacheSize * q + (a % CacheSize)
  BY SlotOf
<1> DEFINE s == a % CacheSize
           e == s + (b - a)
<1>2. s \in 0 .. (CacheSize - 1) /\ CacheSize \in Nat \ {0} /\ a = CacheSize * q + s
  BY <1>1, SlotOf, CacheSizeAssumption
<1> HIDE DEF s
<1>3. b = CacheSize * q + e /\ e \in Int /\ e > s /\ e - CacheSize < s /\ e \in 1 .. (2 * CacheSize - 1)
  BY <1>2
<1>4. CASE e < CacheSize
  <2>1. b % CacheSize = e
    BY <1>2, <1>3, <1>4, RemainderUnique
  <2> QED BY <1>2, <1>3, <2>1 DEF s
<1>5. CASE e >= CacheSize
  <2>1. b = CacheSize * (q + 1) + (e - CacheSize) /\ e - CacheSize \in 0 .. (CacheSize - 1)
    BY <1>2, <1>3, <1>5
  <2>2. b % CacheSize = e - CacheSize
    BY <2>1, RemainderUnique
  <2> QED BY <1>2, <1>3, <2>2 DEF s
<1> QED BY <1>2, <1>3, <1>4, <1>5

\* The slot after that of a number is the slot of the next number.
LEMMA NextSlot ==
  ASSUME NEW a \in Nat
  PROVE  ((a % CacheSize) + 1) % CacheSize = (a + 1) % CacheSize
<1>1. PICK q \in Int : a = CacheSize * q + (a % CacheSize)
  BY SlotOf
<1> DEFINE s == a % CacheSize
<1>2. s \in 0 .. (CacheSize - 1) /\ CacheSize \in Nat \ {0} /\ a = CacheSize * q + s
  BY <1>1, SlotOf, CacheSizeAssumption
<1>3. (s + 1) % CacheSize = (a + 1) % CacheSize
  <2> HIDE DEF s
  <2>1. CASE s + 1 < CacheSize
    <3>1. s + 1 = CacheSize * 0 + (s + 1) /\ a + 1 = CacheSize * q + (s + 1)
          /\ s + 1 \in 0 .. (CacheSize - 1)
      BY <1>2, <2>1
    <3> QED BY <3>1, RemainderUnique
  <2>2. CASE s + 1 = CacheSize
    <3>1. s + 1 = CacheSize * 1 + 0 /\ a + 1 = CacheSize * (q + 1) + 0
          /\ 0 \in 0 .. (CacheSize - 1) /\ q + 1 \in Int
      BY <1>2, <2>2
    <3>2. (s + 1) % CacheSize = 0 /\ (a + 1) % CacheSize = 0
      BY <3>1, RemainderUnique
    <3> QED BY <3>2
  <2> QED BY <1>2, <2>1, <2>2
<1> QED BY <1>3

\* The fifo is a ring of the requests whose replies were cached: the last CacheSize
\* of them are each in the slot of their number, and the next goes into the slot of
\* the oldest.
RingHoldsServed ==
    IF st = "none" \/ ~su_cache THEN served = << >>
    ELSE /\ uc_nextvictim = Len(served) % CacheSize
         /\ \A k \in DOMAIN served : k > Len(served) - CacheSize =>
               /\ (k - 1) % CacheSize \in Occupied
               /\ KeyOf(node[uc_fifo[(k - 1) % CacheSize]]) = served[k]

\* Storing a reply puts the running request on the ring.
LEMMA StoreAwayTurnsRing ==
  ASSUME StructInv, ReplyInv, RingHoldsServed, st = "dispatch", su_cache,
         NEW n \in Nodes, NEW newbuf, NEW entries, StoreAway(n, newbuf, entries),
         \A s \in Occupied : uc_fifo[s] = n => s = uc_nextvictim,
         st' = "replied", su_cache' = su_cache
  PROVE  RingHoldsServed'
<1> DEFINE L == Len(served)
<1>1. /\ L \in Nat /\ served \in Seq(Requests) /\ call \in Requests
      /\ uc_nextvictim = L % CacheSize /\ uc_nextvictim \in Slots
      /\ \A s \in Slots : uc_fifo[s] \in Nodes \cup {NoNode}
      /\ n # NoNode /\ CacheSize \in Nat \ {0}
  <2>1. uc_nextvictim = L % CacheSize
    BY DEF RingHoldsServed
  <2>2. served \in Seq(Requests) /\ call \in Requests /\ uc_nextvictim \in Slots
        /\ uc_fifo \in [Slots -> Nodes \cup {NoNode}]
    BY DEF StructInv, TypeOK
  <2>3. L \in Nat
    BY <2>2
  <2> QED BY <2>1, <2>2, <2>3, NoNodeAssumption, CacheSizeAssumption
<1>2. served' = Append(served, call) /\ uc_nextvictim' = ((L % CacheSize) + 1) % CacheSize
  BY <1>1 DEF StoreAway, StoreAwayAt, NextVictim
<1>3. /\ Len(served') = L + 1 /\ DOMAIN served' = 1 .. (L + 1) /\ DOMAIN served = 1 .. L
      /\ served'[L + 1] = call
      /\ \A k \in 1 .. L : served'[k] = served[k]
  BY <1>1, <1>2
<1>4. uc_nextvictim' = Len(served') % CacheSize
  BY <1>1, <1>2, <1>3, NextSlot
<1>5. \A s \in Slots : uc_fifo'[s] = IF s = uc_nextvictim THEN n ELSE uc_fifo[s]
  BY DEF StoreAway, StoreAwayAt, StructInv, TypeOK
<1>6. KeyOf(node'[n]) = call /\ \A m \in Nodes : m # n => node'[m] = node[m]
  <2>1. node'[n] = [cache_xid |-> su_xid, cache_proc |-> uc_proc,
                    cache_addr |-> xp_rtaddr, cache_reply |-> rpc_buffer]
    BY DEF StoreAway, StoreAwayAt, StructInv, TypeOK
  <2>2. call = [xid |-> su_xid, proc |-> uc_proc, addr |-> xp_rtaddr]
    BY DEF StructInv, TypeOK, ReplyInv, CallerRemembered, Requests
  <2> QED BY <2>1, <2>2 DEF KeyOf, StoreAway, StoreAwayAt, StructInv, TypeOK
<1>7. ASSUME NEW k \in DOMAIN served', k > Len(served') - CacheSize
      PROVE  /\ (k - 1) % CacheSize \in Occupied'
             /\ KeyOf(node'[uc_fifo'[(k - 1) % CacheSize]]) = served'[k]
  <2>1. CASE k = L + 1
    BY <1>1, <1>3, <1>5, <1>6, <2>1 DEF Occupied
  <2>2. CASE k # L + 1
    <3> DEFINE s == (k - 1) % CacheSize
    <3>1. k \in 1 .. L /\ k > L - CacheSize /\ k - 1 \in Nat /\ k - 1 < L
          /\ L - (k - 1) < CacheSize
      BY <1>1, <1>3, <1>7, <2>2
    <3>2. s \in Occupied /\ KeyOf(node[uc_fifo[s]]) = served[k]
      BY <1>3, <3>1 DEF RingHoldsServed
    <3>3. s # uc_nextvictim
      BY <1>1, <3>1, LessThanALap
    <3> HIDE DEF s
    <3>4. s \in Slots /\ uc_fifo[s] \in Nodes /\ uc_fifo[s] # n /\ uc_fifo'[s] = uc_fifo[s]
      BY <1>1, <1>5, <3>2, <3>3 DEF Occupied
    <3>5. s \in Occupied' /\ KeyOf(node'[uc_fifo'[s]]) = served'[k]
      BY <1>3, <1>6, <3>1, <3>2, <3>4 DEF Occupied
    <3> QED BY <3>5 DEF s
  <2> QED BY <2>1, <2>2
<1> QED BY <1>4, <1>7 DEF RingHoldsServed

\* Caching a reply, or giving up, keeps the ring in line with the history.
LEMMA CacheSetTurnsRing ==
  ASSUME StructInv, ReplyInv, RingHoldsServed, st = "dispatch", su_cache, CacheSet,
         st' = "replied", su_cache' = su_cache
  PROVE  RingHoldsServed'
<1>1. \A s \in Slots : uc_fifo[s] \in Nodes \cup {NoNode}
  BY DEF StructInv, TypeOK
<1>2. uc_nextvictim \in Slots
  BY DEF StructInv, TypeOK
<1>3. CASE NothingCached
  <2>1. Occupied' = Occupied
    BY <1>3 DEF NothingCached, Occupied
  <2> QED BY <1>3, <2>1 DEF NothingCached, RingHoldsServed
<1>4. CASE uc_fifo[uc_nextvictim] # NoNode /\ ReuseVictim(uc_fifo[uc_nextvictim])
  <2>1. /\ uc_fifo[uc_nextvictim] \in Nodes /\ uc_nextvictim \in Occupied
        /\ \A s \in Occupied : uc_fifo[s] = uc_fifo[uc_nextvictim] => s = uc_nextvictim
    BY <1>1, <1>2, <1>4 DEF Occupied, StructInv, FifoMatchesTable
  <2> QED BY <1>4, <2>1, StoreAwayTurnsRing DEF ReuseVictim
<1>5. ASSUME NEW n \in Nodes \ heap, NEW newbuf, StoreAway(n, newbuf, uc_entries)
      PROVE  RingHoldsServed'
  <2>1. \A s \in Occupied : uc_fifo[s] # n
    BY DEF StructInv, BufferOwnership
  <2> QED BY <1>5, <2>1, StoreAwayTurnsRing
<1> QED BY <1>3, <1>4, <1>5 DEF CacheSet

\* Every step keeps the ring in line with the history.
LEMMA NextRing ==
  ASSUME ~EnableDuringDispatch, StructInv, ReplyInv, RingHoldsServed, [Next]_vars
  PROVE  RingHoldsServed'
<1> USE DEF RingHoldsServed
<1>1. CASE Create
  BY <1>1 DEF Create, histVars
<1>2. CASE Destroy
  BY <1>2 DEF Destroy
<1>3. CASE EnableCache
  BY <1>3, CacheSizeAssumption DEF EnableCache, xprtVars
<1>4. ASSUME UNCHANGED <<su_cache, uc_fifo, uc_nextvictim, node, served>>,
             st # "none", st' # "none"
      PROVE  RingHoldsServed'
  <2>1. Occupied' = Occupied
    BY <1>4 DEF Occupied
  <2> QED BY <1>4, <2>1
<1>5. CASE RecvBad
  BY <1>4, <1>5 DEF RecvBad, cacheVars
<1>6. ASSUME NEW r \in Requests, RecvReplay(r) \/ RecvDispatch(r) PROVE RingHoldsServed'
  BY <1>4, <1>6 DEF RecvReplay, RecvDispatch, Receive
<1>7. CASE ReplySent
  BY <1>4, <1>7, CacheSetTurnsRing DEF ReplySent, NothingCached
<1>8. CASE ReplyFails
  BY <1>4, <1>8 DEF ReplyFails, cacheVars
<1>9. CASE Return
  BY <1>4, <1>9 DEF Return, cacheVars
<1>10. CASE UNCHANGED vars
  <2>1. Occupied' = Occupied
    BY <1>10 DEF vars, cacheVars, Occupied
  <2> QED BY <1>10, <2>1 DEF vars, xprtVars, cacheVars, histVars
<1> QED BY <1>1, <1>2, <1>3, <1>5, <1>6, <1>7, <1>8, <1>9, <1>10 DEF Next

\* While the cache is on, cache_get finds whatever is on the ring.
LEMMA RecentIsHit ==
  ASSUME StructInv, RingHoldsServed, st # "none", su_cache,
         NEW k \in DOMAIN served, k > Len(served) - CacheSize
  PROVE  Hits(served[k]) # {}
<1> DEFINE s == (k - 1) % CacheSize
           n == uc_fifo[s]
           chain == uc_entries[CACHE_LOC(served[k].xid)]
<1>1. s \in Occupied /\ KeyOf(node[n]) = served[k]
  BY DEF RingHoldsServed
<1>2. n \in Nodes /\ node[n].cache_xid \in Xids /\ served[k] \in Requests
  BY <1>1 DEF StructInv, TypeOK, Occupied, CacheNodes
<1>3. OnChain(n, chain) /\ Matches(n, served[k])
  BY <1>1 DEF StructInv, FifoMatchesTable, KeyOf, Matches
<1>4. chain \in Seq(Nodes)
  BY <1>2, LocInTable DEF StructInv, TypeOK, Requests
<1> QED BY <1>3, <1>4 DEF OnChain, Hits

\* With the cache enabled between dispatches, a request whose reply is among the last
\* CacheSize cached is answered again, never executed again (svc_dg_recv, cache_get).
THEOREM RecentNotReexecuted ==
  ASSUME ~EnableDuringDispatch
  PROVE  Spec => NoRecentReexecution
<1> DEFINE Inv == StructInv /\ ReplyInv /\ RingHoldsServed
           Recent == (execs' > execs /\ su_cache) =>
                        \A k \in DOMAIN served :
                            k > Len(served) - CacheSize => served[k] # call'
<1>1. Init => Inv
  <2>1. Init => ReplyInv
    BY DEF Init, ReplyInv, CallerRemembered, CachedRepliesFiled, RepliesAnswerTheirRequest
  <2>2. Init => RingHoldsServed
    BY DEF Init, RingHoldsServed
  <2> QED BY <2>1, <2>2, InitStruct
<1>2. Inv /\ [Next]_vars => Inv'
  BY NextStruct, NextReply, NextRing
<1>3. Inv /\ [Next]_vars => [Recent]_vars
  <2> SUFFICES ASSUME Inv, Next, execs' > execs, su_cache,
                      NEW k \in DOMAIN served, k > Len(served) - CacheSize,
                      served[k] = call'
               PROVE  FALSE
    OBVIOUS
  <2>1. execs' # execs
    BY DEF StructInv, TypeOK
  <2>2. PICK r \in Requests : RecvDispatch(r)
    <3>1. ASSUME NEW r \in Requests, RecvReplay(r) PROVE FALSE
      BY <2>1, <3>1 DEF RecvReplay
    <3> QED BY <2>1, <3>1 DEF Next, Create, Destroy, EnableCache, RecvBad, ReplySent,
                              ReplyFails, Return, histVars
  <2>3. Hits(served[k]) = {} /\ st # "none"
    BY <2>2 DEF RecvDispatch, Receive
  <2> QED BY <2>3, RecentIsHit
<1> QED BY <1>1, <1>2, <1>3, PTL DEF Spec, NoRecentReexecution
-----------------------------------------------------------------------------
(* The inductive invariant; of the server it needs StructInv and ReplyInv. *)

ClientType ==
    /\ cpc \in [Addrs -> {"idle", "encode", "send", "wait"}]
    /\ proc \in [Addrs -> Procs]
    /\ cu_xid \in [Addrs -> Nat] /\ ncalls \in [Addrs -> 0 .. MaxCalls]
    /\ nrefreshes \in [Addrs -> 0 .. NRefreshes]
    /\ status \in [Addrs -> {"none", "success", "failure"}]

TimerType ==
    /\ timeout \in [Addrs -> Nat] /\ time_waited \in [Addrs -> Nat]
    /\ next_sendtime \in [Addrs -> Nat] /\ retransmit_time \in [Addrs -> Nat]
    /\ elapsed \in [Addrs -> Nat] /\ deadline \in [Addrs -> Nat]

\* A call uses one transaction id and one more for each refresh.
XidsOf(c) == ncalls[c] * (NRefreshes + 1)
XidInv ==
    \A c \in Addrs :
        /\ cu_xid[c] <= XidsOf(c)
        /\ cpc[c] = "encode" => cu_xid[c] + 1 + nrefreshes[c] <= XidsOf(c)
        /\ cpc[c] \in {"send", "wait"} => cu_xid[c] + nrefreshes[c] <= XidsOf(c)

\* Until credentials are refreshed, the clock was read when a call is sent.
TimeInv ==
    \A c \in Addrs : nrefreshes[c] = NRefreshes =>
        /\ cpc[c] \in {"encode", "send"} =>
              elapsed[c] = time_waited[c] /\ elapsed[c] <= timeout[c]
        /\ cpc[c] = "wait" => deadline[c] <= timeout[c]

\* Which requests there have been, and of which calls.
CallsInv ==
    /\ \A r \in DOMAIN callOf : /\ r \in Requests
                                /\ r.xid \in 1 .. cu_xid[r.addr]
                                /\ callOf[r] \in 1 .. ncalls[r.addr]
    /\ \A q, r \in DOMAIN callOf : q.addr = r.addr /\ q.xid = r.xid => q = r
    /\ \A c \in Addrs : cpc[c] \in {"send", "wait"} =>
          Request(c) \in DOMAIN callOf /\ callOf[Request(c)] = ncalls[c]

\* What travels and what is stored comes from requests that were sent, and replies
\* from executions.
NetInv ==
    /\ net \subseteq Calls \cup ReplyMsgs
    /\ \A m \in net : m.kind = "call" => m.req \in DOMAIN callOf
    /\ \A m \in net : m.kind = "reply" => /\ m.body \in Replies /\ m.body.req \in executed
                                          /\ m.body.req.addr = m.to
ServerInv ==
    /\ executed \subseteq DOMAIN callOf
    /\ st = "dispatch" => call \in executed
    /\ \A b \in Bufs : buf[b] # Junk => buf[b].req \in executed
    /\ out # NoOut => out.reply.req \in executed

AcceptInv == DOMAIN accepted = Addrs /\ AcceptedReplyIsOfThisCall

IInv == /\ StructInv /\ ReplyInv /\ ClientType /\ TimerType /\ XidInv /\ TimeInv
        /\ CallsInv /\ NetInv /\ ServerInv /\ AcceptInv

LEMMA JunkIsNoReply == Junk \notin Replies
BY DEF Junk, Replies

\* The steps of the client, with the two ways into the end of the waiting loop.
Waited(c) == cpc[c] = "wait" /\ CheckTime(c)
LEMMA StepCases ==
    ASSUME [DgNext]_dgVars
    PROVE  \/ UNCHANGED dgVars \/ Server \/ Tick
           \/ \E c \in Addrs : \/ CallStart(c) \/ Encode(c) \/ Send(c) \/ Waited(c)
                               \/ RecvError(c) \/ RecvReply(c)
BY DEF DgNext, Client, PollTimeout, RecvOther, Waited

\* The server takes the steps of DupReqCache, on requests that were sent.
LEMMA ServerSteps ==
    ASSUME Server, NetInv, CallsInv
    PROVE  Next
<1>1. \A m \in net : m.kind = "call" => m.req \in Requests
  BY DEF NetInv, CallsInv
<1> QED
  BY <1>1 DEF Server, Next

LEMMA ServerStruct ==
    ASSUME StructInv, ReplyInv, NetInv, CallsInv, ~EnableDuringDispatch, [DgNext]_dgVars
    PROVE  StructInv' /\ ReplyInv'
<1>1. [Next]_vars
  BY StepCases, ServerSteps DEF dgVars, ServerIdle, Tick, CallStart, Encode, Send, Waited,
     CheckTime, RecvError, RecvReply
<1>2. StructInv'
  BY <1>1, NextStruct
<1> QED
  BY <1>1, <1>2, NextReply

LEMMA DgInitIInv == DgInit => IInv
<1> SUFFICES ASSUME DgInit PROVE IInv
  OBVIOUS
<1>1. Init /\ StructInv
  BY InitStruct DEF DgInit
<1>2. ReplyInv
  BY <1>1 DEF Init, ReplyInv, CallerRemembered, CachedRepliesFiled, RepliesAnswerTheirRequest
<1>3. AnyRequest.proc \in Procs
  BY RequestsNotEmpty DEF Requests
<1>4. ClientType /\ TimerType /\ XidInv /\ TimeInv
  BY <1>3, ClientAssumption DEF DgInit, ClientType, TimerType, XidInv, TimeInv, XidsOf
<1>5. DOMAIN callOf = {}
  BY DEF DgInit
<1>6. CallsInv /\ NetInv
  BY <1>5 DEF DgInit, CallsInv, NetInv
<1>7. ServerInv
  BY <1>1 DEF DgInit, Init, ServerInv
<1>8. AcceptInv
  BY DEF DgInit, AcceptInv, AcceptedReplyIsOfThisCall
<1> QED
  BY <1>1, <1>2, <1>4, <1>6, <1>7, <1>8 DEF IInv

LEMMA ClientTypeStep ==
    ASSUME ClientType, [DgNext]_dgVars
    PROVE  ClientType'
<1>0. MaxCalls \in Nat /\ NRefreshes \in Nat
  BY ClientAssumption
<1> USE DEF ClientType
<1>1. CASE UNCHANGED dgVars
  BY <1>0, <1>1 DEF dgVars, clientVars, timers, netHist
<1>2. CASE Server
  BY <1>0, <1>2 DEF Server, clientVars, timers
<1>3. CASE Tick
  BY <1>0, <1>3 DEF Tick
<1>4. ASSUME NEW c \in Addrs, CallStart(c) PROVE ClientType'
  <2>1. nrefreshes' \in [Addrs -> 0 .. NRefreshes] /\ ncalls' \in [Addrs -> 0 .. MaxCalls]
    BY <1>0, <1>4 DEF CallStart
  <2>2. PICK p \in Procs : proc' = [proc EXCEPT ![c] = p]
    BY <1>4 DEF CallStart
  <2> QED
    BY <1>0, <1>4, <2>1, <2>2 DEF CallStart
<1>5. ASSUME NEW c \in Addrs, Encode(c) PROVE ClientType'
  <2>1. cu_xid' \in [Addrs -> Nat]
    BY <1>5 DEF Encode, NextXid
  <2> QED
    BY <1>0, <1>5, <2>1 DEF Encode, Finish
<1>6. ASSUME NEW c \in Addrs, Send(c) PROVE ClientType'
  BY <1>0, <1>6 DEF Send, Finish, timers
<1>7. ASSUME NEW c \in Addrs, Waited(c) PROVE ClientType'
  BY <1>0, <1>7 DEF Waited, CheckTime, Finish, timers
<1>8. ASSUME NEW c \in Addrs, RecvError(c) PROVE ClientType'
  BY <1>0, <1>8 DEF RecvError, Finish, timers
<1>9. ASSUME NEW c \in Addrs, RecvReply(c) PROVE ClientType'
  <2>1. \/ nrefreshes' = nrefreshes
        \/ nrefreshes[c] > 0 /\ nrefreshes' = [nrefreshes EXCEPT ![c] = nrefreshes[c] - 1]
    BY <1>9 DEF RecvReply, MayRefresh
  <2>2. nrefreshes' \in [Addrs -> 0 .. NRefreshes]
    BY <1>0, <2>1
  <2> QED
    BY <1>0, <1>9, <2>2 DEF RecvReply, Finish, timers
<1> QED
  BY StepCases, <1>1, <1>2, <1>3, <1>4, <1>5, <1>6, <1>7, <1>8, <1>9

LEMMA TimerStep ==
    ASSUME TimerType, [DgNext]_dgVars
    PROVE  TimerType'
<1>0. Timeouts \subseteq Nat /\ CuWait \in Nat /\ MaxBackoff \in Nat
  BY ClientAssumption
<1> USE DEF TimerType
<1>p. \A c \in Addrs, w \in Nat : PollEnd(c, w) \in Nat
  BY DEF PollEnd
<1>b. \A c \in Addrs : Backoff(c) \in Nat
  BY <1>0 DEF Backoff
<1>1. CASE UNCHANGED dgVars
  BY <1>0, <1>1 DEF dgVars, clientVars, timers, netHist
<1>2. CASE Server
  BY <1>0, <1>2 DEF Server, clientVars, timers
<1>3. CASE Tick
  BY <1>0, <1>3 DEF Tick
<1>4. ASSUME NEW c \in Addrs, CallStart(c) PROVE TimerType'
  <2>1. PICK w \in Timeouts : timeout' = [timeout EXCEPT ![c] = w]
    BY <1>4 DEF CallStart
  <2> QED
    BY <1>0, <1>4, <2>1 DEF CallStart
<1>5. ASSUME NEW c \in Addrs, Encode(c) PROVE TimerType'
  BY <1>0, <1>5 DEF Encode, Finish, timers
<1>6. ASSUME NEW c \in Addrs, Send(c) PROVE TimerType'
  <2>1. deadline' = deadline \/ deadline' = [deadline EXCEPT ![c] = PollEnd(c, time_waited[c])]
    BY <1>6 DEF Send
  <2>2. deadline' \in [Addrs -> Nat]
    BY <1>p, <2>1
  <2> QED
    BY <1>6, <2>2 DEF Send
<1>7. ASSUME NEW c \in Addrs, Waited(c) PROVE TimerType'
  <2>1. /\ time_waited' = [time_waited EXCEPT ![c] = elapsed[c]]
        /\ timeout' = timeout /\ elapsed' = elapsed
        /\ deadline' = deadline \/ deadline' = [deadline EXCEPT ![c] = PollEnd(c, elapsed[c])]
        /\ retransmit_time' = retransmit_time
              \/ retransmit_time' = [retransmit_time EXCEPT ![c] = Backoff(c)]
        /\ next_sendtime' = next_sendtime
              \/ next_sendtime' = [next_sendtime EXCEPT ![c] = next_sendtime[c] + Backoff(c)]
    BY <1>7 DEF Waited, CheckTime
  <2>2. PollEnd(c, elapsed[c]) \in Nat /\ Backoff(c) \in Nat
    BY <1>p, <1>b
  <2>3. next_sendtime[c] + Backoff(c) \in Nat
    BY <2>2
  <2>4. deadline' \in [Addrs -> Nat] /\ retransmit_time' \in [Addrs -> Nat]
    BY <2>1, <2>2
  <2>5. next_sendtime' \in [Addrs -> Nat]
    BY <2>1, <2>3
  <2> QED
    BY <2>1, <2>4, <2>5
<1>8. ASSUME NEW c \in Addrs, RecvError(c) PROVE TimerType'
  BY <1>0, <1>8 DEF RecvError, Finish, timers
<1>9. ASSUME NEW c \in Addrs, RecvReply(c) PROVE TimerType'
  BY <1>0, <1>9 DEF RecvReply, Finish, timers
<1> QED
  BY StepCases, <1>1, <1>2, <1>3, <1>4, <1>5, <1>6, <1>7, <1>8, <1>9

LEMMA XidStep ==
    ASSUME ClientType, XidInv, [DgNext]_dgVars
    PROVE  XidInv'
<1>0. MaxCalls \in Nat /\ NRefreshes \in Nat /\ ClientType /\ XidInv
  BY ClientAssumption
<1> USE DEF XidInv, ClientType
<1>1. CASE UNCHANGED dgVars
  <2> SUFFICES ASSUME NEW e \in Addrs
               PROVE  /\ cu_xid'[e] <= XidsOf(e)'
                      /\ cpc'[e] = "encode" => cu_xid'[e] + 1 + nrefreshes'[e] <= XidsOf(e)'
                      /\ cpc'[e] \in {"send", "wait"} => cu_xid'[e] + nrefreshes'[e] <= XidsOf(e)'
    OBVIOUS
  <2>1. XidsOf(e) \in Nat /\ XidsOf(e)' = XidsOf(e)
    BY <1>0, <1>1 DEF XidsOf, dgVars, clientVars, netHist, timers
  <2> QED
    BY <1>0, <1>1, <2>1 DEF dgVars, clientVars, netHist, timers
<1>2. CASE Server
  <2> SUFFICES ASSUME NEW e \in Addrs
               PROVE  /\ cu_xid'[e] <= XidsOf(e)'
                      /\ cpc'[e] = "encode" => cu_xid'[e] + 1 + nrefreshes'[e] <= XidsOf(e)'
                      /\ cpc'[e] \in {"send", "wait"} => cu_xid'[e] + nrefreshes'[e] <= XidsOf(e)'
    OBVIOUS
  <2>1. XidsOf(e) \in Nat /\ XidsOf(e)' = XidsOf(e)
    BY <1>0, <1>2 DEF XidsOf, Server, clientVars, timers
  <2> QED
    BY <1>0, <1>2, <2>1 DEF Server, clientVars, timers
<1>3. CASE Tick
  <2> SUFFICES ASSUME NEW e \in Addrs
               PROVE  /\ cu_xid'[e] <= XidsOf(e)'
                      /\ cpc'[e] = "encode" => cu_xid'[e] + 1 + nrefreshes'[e] <= XidsOf(e)'
                      /\ cpc'[e] \in {"send", "wait"} => cu_xid'[e] + nrefreshes'[e] <= XidsOf(e)'
    OBVIOUS
  <2>1. XidsOf(e) \in Nat /\ XidsOf(e)' = XidsOf(e)
    BY <1>0, <1>3 DEF XidsOf, Tick
  <2> QED
    BY <1>0, <1>3, <2>1 DEF Tick
<1>4. ASSUME NEW c \in Addrs, CallStart(c) PROVE XidInv'
  <2> SUFFICES ASSUME NEW e \in Addrs
               PROVE  /\ cu_xid'[e] <= XidsOf(e)'
                      /\ cpc'[e] = "encode" => cu_xid'[e] + 1 + nrefreshes'[e] <= XidsOf(e)'
                      /\ cpc'[e] \in {"send", "wait"} => cu_xid'[e] + nrefreshes'[e] <= XidsOf(e)'
    OBVIOUS
  <2>1. XidsOf(e) \in Nat
    BY <1>0 DEF XidsOf
  <2>2. XidsOf(e)' = IF e = c THEN XidsOf(e) + NRefreshes + 1 ELSE XidsOf(e)
    <3>1. ncalls'[e] = IF e = c THEN ncalls[e] + 1 ELSE ncalls[e]
      BY <1>0, <1>4 DEF CallStart
    <3>2. (ncalls[e] + 1) * (NRefreshes + 1) = ncalls[e] * (NRefreshes + 1) + (NRefreshes + 1)
      <4>1. \A m, k \in Nat : (m + 1) * k = m * k + k
        OBVIOUS
      <4>2. ncalls[e] \in Nat /\ NRefreshes + 1 \in Nat
        BY <1>0
      <4> QED
        BY <4>1, <4>2
    <3> QED
      BY <1>0, <3>1, <3>2 DEF XidsOf
  <2>3. /\ cu_xid' = cu_xid /\ cpc' = [cpc EXCEPT ![c] = "encode"]
        /\ nrefreshes' = [nrefreshes EXCEPT ![c] = NRefreshes]
    BY <1>4 DEF CallStart
  <2> QED
    BY <1>0, <2>1, <2>2, <2>3
<1>5. ASSUME NEW c \in Addrs, Encode(c) PROVE XidInv'
  <2> SUFFICES ASSUME NEW e \in Addrs
               PROVE  /\ cu_xid'[e] <= XidsOf(e)'
                      /\ cpc'[e] = "encode" => cu_xid'[e] + 1 + nrefreshes'[e] <= XidsOf(e)'
                      /\ cpc'[e] \in {"send", "wait"} => cu_xid'[e] + nrefreshes'[e] <= XidsOf(e)'
    OBVIOUS
  <2>1. XidsOf(e) \in Nat /\ XidsOf(e)' = XidsOf(e)
    BY <1>0, <1>5 DEF XidsOf, Encode, Finish, NextXid, timers
  <2> QED
    BY <1>0, <1>5, <2>1 DEF Encode, Finish, NextXid, timers
<1>6. ASSUME NEW c \in Addrs, Send(c) PROVE XidInv'
  <2> SUFFICES ASSUME NEW e \in Addrs
               PROVE  /\ cu_xid'[e] <= XidsOf(e)'
                      /\ cpc'[e] = "encode" => cu_xid'[e] + 1 + nrefreshes'[e] <= XidsOf(e)'
                      /\ cpc'[e] \in {"send", "wait"} => cu_xid'[e] + nrefreshes'[e] <= XidsOf(e)'
    OBVIOUS
  <2>1. XidsOf(e) \in Nat /\ XidsOf(e)' = XidsOf(e)
    BY <1>0, <1>6 DEF XidsOf, Send, Finish, timers
  <2> QED
    BY <1>0, <1>6, <2>1 DEF Send, Finish, timers
<1>7. ASSUME NEW c \in Addrs, Waited(c) PROVE XidInv'
  <2> SUFFICES ASSUME NEW e \in Addrs
               PROVE  /\ cu_xid'[e] <= XidsOf(e)'
                      /\ cpc'[e] = "encode" => cu_xid'[e] + 1 + nrefreshes'[e] <= XidsOf(e)'
                      /\ cpc'[e] \in {"send", "wait"} => cu_xid'[e] + nrefreshes'[e] <= XidsOf(e)'
    OBVIOUS
  <2>1. XidsOf(e) \in Nat /\ XidsOf(e)' = XidsOf(e)
    BY <1>0, <1>7 DEF XidsOf, Waited, CheckTime, Finish, timers
  <2> QED
    BY <1>0, <1>7, <2>1 DEF Waited, CheckTime, Finish, timers
<1>8. ASSUME NEW c \in Addrs, RecvError(c) PROVE XidInv'
  <2> SUFFICES ASSUME NEW e \in Addrs
               PROVE  /\ cu_xid'[e] <= XidsOf(e)'
                      /\ cpc'[e] = "encode" => cu_xid'[e] + 1 + nrefreshes'[e] <= XidsOf(e)'
                      /\ cpc'[e] \in {"send", "wait"} => cu_xid'[e] + nrefreshes'[e] <= XidsOf(e)'
    OBVIOUS
  <2>1. XidsOf(e) \in Nat /\ XidsOf(e)' = XidsOf(e)
    BY <1>0, <1>8 DEF XidsOf, RecvError, Finish, timers
  <2> QED
    BY <1>0, <1>8, <2>1 DEF RecvError, Finish, timers
<1>9. ASSUME NEW c \in Addrs, RecvReply(c) PROVE XidInv'
  <2> SUFFICES ASSUME NEW e \in Addrs
               PROVE  /\ cu_xid'[e] <= XidsOf(e)'
                      /\ cpc'[e] = "encode" => cu_xid'[e] + 1 + nrefreshes'[e] <= XidsOf(e)'
                      /\ cpc'[e] \in {"send", "wait"} => cu_xid'[e] + nrefreshes'[e] <= XidsOf(e)'
    OBVIOUS
  <2>1. XidsOf(e) \in Nat /\ XidsOf(e)' = XidsOf(e) /\ cu_xid' = cu_xid /\ cpc[c] = "wait"
    BY <1>0, <1>9 DEF XidsOf, RecvReply
  <2>2. \/ cpc' = [cpc EXCEPT ![c] = "idle"] /\ nrefreshes' = nrefreshes
        \/ /\ cpc' = [cpc EXCEPT ![c] = "encode"]
           /\ nrefreshes' = [nrefreshes EXCEPT ![c] = nrefreshes[c] - 1]
    BY <1>9 DEF RecvReply, Finish
  <2> QED
    BY <1>0, <2>1, <2>2
<1> QED
  BY StepCases, <1>1, <1>2, <1>3, <1>4, <1>5, <1>6, <1>7, <1>8, <1>9

LEMMA TimeStep ==
    ASSUME ClientType, TimerType, TimeInv, [DgNext]_dgVars
    PROVE  TimeInv'
<1>0. ClientType /\ TimerType /\ TimeInv /\ NRefreshes \in Nat /\ Timeouts \subseteq Nat
  BY ClientAssumption
<1> USE DEF TimeInv, ClientType, TimerType
<1>p. \A c \in Addrs : elapsed[c] <= timeout[c] => PollEnd(c, elapsed[c]) <= timeout[c]
  BY DEF PollEnd
<1>1. CASE UNCHANGED dgVars
  BY <1>0, <1>1 DEF dgVars, clientVars, timers, netHist
<1>2. CASE Server
  BY <1>0, <1>2 DEF Server, clientVars, timers
<1>3. CASE Tick
  <2>1. /\ UNCHANGED <<cpc, timeout, time_waited, deadline, nrefreshes>>
        /\ \A e \in Addrs : cpc[e] # "wait" => elapsed'[e] = elapsed[e]
    BY <1>0, <1>3 DEF Tick, Ticking
  <2> QED
    BY <1>0, <2>1
<1>4. ASSUME NEW c \in Addrs, CallStart(c) PROVE TimeInv'
  <2>1. PICK w \in Timeouts : timeout' = [timeout EXCEPT ![c] = w]
    BY <1>4 DEF CallStart
  <2> QED
    BY <1>0, <1>4, <2>1 DEF CallStart
<1>5. ASSUME NEW c \in Addrs, Encode(c) PROVE TimeInv'
  BY <1>0, <1>5 DEF Encode, Finish, timers
<1>6. ASSUME NEW c \in Addrs, Send(c) PROVE TimeInv'
  <2>1. /\ cpc[c] = "send" /\ UNCHANGED <<timeout, time_waited, elapsed, nrefreshes>>
        /\ \/ cpc' = [cpc EXCEPT ![c] = "idle"] /\ deadline' = deadline
           \/ /\ cpc' = [cpc EXCEPT ![c] = "wait"]
              /\ deadline' = [deadline EXCEPT ![c] = PollEnd(c, time_waited[c])]
    BY <1>6 DEF Send, Finish
  <2> QED
    BY <1>0, <1>p, <2>1
<1>7. ASSUME NEW c \in Addrs, Waited(c) PROVE TimeInv'
  <2>1. /\ cpc[c] = "wait" /\ UNCHANGED <<timeout, elapsed, nrefreshes>>
        /\ time_waited' = [time_waited EXCEPT ![c] = elapsed[c]]
        /\ \/ cpc' = [cpc EXCEPT ![c] = "idle"] /\ deadline' = deadline
           \/ elapsed[c] <= timeout[c] /\ cpc' = [cpc EXCEPT ![c] = "send"] /\ deadline' = deadline
           \/ /\ elapsed[c] <= timeout[c] /\ cpc' = cpc
              /\ deadline' = [deadline EXCEPT ![c] = PollEnd(c, elapsed[c])]
    BY <1>7 DEF Waited, CheckTime, Finish
  <2> QED
    BY <1>0, <1>p, <2>1
<1>8. ASSUME NEW c \in Addrs, RecvError(c) PROVE TimeInv'
  BY <1>0, <1>8 DEF RecvError, Finish, timers
<1>9. ASSUME NEW c \in Addrs, RecvReply(c) PROVE TimeInv'
  <2>1. /\ UNCHANGED timers
        /\ \/ cpc' = [cpc EXCEPT ![c] = "idle"] /\ nrefreshes' = nrefreshes
           \/ /\ cpc' = [cpc EXCEPT ![c] = "encode"]
              /\ nrefreshes' = [nrefreshes EXCEPT ![c] = nrefreshes[c] - 1]
    BY <1>9 DEF RecvReply, Finish
  <2> QED
    BY <1>0, <2>1 DEF timers
<1> QED
  BY StepCases, <1>1, <1>2, <1>3, <1>4, <1>5, <1>6, <1>7, <1>8, <1>9

\* The transaction id a call is encoded with is one of its handle's, and new.
LEMMA NewRequest ==
    ASSUME ClientType, XidInv, CallsInv, NEW c \in Addrs, cpc[c] = "encode",
           NEW new, new = [Request(c) EXCEPT !.xid = NextXid(c)]
    PROVE  /\ new \in Requests /\ new = [xid |-> cu_xid[c] + 1, proc |-> proc[c], addr |-> c]
           /\ new \notin DOMAIN callOf
           /\ ncalls[c] \in 1 .. MaxCalls
<1>1. new = [xid |-> cu_xid[c] + 1, proc |-> proc[c], addr |-> c]
  BY DEF Request, NextXid
<1>2. /\ cu_xid[c] \in Nat /\ ncalls[c] \in 0 .. MaxCalls /\ nrefreshes[c] \in Nat
      /\ MaxCalls \in Nat /\ NRefreshes \in Nat /\ proc[c] \in Procs
  BY ClientAssumption DEF ClientType
<1>3. cu_xid[c] + 1 + nrefreshes[c] <= ncalls[c] * (NRefreshes + 1)
  BY DEF XidInv, XidsOf
<1>4. ncalls[c] # 0
  BY <1>2, <1>3
<1>5. ncalls[c] * (NRefreshes + 1) <= MaxCalls * (NRefreshes + 1)
  <2>1. \A m, n, k \in Nat : m <= n => m * k <= n * k
    OBVIOUS
  <2> QED
    BY <1>2, <2>1
<1>6. cu_xid[c] + 1 \in 1 .. (MaxCalls * (NRefreshes + 1))
  <2> DEFINE p == ncalls[c] * (NRefreshes + 1)
             q == MaxCalls * (NRefreshes + 1)
  <2>1. p \in Nat /\ q \in Nat
    BY <1>2
  <2> HIDE DEF p, q
  <2> QED
    BY <1>2, <1>3, <1>5, <2>1 DEF p, q
<1>7. cu_xid[c] + 1 \in Xids
  BY <1>6, ClientAssumption
<1>8. [xid |-> cu_xid[c] + 1, proc |-> proc[c], addr |-> c] \in Requests
  BY <1>2, <1>7 DEF Requests
<1>9. new.xid = cu_xid[c] + 1 /\ new.addr = c
  BY <1>1
<1>10. new \notin DOMAIN callOf
  <2> SUFFICES ASSUME new \in DOMAIN callOf PROVE FALSE
    OBVIOUS
  <2>1. new.xid \in 1 .. cu_xid[new.addr]
    BY DEF CallsInv
  <2> QED
    BY <1>2, <1>9, <2>1
<1>11. ncalls[c] \in 1 .. MaxCalls
  BY <1>2, <1>4
<1> QED
  BY <1>1, <1>8, <1>10, <1>11

\* Steps that neither encode nor forget a request keep what is known of them.
LEMMA CallsKept ==
    ASSUME ClientType, CallsInv, callOf' = callOf, cu_xid' = cu_xid,
           \A e \in Addrs : /\ ncalls'[e] \in Nat /\ ncalls[e] <= ncalls'[e]
                            /\ cpc'[e] \in {"send", "wait"} =>
                                  /\ cpc[e] \in {"send", "wait"}
                                  /\ proc'[e] = proc[e] /\ ncalls'[e] = ncalls[e]
    PROVE  CallsInv'
<1>1. ASSUME NEW r \in DOMAIN callOf
      PROVE  /\ r \in Requests /\ r.xid \in 1 .. cu_xid'[r.addr]
             /\ callOf[r] \in 1 .. ncalls'[r.addr]
  <2>1. r \in Requests /\ r.xid \in 1 .. cu_xid[r.addr] /\ callOf[r] \in 1 .. ncalls[r.addr]
    BY DEF CallsInv
  <2>2. r.addr \in Addrs
    BY <2>1 DEF Requests
  <2>3. ncalls[r.addr] \in Nat /\ ncalls'[r.addr] \in Nat /\ ncalls[r.addr] <= ncalls'[r.addr]
    BY <2>2 DEF ClientType
  <2> QED
    BY <2>1, <2>3
<1>2. ASSUME NEW e \in Addrs, cpc'[e] \in {"send", "wait"}
      PROVE  Request(e)' \in DOMAIN callOf /\ callOf[Request(e)'] = ncalls'[e]
  <2>1. Request(e)' = Request(e)
    BY <1>2 DEF Request
  <2> QED
    BY <1>2, <2>1 DEF CallsInv
<1> QED
  BY <1>1, <1>2 DEF CallsInv

LEMMA CallsStep ==
    ASSUME ClientType, XidInv, CallsInv, [DgNext]_dgVars, ClientType'
    PROVE  CallsInv'
<1>0. ClientType /\ CallsInv /\ MaxCalls \in Nat /\ \A e \in Addrs : ncalls[e] \in Nat /\ ncalls'[e] \in Nat
  BY ClientAssumption DEF ClientType
<1>1. CASE UNCHANGED dgVars
  <2>1. /\ UNCHANGED <<callOf, cu_xid, proc, ncalls>>
        /\ \A e \in Addrs : cpc'[e] \in {"send", "wait"} => cpc[e] \in {"send", "wait"}
    BY <1>0, <1>1 DEF dgVars, clientVars, timers, netHist, ClientType
  <2> QED
    BY <1>0, <2>1, CallsKept
<1>2. CASE Server
  <2>1. /\ UNCHANGED <<callOf, cu_xid, proc, ncalls>>
        /\ \A e \in Addrs : cpc'[e] \in {"send", "wait"} => cpc[e] \in {"send", "wait"}
    BY <1>0, <1>2 DEF Server, clientVars, timers, ClientType
  <2> QED
    BY <1>0, <2>1, CallsKept
<1>3. CASE Tick
  <2>1. /\ UNCHANGED <<callOf, cu_xid, proc, ncalls>>
        /\ \A e \in Addrs : cpc'[e] \in {"send", "wait"} => cpc[e] \in {"send", "wait"}
    BY <1>0, <1>3 DEF Tick, ClientType
  <2> QED
    BY <1>0, <2>1, CallsKept
<1>4. ASSUME NEW c \in Addrs, CallStart(c) PROVE CallsInv'
  <2>1. /\ callOf' = callOf /\ cu_xid' = cu_xid
        /\ cpc' = [cpc EXCEPT ![c] = "encode"] /\ ncalls' = [ncalls EXCEPT ![c] = ncalls[c] + 1]
        /\ \E p \in Procs : proc' = [proc EXCEPT ![c] = p]
    BY <1>4 DEF CallStart
  <2>2. \A e \in Addrs : ncalls[e] <= ncalls'[e]
    BY <1>0, <2>1 DEF ClientType
  <2>3. \A e \in Addrs : cpc'[e] \in {"send", "wait"} =>
           cpc[e] \in {"send", "wait"} /\ proc'[e] = proc[e] /\ ncalls'[e] = ncalls[e]
    BY <1>0, <2>1 DEF ClientType
  <2> QED
    BY <1>0, <2>1, <2>2, <2>3, CallsKept
<1>5. ASSUME NEW c \in Addrs, Encode(c) PROVE CallsInv'
  <2> DEFINE new == [Request(c) EXCEPT !.xid = NextXid(c)]
  <2>1. /\ cpc[c] = "encode" /\ proc' = proc /\ ncalls' = ncalls
        /\ cu_xid' = [cu_xid EXCEPT ![c] = cu_xid[c] + 1]
        /\ callOf' = [r \in DOMAIN callOf \cup {new} |->
                        IF r \in DOMAIN callOf THEN callOf[r] ELSE ncalls[c]]
        /\ cpc' = [cpc EXCEPT ![c] = "send"] \/ cpc' = [cpc EXCEPT ![c] = "idle"]
    BY <1>5 DEF Encode, NextXid, Finish
  <2>2. /\ new \in Requests /\ new = [xid |-> cu_xid[c] + 1, proc |-> proc[c], addr |-> c]
        /\ new \notin DOMAIN callOf /\ ncalls[c] \in 1 .. MaxCalls
    <3> HIDE DEF new
    <3> QED
      BY <2>1, NewRequest DEF new
  <2> HIDE DEF new
  <2>3. /\ new.addr = c /\ new.xid = cu_xid[c] + 1 /\ new.proc = proc[c]
        /\ DOMAIN callOf' = DOMAIN callOf \cup {new}
        /\ callOf'[new] = ncalls[c] /\ \A r \in DOMAIN callOf : callOf'[r] = callOf[r]
    BY <2>1, <2>2
  <2>4. /\ \A e \in Addrs : cu_xid[e] \in Nat /\ cu_xid'[e] \in Nat /\ cu_xid[e] <= cu_xid'[e]
        /\ cu_xid'[c] = cu_xid[c] + 1 /\ \A e \in Addrs : e # c => cu_xid'[e] = cu_xid[e]
    BY <1>0, <2>1 DEF ClientType
  <2>5. ASSUME NEW r \in DOMAIN callOf
        PROVE  /\ r \in Requests /\ r.addr \in Addrs /\ r.xid \in 1 .. cu_xid[r.addr]
               /\ r.xid \in 1 .. cu_xid'[r.addr] /\ callOf[r] \in 1 .. ncalls[r.addr]
    <3>1. r \in Requests /\ r.xid \in 1 .. cu_xid[r.addr] /\ callOf[r] \in 1 .. ncalls[r.addr]
      BY DEF CallsInv
    <3>2. r.addr \in Addrs
      BY <3>1 DEF Requests
    <3> QED
      BY <2>4, <3>1, <3>2
  <2>6. \A r \in DOMAIN callOf' : /\ r \in Requests /\ r.xid \in 1 .. cu_xid'[r.addr]
                                  /\ callOf'[r] \in 1 .. ncalls'[r.addr]
    <3>1. ncalls[c] \in 1 .. ncalls[c] /\ cu_xid[c] + 1 \in 1 .. cu_xid'[c]
      BY <2>2, <2>4
    <3> QED
      BY <2>1, <2>2, <2>3, <2>5, <3>1
  <2>7. \A r \in DOMAIN callOf : ~(r.addr = new.addr /\ r.xid = new.xid)
    BY <2>3, <2>4, <2>5
  <2>8. \A q, r \in DOMAIN callOf' : q.addr = r.addr /\ q.xid = r.xid => q = r
    BY <2>3, <2>7 DEF CallsInv
  <2>9. ASSUME NEW e \in Addrs, cpc'[e] \in {"send", "wait"}
        PROVE  Request(e)' \in DOMAIN callOf' /\ callOf'[Request(e)'] = ncalls'[e]
    <3>1. CASE e = c
      <4>1. Request(c)' = new
        BY <2>1, <2>2, <2>4 DEF Request
      <4> QED
        BY <2>1, <2>3, <3>1, <4>1
    <3>2. CASE e # c
      <4>1. Request(e)' = Request(e) /\ cpc[e] \in {"send", "wait"}
        BY <1>0, <2>1, <2>4, <2>9, <3>2 DEF Request, ClientType
      <4> QED
        BY <2>1, <2>3, <4>1 DEF CallsInv
    <3> QED
      BY <3>1, <3>2
  <2> QED
    BY <2>6, <2>8, <2>9 DEF CallsInv
<1>6. ASSUME NEW c \in Addrs, Send(c) PROVE CallsInv'
  <2>1. /\ UNCHANGED <<callOf, cu_xid, proc, ncalls>>
        /\ \A e \in Addrs : cpc'[e] \in {"send", "wait"} => cpc[e] \in {"send", "wait"}
    BY <1>0, <1>6 DEF Send, Finish, timers, ClientType
  <2> QED
    BY <1>0, <2>1, CallsKept
<1>7. ASSUME NEW c \in Addrs, Waited(c) PROVE CallsInv'
  <2>1. /\ UNCHANGED <<callOf, cu_xid, proc, ncalls>>
        /\ \A e \in Addrs : cpc'[e] \in {"send", "wait"} => cpc[e] \in {"send", "wait"}
    BY <1>0, <1>7 DEF Waited, CheckTime, Finish, timers, ClientType
  <2> QED
    BY <1>0, <2>1, CallsKept
<1>8. ASSUME NEW c \in Addrs, RecvError(c) PROVE CallsInv'
  <2>1. /\ UNCHANGED <<callOf, cu_xid, proc, ncalls>>
        /\ \A e \in Addrs : cpc'[e] \in {"send", "wait"} => cpc[e] \in {"send", "wait"}
    BY <1>0, <1>8 DEF RecvError, Finish, timers, ClientType
  <2> QED
    BY <1>0, <2>1, CallsKept
<1>9. ASSUME NEW c \in Addrs, RecvReply(c) PROVE CallsInv'
  <2>1. /\ UNCHANGED <<callOf, cu_xid, proc, ncalls>>
        /\ \A e \in Addrs : cpc'[e] \in {"send", "wait"} => cpc[e] \in {"send", "wait"}
    BY <1>0, <1>9 DEF RecvReply, Finish, timers, ClientType
  <2> QED
    BY <1>0, <2>1, CallsKept
<1> QED
  BY StepCases, <1>1, <1>2, <1>3, <1>4, <1>5, <1>6, <1>7, <1>8, <1>9

\* What a step of the server does to its buffers, to the call it dispatches, to what
\* it sends and to the requests executed.
LEMMA ServerShape ==
    ASSUME TypeOK, Server
    PROVE  /\ \A b \in Bufs : \/ buf'[b] \in {buf[b], Junk}
                              \/ st = "dispatch" /\ buf'[b] = Result
           /\ \/ execs' = execs /\ (st' = "dispatch" => st = "dispatch" /\ call' = call)
              \/ execs' > execs /\ \E m \in net : m.kind = "call" /\ call' = m.req
           /\ \/ out' = out \/ out' = NoOut
              \/ \E b \in Bufs : out'.reply = buf'[b]
<1> DEFINE
     Shape == /\ \A b \in Bufs : \/ buf'[b] \in {buf[b], Junk}
                                 \/ st = "dispatch" /\ buf'[b] = Result
              /\ \/ execs' = execs /\ (st' = "dispatch" => st = "dispatch" /\ call' = call)
                 \/ execs' > execs /\ \E m \in net : m.kind = "call" /\ call' = m.req
              /\ \/ out' = out \/ out' = NoOut
                 \/ \E b \in Bufs : out'.reply = buf'[b]
<1>0. /\ execs \in Nat /\ buf \in [Bufs -> BufContents] /\ rpc_buffer \in Bufs /\ xdrs \in Bufs
      /\ \A n \in Nodes : node[n].cache_reply \in Bufs
  BY MaxExecAssumption DEF TypeOK, CacheNodes
<1>1. CASE Create
  BY <1>0, <1>1 DEF Create, histVars
<1>2. CASE Destroy
  BY <1>0, <1>2 DEF Destroy
<1>3. CASE EnableCache
  BY <1>0, <1>3 DEF EnableCache, xprtVars
<1>4. ASSUME NEW m \in net, m.kind = "call", RecvReplay(m.req) PROVE Shape
  <2>1. PICK n \in Nodes : out' = [req |-> m.req, reply |-> buf'[node[n].cache_reply]]
    BY <1>4 DEF RecvReplay
  <2>2. /\ st = "idle" /\ st' = st /\ execs' = execs
        /\ buf' = [buf EXCEPT ![rpc_buffer] = Junk]
    BY <1>4 DEF RecvReplay, Receive
  <2>3. out'.reply = buf'[node[n].cache_reply] /\ node[n].cache_reply \in Bufs
    BY <1>0, <2>1
  <2> QED
    BY <1>0, <2>2, <2>3
<1>5. ASSUME NEW m \in net, m.kind = "call", RecvDispatch(m.req) PROVE Shape
  <2>1. /\ buf' = [buf EXCEPT ![rpc_buffer] = Junk] /\ out' = NoOut
        /\ execs' = execs + 1 /\ call' = m.req
    BY <1>5 DEF RecvDispatch, Receive
  <2> QED
    BY <1>0, <1>5, <2>1
<1>6. CASE ReplySent
  <2>1. /\ st = "dispatch" /\ st' = "replied" /\ execs' = execs
        /\ buf' = [buf EXCEPT ![xdrs] = Result]
        /\ out' = [req |-> call, reply |-> buf'[rpc_buffer]]
    BY <1>6 DEF ReplySent
  <2>2. out'.reply = buf'[rpc_buffer]
    BY <2>1
  <2> QED
    BY <1>0, <2>1, <2>2
<1>7. CASE ReplyFails
  <2>1. /\ st = "dispatch" /\ call' = call /\ execs' = execs /\ out' = NoOut
        /\ \E e \in {Junk, Result} : buf' = [buf EXCEPT ![xdrs] = e]
    BY <1>7 DEF ReplyFails
  <2> QED
    BY <1>0, <2>1
<1>8. CASE Return
  BY <1>0, <1>8 DEF Return
<1> QED
  BY <1>1, <1>2, <1>3, <1>4, <1>5, <1>6, <1>7, <1>8 DEF Server

LEMMA ServerInvKept ==
    ASSUME TypeOK, NetInv, ServerInv, Server, TypeOK', RepliesAnswerTheirRequest'
    PROVE  NetInv' /\ ServerInv'
<1>1. callOf' = callOf /\ executed \subseteq executed'
  BY DEF Server
<1>2. \/ executed' = executed /\ (st' = "dispatch" => st = "dispatch" /\ call' = call)
      \/ executed' = executed \cup {call'} /\ call' \in DOMAIN callOf
  <2>1. executed' = IF execs' > execs THEN executed \cup {call'} ELSE executed
    BY DEF Server
  <2>2. execs \in Nat
    BY MaxExecAssumption DEF TypeOK
  <2>3. CASE execs' = execs /\ (st' = "dispatch" => st = "dispatch" /\ call' = call)
    BY <2>1, <2>2, <2>3
  <2>4. CASE execs' > execs /\ \E m \in net : m.kind = "call" /\ call' = m.req
    BY <2>1, <2>4 DEF NetInv
  <2> QED
    BY <2>3, <2>4, ServerShape
<1>3. executed' \subseteq DOMAIN callOf'
  BY <1>1, <1>2 DEF ServerInv
<1>4. st' = "dispatch" => call' \in executed'
  BY <1>1, <1>2 DEF ServerInv
<1>5. ASSUME NEW b \in Bufs, buf'[b] # Junk PROVE buf'[b].req \in executed'
  <2>1. CASE buf'[b] = buf[b]
    BY <1>1, <1>5, <2>1 DEF ServerInv
  <2>2. CASE st = "dispatch" /\ buf'[b] = Result
    BY <1>1, <2>2 DEF ServerInv, Result
  <2> QED
    BY <1>5, <2>1, <2>2, ServerShape
<1>6. ASSUME out' # NoOut
      PROVE  /\ out'.reply \in Replies /\ out'.reply.req = out'.req
             /\ out'.reply.req \in executed'
  <2>0. out' = out \/ out' = NoOut \/ \E b \in Bufs : out'.reply = buf'[b]
    BY ServerShape
  <2>1. out'.reply \in Replies /\ out'.reply.req = out'.req /\ out'.reply # Junk
    BY <1>6, JunkIsNoReply DEF RepliesAnswerTheirRequest
  <2>2. CASE out' = out
    BY <1>1, <1>6, <2>1, <2>2 DEF ServerInv
  <2>3. CASE \E b \in Bufs : out'.reply = buf'[b]
    BY <1>5, <2>1, <2>3
  <2> QED
    BY <1>6, <2>0, <2>1, <2>2, <2>3
<1>7. ServerInv'
  BY <1>3, <1>4, <1>5, <1>6 DEF ServerInv
<1>8. CASE out' = NoOut
  <2>1. net' = net
    BY <1>8 DEF Server, Transmit
  <2> QED
    BY <1>1, <1>7, <2>1 DEF NetInv
<1>9. CASE out' # NoOut
  <2> DEFINE sent == [kind |-> "reply", to |-> out'.req.addr, body |-> out'.reply]
  <2>1. net' = net \cup {sent}
    BY <1>9 DEF Server, Transmit
  <2>2. out'.req \in Requests
    BY <1>9 DEF TypeOK
  <2>3. out'.req.addr \in Addrs /\ out'.reply \in BufContents
    BY <1>6, <1>9, <2>2 DEF Requests, BufContents
  <2>4. sent \in ReplyMsgs /\ sent.kind = "reply" /\ sent.to = out'.req.addr /\ sent.body = out'.reply
    BY <2>3 DEF ReplyMsgs
  <2> HIDE DEF sent
  <2>5. net' \subseteq Calls \cup ReplyMsgs
    BY <2>1, <2>4 DEF NetInv
  <2>6. \A m \in net' : m.kind = "call" => m.req \in DOMAIN callOf'
    BY <1>1, <2>1, <2>4 DEF NetInv
  <2>7. \A m \in net' : m.kind = "reply" => /\ m.body \in Replies /\ m.body.req \in executed'
                                            /\ m.body.req.addr = m.to
    BY <1>1, <1>6, <1>9, <2>1, <2>4 DEF NetInv
  <2> QED
    BY <1>7, <2>5, <2>6, <2>7 DEF NetInv
<1> QED
  BY <1>8, <1>9, <1>7

\* Steps of the clients send requests and forget none.
LEMMA NetKept ==
    ASSUME NetInv, ServerInv, ServerIdle, DOMAIN callOf \subseteq DOMAIN callOf',
           \/ net' = net
           \/ \E r \in DOMAIN callOf \cap Requests : net' = net \cup {[kind |-> "call", req |-> r]}
    PROVE  NetInv' /\ ServerInv'
<1>1. UNCHANGED <<st, call, buf, out, executed>>
  BY DEF ServerIdle, vars, xprtVars, histVars
<1>2. ServerInv'
  BY <1>1 DEF ServerInv
<1>3. CASE net' = net
  BY <1>1, <1>2, <1>3 DEF NetInv
<1>4. ASSUME NEW r \in DOMAIN callOf \cap Requests, net' = net \cup {[kind |-> "call", req |-> r]}
      PROVE  NetInv'
  <2> DEFINE sent == [kind |-> "call", req |-> r]
  <2>1. sent \in Calls /\ sent.kind = "call" /\ sent.req = r
    BY DEF Calls
  <2> HIDE DEF sent
  <2>2. net' = net \cup {sent}
    BY <1>4 DEF sent
  <2> QED
    BY <1>1, <2>1, <2>2 DEF NetInv
<1> QED
  BY <1>2, <1>3, <1>4

LEMMA NetStep ==
    ASSUME TypeOK, NetInv, ServerInv, ClientType, CallsInv, [DgNext]_dgVars,
           TypeOK', RepliesAnswerTheirRequest'
    PROVE  NetInv' /\ ServerInv'
<1>1. CASE UNCHANGED dgVars
  BY <1>1, NetKept DEF dgVars, netHist, ServerIdle
<1>2. CASE Server
  BY <1>2, ServerInvKept
<1>3. CASE Tick
  BY <1>3, NetKept DEF Tick
<1>4. ASSUME NEW c \in Addrs, CallStart(c) PROVE NetInv' /\ ServerInv'
  BY <1>4, NetKept DEF CallStart
<1>5. ASSUME NEW c \in Addrs, Encode(c) PROVE NetInv' /\ ServerInv'
  <2>1. DOMAIN callOf \subseteq DOMAIN callOf' /\ net' = net /\ ServerIdle
    BY <1>5 DEF Encode
  <2> QED
    BY <2>1, NetKept
<1>6. ASSUME NEW c \in Addrs, Send(c) PROVE NetInv' /\ ServerInv'
  <2>1. /\ callOf' = callOf /\ ServerIdle /\ cpc[c] = "send"
        /\ net' = net \/ net' = net \cup {[kind |-> "call", req |-> Request(c)]}
    BY <1>6 DEF Send
  <2>2. Request(c) \in DOMAIN callOf \cap Requests
    BY <2>1 DEF CallsInv
  <2> QED
    BY <2>1, <2>2, NetKept
<1>7. ASSUME NEW c \in Addrs, Waited(c) PROVE NetInv' /\ ServerInv'
  BY <1>7, NetKept DEF Waited, CheckTime, Finish
<1>8. ASSUME NEW c \in Addrs, RecvError(c) PROVE NetInv' /\ ServerInv'
  BY <1>8, NetKept DEF RecvError, Finish
<1>9. ASSUME NEW c \in Addrs, RecvReply(c) PROVE NetInv' /\ ServerInv'
  BY <1>9, NetKept DEF RecvReply, Finish
<1> QED
  BY StepCases, <1>1, <1>2, <1>3, <1>4, <1>5, <1>6, <1>7, <1>8, <1>9

\* A proper reply in the inbox answers the call that waits for it.
LEMMA ProperReplyAnswers ==
    ASSUME NetInv, ServerInv, CallsInv, NEW c \in Addrs, cpc[c] = "wait",
           NEW reply \in Inbox(c), ProperReply(c, reply)
    PROVE  reply.req = Request(c) /\ reply.req \in executed /\ callOf[reply.req] = ncalls[c]
<1>1. PICK m \in net : m.kind = "reply" /\ m.to = c /\ m.body = reply
  BY DEF Inbox
<1>2. reply.req \in executed /\ reply.req.addr = c
  BY <1>1 DEF NetInv
<1>3. reply.req \in DOMAIN callOf /\ reply.req.xid = cu_xid[c]
  BY <1>2 DEF ServerInv, ProperReply
<1>4. Request(c) \in DOMAIN callOf /\ callOf[Request(c)] = ncalls[c]
  BY DEF CallsInv
<1>5. Request(c).addr = c /\ Request(c).xid = cu_xid[c]
  BY DEF Request
<1>6. reply.req = Request(c)
  BY <1>2, <1>3, <1>4, <1>5 DEF CallsInv
<1> QED
  BY <1>2, <1>4, <1>6

LEMMA AcceptStep ==
    ASSUME AcceptInv, NetInv, ServerInv, CallsInv, [DgNext]_dgVars
    PROVE  AcceptInv'
<1>0. NothingAccepted => AcceptInv'
  BY DEF NothingAccepted, AcceptInv, AcceptedReplyIsOfThisCall
<1>1. CASE UNCHANGED dgVars
  <2>1. \A c \in Addrs : Request(c)' = Request(c)
    BY <1>1 DEF Request, dgVars, clientVars
  <2> QED
    BY <2>1, <1>1 DEF dgVars, netHist, AcceptInv, AcceptedReplyIsOfThisCall
<1>2. CASE Server
  BY <1>0, <1>2 DEF Server
<1>3. CASE Tick
  BY <1>0, <1>3 DEF Tick
<1>4. ASSUME NEW c \in Addrs, CallStart(c) PROVE AcceptInv'
  BY <1>0, <1>4 DEF CallStart
<1>5. ASSUME NEW c \in Addrs, Encode(c) PROVE AcceptInv'
  BY <1>0, <1>5 DEF Encode
<1>6. ASSUME NEW c \in Addrs, Send(c) PROVE AcceptInv'
  BY <1>0, <1>6 DEF Send
<1>7. ASSUME NEW c \in Addrs, Waited(c) PROVE AcceptInv'
  BY <1>0, <1>7 DEF Waited, CheckTime
<1>8. ASSUME NEW c \in Addrs, RecvError(c) PROVE AcceptInv'
  BY <1>0, <1>8 DEF RecvError
<1>9. ASSUME NEW c \in Addrs, RecvReply(c) PROVE AcceptInv'
  <2>1. cpc[c] = "wait" /\ UNCHANGED <<cu_xid, proc, ncalls, callOf>>
    BY <1>9 DEF RecvReply
  <2>2. PICK reply \in Inbox(c) : /\ ProperReply(c, reply)
                                  /\ \/ accepted' = [accepted EXCEPT ![c] = reply]
                                     \/ NothingAccepted
    BY <1>9 DEF RecvReply
  <2>3. reply.req = Request(c) /\ callOf[reply.req] = ncalls[c]
    BY <2>1, <2>2, ProperReplyAnswers
  <2>4. \A e \in Addrs : Request(e)' = Request(e)
    BY <2>1 DEF Request
  <2>5. CASE accepted' = [accepted EXCEPT ![c] = reply]
    <3>1. DOMAIN accepted' = Addrs
      BY <2>5 DEF AcceptInv
    <3>2. \A e \in Addrs : accepted'[e] = IF e = c THEN reply ELSE accepted[e]
      BY <2>5 DEF AcceptInv
    <3>3. ASSUME NEW e \in Addrs, accepted'[e] # NoReply
          PROVE  accepted'[e].req = Request(e) /\ callOf[accepted'[e].req] = ncalls[e]
      BY <2>3, <3>2, <3>3 DEF AcceptInv, AcceptedReplyIsOfThisCall
    <3> QED
      BY <2>1, <2>4, <3>1, <3>3 DEF AcceptInv, AcceptedReplyIsOfThisCall
  <2> QED
    BY <1>0, <2>2, <2>5
<1> QED
  BY StepCases, <1>1, <1>2, <1>3, <1>4, <1>5, <1>6, <1>7, <1>8, <1>9

LEMMA StepIInv == IInv /\ ~EnableDuringDispatch /\ [DgNext]_dgVars => IInv'
<1> SUFFICES ASSUME IInv, ~EnableDuringDispatch, [DgNext]_dgVars PROVE IInv'
  OBVIOUS
<1>1. StructInv' /\ ReplyInv'
  BY ServerStruct DEF IInv
<1>2. TypeOK /\ TypeOK' /\ RepliesAnswerTheirRequest'
  BY <1>1 DEF IInv, StructInv, ReplyInv
<1>3. ClientType' /\ TimerType' /\ XidInv' /\ TimeInv'
  BY ClientTypeStep, TimerStep, XidStep, TimeStep DEF IInv
<1>4. CallsInv'
  BY <1>3, CallsStep DEF IInv
<1>5. NetInv' /\ ServerInv'
  BY <1>2, NetStep DEF IInv
<1>6. AcceptInv'
  BY AcceptStep DEF IInv
<1> QED
  BY <1>1, <1>3, <1>4, <1>5, <1>6 DEF IInv

LEMMA IInvClientState == IInv => ClientState
<1> SUFFICES ASSUME IInv PROVE ClientState
  OBVIOUS
<1>1. ASSUME NEW c \in Addrs PROVE cu_xid[c] \in Xids \cup {0}
  <2>1. /\ cu_xid[c] \in Nat /\ ncalls[c] \in 0 .. MaxCalls /\ MaxCalls \in Nat
        /\ NRefreshes \in Nat /\ cu_xid[c] <= ncalls[c] * (NRefreshes + 1)
    BY ClientAssumption DEF IInv, ClientType, XidInv, XidsOf
  <2>2. ncalls[c] * (NRefreshes + 1) <= MaxCalls * (NRefreshes + 1)
    <3>1. \A m, n, k \in Nat : m <= n => m * k <= n * k
      OBVIOUS
    <3> QED
      BY <2>1, <3>1
  <2>3. cu_xid[c] = 0 \/ cu_xid[c] \in 1 .. (MaxCalls * (NRefreshes + 1))
    <3> DEFINE p == ncalls[c] * (NRefreshes + 1)
               q == MaxCalls * (NRefreshes + 1)
    <3>1. p \in Nat /\ q \in Nat
      BY <2>1
    <3> HIDE DEF p, q
    <3> QED
      BY <2>1, <2>2, <3>1 DEF p, q
  <2> QED
    BY <2>3, ClientAssumption
<1>2. cu_xid \in [Addrs -> Xids \cup {0}]
  BY <1>1 DEF IInv, ClientType
<1>3. DgTypeOK
  BY <1>2 DEF IInv, ClientType, TimerType, NetInv, DgTypeOK
<1>4. PollsEndByTimeout
  BY DEF IInv, TimeInv, PollsEndByTimeout
<1> QED
  BY <1>3, <1>4 DEF ClientState

\* A reply clnt_dg_call decodes and returns is the result of executing the running
\* call, however late, often or out of order datagrams arrive and whatever the
\* server's cache answers from: transaction ids of a handle are never used twice.
THEOREM RepliesMatchCalls ==
    ASSUME ~EnableDuringDispatch
    PROVE  DgSpec => []AcceptedReplyIsOfThisCall
<1>1. IInv => AcceptedReplyIsOfThisCall
  BY DEF IInv, AcceptInv
<1> QED
  BY <1>1, DgInitIInv, StepIInv, PTL DEF DgSpec

\* The state of clnt_dg_call keeps its types, and no poll of a call whose
\* credentials were not refreshed ends after its timeout.
THEOREM ClientStateKept ==
    ASSUME ~EnableDuringDispatch
    PROVE  DgSpec => []ClientState
BY DgInitIInv, StepIInv, IInvClientState, PTL DEF DgSpec
-----------------------------------------------------------------------------
(* The refinement of RpcSemantics. *)

Pending == [c \in Addrs |-> cpc[c] # "idle"]
ExecutedCalls == {<<r.addr, callOf[r]>> : r \in executed}

\* Requests that were executed keep their calls.
LEMMA ExecutedKept ==
    ASSUME ServerInv, executed' = executed,
           \A r \in DOMAIN callOf : callOf'[r] = callOf[r]
    PROVE  ExecutedCalls' = ExecutedCalls
BY DEF ServerInv, ExecutedCalls

\* Steps inside a call, and steps of the network, stutter.
LEMMA StutterMaps ==
    ASSUME ncalls' = ncalls, status' = status, ExecutedCalls' = ExecutedCalls,
           \A e \in Addrs : cpc'[e] = "idle" <=> cpc[e] = "idle"
    PROVE  UNCHANGED Abstract!aVars
<1>1. Pending' = Pending
  BY DEF Pending
<1> QED
  BY <1>1 DEF Abstract!aVars, Pending, ExecutedCalls

\* Leaving clnt_dg_call with a failure is a failure of the abstract call, leaving it
\* with success one of a call that was executed.
LEMMA FinishMaps ==
    ASSUME NEW c \in Addrs, NEW how \in {"success", "failure"}, ClientType, ncalls' = ncalls,
           ExecutedCalls' = ExecutedCalls, cpc[c] # "idle", Finish(c, how),
           how = "success" => <<c, ncalls[c]>> \in ExecutedCalls
    PROVE  Abstract!ANext
<1>1. cpc' = [cpc EXCEPT ![c] = "idle"] /\ status' = [status EXCEPT ![c] = how]
  BY DEF Finish
<1>2. Pending' = [Pending EXCEPT ![c] = FALSE] /\ Pending[c]
  <2>1. Pending[c]
    BY DEF Pending
  <2>2. \A e \in Addrs : cpc'[e] = IF e = c THEN "idle" ELSE cpc[e]
    BY <1>1 DEF ClientType
  <2>3. Pending' = [e \in Addrs |-> IF e = c THEN FALSE ELSE cpc[e] # "idle"]
    BY <2>2 DEF Pending
  <2>4. [Pending EXCEPT ![c] = FALSE] = [e \in Addrs |-> IF e = c THEN FALSE ELSE cpc[e] # "idle"]
    BY DEF Pending
  <2> QED
    BY <2>1, <2>3, <2>4
<1>3. how = "success" => Abstract!Succeed(c)
  BY <1>1, <1>2 DEF Abstract!Succeed, Pending, ExecutedCalls
<1>4. how = "failure" => Abstract!Fail(c)
  BY <1>1, <1>2 DEF Abstract!Fail, Pending, ExecutedCalls
<1> QED
  BY <1>3, <1>4 DEF Abstract!ANext

\* The server's executions are those of the abstract specification.
LEMMA ServerMaps ==
    ASSUME TypeOK, NetInv, ServerInv, CallsInv, ClientType, Server
    PROVE  [Abstract!ANext]_(Abstract!aVars)
<1>1. UNCHANGED <<cpc, ncalls, callOf, status>> /\ Pending' = Pending
  BY DEF Server, clientVars, Pending
<1>2. executed' = IF execs' > execs THEN executed \cup {call'} ELSE executed
  BY DEF Server
<1>3. CASE executed' = executed
  BY <1>1, <1>3, ExecutedKept, StutterMaps
<1>4. CASE execs' > execs
  <2>1. PICK m \in net : m.kind = "call" /\ call' = m.req
    <3>1. execs \in Nat
      BY MaxExecAssumption DEF TypeOK
    <3> QED
      BY <1>4, <3>1, ServerShape
  <2>2. call' \in DOMAIN callOf /\ call' \in Requests
    BY <2>1 DEF NetInv, CallsInv
  <2>3. call'.addr \in Addrs /\ callOf[call'] \in 1 .. ncalls[call'.addr]
    BY <2>2 DEF CallsInv, Requests
  <2>4. \A e \in Addrs : 1 .. ncalls[e] \subseteq 1 .. MaxCalls
    BY ClientAssumption DEF ClientType
  <2>5. ExecutedCalls' = ExecutedCalls \cup {<<call'.addr, callOf[call']>>}
    BY <1>1, <1>2, <1>4 DEF ExecutedCalls
  <2>6. PICK a \in Addrs, k \in 1 .. MaxCalls :
           k \in 1 .. ncalls[a] /\ ExecutedCalls' = ExecutedCalls \cup {<<a, k>>}
    BY <2>3, <2>4, <2>5
  <2>7. Abstract!Execute(a, k)
    BY <1>1, <2>6 DEF Abstract!Execute, Pending, ExecutedCalls
  <2> QED
    BY <2>7 DEF Abstract!ANext
<1> QED
  BY <1>2, <1>3, <1>4

LEMMA StepMaps ==
    ASSUME IInv, [DgNext]_dgVars
    PROVE  [Abstract!ANext]_(Abstract!aVars)
<1>0. ClientType /\ CallsInv /\ NetInv /\ ServerInv /\ TypeOK
  BY DEF IInv, StructInv
<1>1. CASE UNCHANGED dgVars
  <2>1. /\ UNCHANGED <<ncalls, status, executed, callOf>>
        /\ \A e \in Addrs : cpc'[e] = "idle" <=> cpc[e] = "idle"
    BY <1>0, <1>1 DEF dgVars, netHist, clientVars
  <2> QED
    BY <1>0, <2>1, ExecutedKept, StutterMaps
<1>2. CASE Server
  BY <1>0, <1>2, ServerMaps
<1>3. CASE Tick
  <2>1. /\ UNCHANGED <<ncalls, status, executed, callOf>>
        /\ \A e \in Addrs : cpc'[e] = "idle" <=> cpc[e] = "idle"
    BY <1>0, <1>3 DEF Tick, ServerIdle
  <2> QED
    BY <1>0, <2>1, ExecutedKept, StutterMaps
<1>4. ASSUME NEW c \in Addrs, CallStart(c) PROVE [Abstract!ANext]_(Abstract!aVars)
  <2>1. /\ cpc[c] = "idle" /\ ncalls[c] < MaxCalls /\ cpc' = [cpc EXCEPT ![c] = "encode"]
        /\ ncalls' = [ncalls EXCEPT ![c] = ncalls[c] + 1]
        /\ UNCHANGED <<status, executed, callOf>>
    BY <1>4 DEF CallStart, ServerIdle
  <2>2. ExecutedCalls' = ExecutedCalls
    BY <1>0, <2>1, ExecutedKept
  <2>3. Pending' = [Pending EXCEPT ![c] = TRUE] /\ ~Pending[c]
    <3>1. ~Pending[c]
      BY <2>1 DEF Pending
    <3>2. \A e \in Addrs : cpc'[e] = IF e = c THEN "encode" ELSE cpc[e]
      BY <1>0, <2>1 DEF ClientType
    <3>3. Pending' = [e \in Addrs |-> IF e = c THEN TRUE ELSE cpc[e] # "idle"]
      BY <3>2 DEF Pending
    <3>4. [Pending EXCEPT ![c] = TRUE]
             = [e \in Addrs |-> IF e = c THEN TRUE ELSE cpc[e] # "idle"]
      BY DEF Pending
    <3> QED
      BY <3>1, <3>3, <3>4
  <2>4. Abstract!Begin(c)
    BY <2>1, <2>2, <2>3 DEF Abstract!Begin, Pending, ExecutedCalls
  <2> QED
    BY <2>4 DEF Abstract!ANext
<1>5. ASSUME NEW c \in Addrs, Encode(c) PROVE [Abstract!ANext]_(Abstract!aVars)
  <2>1. /\ cpc[c] = "encode" /\ UNCHANGED <<ncalls, executed>>
        /\ \A r \in DOMAIN callOf : callOf'[r] = callOf[r]
        /\ \/ Finish(c, "failure")
           \/ status' = status /\ cpc' = [cpc EXCEPT ![c] = "send"]
    BY <1>5 DEF Encode, ServerIdle
  <2>2. ExecutedCalls' = ExecutedCalls
    BY <1>0, <2>1, ExecutedKept
  <2>3. CASE Finish(c, "failure")
    BY <1>0, <2>1, <2>2, <2>3, FinishMaps
  <2>4. CASE status' = status /\ cpc' = [cpc EXCEPT ![c] = "send"]
    <3>1. \A e \in Addrs : cpc'[e] = "idle" <=> cpc[e] = "idle"
      BY <1>0, <2>1, <2>4 DEF ClientType
    <3> QED
      BY <2>1, <2>2, <2>4, <3>1, StutterMaps
  <2> QED
    BY <2>1, <2>3, <2>4
<1>6. ASSUME NEW c \in Addrs, Send(c) PROVE [Abstract!ANext]_(Abstract!aVars)
  <2>1. /\ cpc[c] = "send" /\ UNCHANGED <<ncalls, executed, callOf>>
        /\ \/ Finish(c, "failure")
           \/ status' = status /\ cpc' = [cpc EXCEPT ![c] = "wait"]
    BY <1>6 DEF Send, ServerIdle
  <2>2. ExecutedCalls' = ExecutedCalls
    BY <1>0, <2>1, ExecutedKept
  <2>3. CASE Finish(c, "failure")
    BY <1>0, <2>1, <2>2, <2>3, FinishMaps
  <2>4. CASE status' = status /\ cpc' = [cpc EXCEPT ![c] = "wait"]
    <3>1. \A e \in Addrs : cpc'[e] = "idle" <=> cpc[e] = "idle"
      BY <1>0, <2>1, <2>4 DEF ClientType
    <3> QED
      BY <2>1, <2>2, <2>4, <3>1, StutterMaps
  <2> QED
    BY <2>1, <2>3, <2>4
<1>7. ASSUME NEW c \in Addrs, Waited(c) PROVE [Abstract!ANext]_(Abstract!aVars)
  <2>1. /\ cpc[c] = "wait" /\ UNCHANGED <<ncalls, executed, callOf>>
        /\ \/ Finish(c, "failure")
           \/ status' = status /\ cpc' \in {cpc, [cpc EXCEPT ![c] = "send"]}
    BY <1>7 DEF Waited, CheckTime, ServerIdle
  <2>2. ExecutedCalls' = ExecutedCalls
    BY <1>0, <2>1, ExecutedKept
  <2>3. CASE Finish(c, "failure")
    BY <1>0, <2>1, <2>2, <2>3, FinishMaps
  <2>4. CASE status' = status /\ cpc' \in {cpc, [cpc EXCEPT ![c] = "send"]}
    <3>1. \A e \in Addrs : cpc'[e] = "idle" <=> cpc[e] = "idle"
      BY <1>0, <2>1, <2>4 DEF ClientType
    <3> QED
      BY <2>1, <2>2, <2>4, <3>1, StutterMaps
  <2> QED
    BY <2>1, <2>3, <2>4
<1>8. ASSUME NEW c \in Addrs, RecvError(c) PROVE [Abstract!ANext]_(Abstract!aVars)
  <2>1. cpc[c] = "wait" /\ UNCHANGED <<ncalls, executed, callOf>> /\ Finish(c, "failure")
    BY <1>8 DEF RecvError, ServerIdle
  <2> QED
    BY <1>0, <2>1, ExecutedKept, FinishMaps
<1>9. ASSUME NEW c \in Addrs, RecvReply(c) PROVE [Abstract!ANext]_(Abstract!aVars)
  <2>1. PICK reply \in Inbox(c) :
           /\ ProperReply(c, reply)
           /\ \/ Finish(c, "success") \/ Finish(c, "failure")
              \/ status' = status /\ cpc' = [cpc EXCEPT ![c] = "encode"]
    BY <1>9 DEF RecvReply
  <2>2. cpc[c] = "wait" /\ UNCHANGED <<ncalls, executed, callOf>>
    BY <1>9 DEF RecvReply, ServerIdle
  <2>3. ExecutedCalls' = ExecutedCalls
    BY <1>0, <2>2, ExecutedKept
  <2>4. <<c, ncalls[c]>> \in ExecutedCalls
    <3>1. reply.req = Request(c) /\ reply.req \in executed /\ callOf[reply.req] = ncalls[c]
      BY <1>0, <2>1, <2>2, ProperReplyAnswers
    <3>2. reply.req.addr = c
      BY <3>1 DEF Request
    <3> QED
      BY <3>1, <3>2 DEF ExecutedCalls
  <2>5. CASE Finish(c, "success")
    BY <1>0, <2>2, <2>3, <2>4, <2>5, FinishMaps
  <2>6. CASE Finish(c, "failure")
    BY <1>0, <2>2, <2>3, <2>6, FinishMaps
  <2>7. CASE status' = status /\ cpc' = [cpc EXCEPT ![c] = "encode"]
    <3>1. \A e \in Addrs : cpc'[e] = "idle" <=> cpc[e] = "idle"
      BY <1>0, <2>2, <2>7 DEF ClientType
    <3> QED
      BY <2>2, <2>3, <2>7, <3>1, StutterMaps
  <2> QED
    BY <2>1, <2>5, <2>6, <2>7
<1> QED
  BY StepCases, <1>1, <1>2, <1>3, <1>4, <1>5, <1>6, <1>7, <1>8, <1>9

LEMMA InitMaps == DgInit => Abstract!AInit
BY DEF DgInit, Abstract!AInit

\* Whatever the network does, clnt_dg_call and the server with its cache implement
\* at-least-once calls: success is only returned for a call the server executed,
\* nothing is executed that was not called, and no call begins inside another.
THEOREM ImplementsSemantics ==
    ASSUME ~EnableDuringDispatch
    PROVE  DgSpec => ImplementsRpcSemantics
<1>1. DgInit => Abstract!AInit
  BY InitMaps
<1>2. IInv /\ [DgNext]_dgVars => [Abstract!ANext]_(Abstract!aVars)
  BY StepMaps
<1> QED
  BY <1>1, <1>2, DgInitIInv, StepIInv, PTL DEF DgSpec, ImplementsRpcSemantics, Abstract!ASpec
=============================================================================
