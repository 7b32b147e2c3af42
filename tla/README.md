# A TLA+ verification project for oncrpc4-win32

oncrpc4-win32 is a port of the BSD/TI-RPC library (`libsrc`), of the `rpcbind`
daemon, of `rpcgen`/`rpcinfo` and of a small threads library (`libsthread`) to
Windows. This directory holds TLA+ models of its core, the TLC configurations
that check them on small instances, and proofs that TLAPS checks for every value
of the parameters. Everything is translated from the C source; `PROJECT.json`
(`map`) gives the lines each definition stands for.

## 1. The system

### 1.1 Components, their state, operations and interactions

| Component | State | Operations | Interacts with | Module |
|---|---|---|---|---|
| Datagram server transport, `libsrc/svc_dg.c` | I/O buffer and XDR stream, current xid and caller, duplicate-request cache (hash chains, fifo of victims, saved triple) | `svc_dg_create`, `_recv`, `_reply`, `_destroy`, `svc_dg_enablecache`, `cache_get`, `cache_set` | called by the dispatch loop; service routines run between receive and reply | `DupReqCache` |
| Datagram client, `libsrc/clnt_dg.c` | pre-serialised call with its xid, timers, error of the last call | `clnt_dg_call` (send, retransmit with back-off, match xid, refresh credentials), `_control`, `_freeres`, `_destroy` | the network; the descriptor locks | `DgRpc`, `FdLock` |
| Descriptor locks of both client transports | `dg_fd_locks[fd]`, `dg_cv[fd]`, the mutex `clnt_fd_lock` | take, wait, `release_fd_lock` | all threads with handles on one descriptor | `FdLock` |
| Transport registry and dispatch, `svc.c`, `svc_fdset.c`, `svc_run.c` | registered transports, descriptor set and its maximum, poll array | `xprt_register`, `xprt_unregister`, `svc_getreq_*`, `svc_run`, `svc_exit` | all transports; other threads | `SvcRun` |
| Stream server, `svc_vc.c` | rendezvous and per-connection state | accept, receive, status, destroy, `__svc_clean_idle` | registry, record streams | `SvcRun`, `StreamRpc` |
| Record marking, `xdr_rec.c` | buffers in and out, fragment counters | put, end of record; get, skip, eof; `__xdrrec_getrec` | both stream transports | `XdrRec` |
| Stream client, `clnt_vc.c` | call header with xid, stream, error of the last call | `clnt_vc_call`, batching, `read_vc` | record streams, descriptor locks | `StreamRpc`, `FdLock` |
| Server creation and registration, `svc_generic.c`, `svc_simple.c`, `svc.c` | lists `xprtlist`, `proglst`, callouts `svc_head` | `svc_create`, `svc_tp_create`, `rpc_reg`, `svc_reg`, `svc_unreg` | `rpcbind` through `rpcb_set` and `rpcb_unset`; threads of the server | `SvcReg` |
| rpcbind client, `rpcb_clnt.c`, `clnt_generic.c`, `clnt_simple.c` | cache of rpcbind addresses, each thread's kept handle | `rpc_call`, `clnt_create`, `__rpcb_findaddr`, `getclnthandle` | rpcbind of versions 2 to 4; threads of the client | `RpcbClnt` |
| rpcbind: forwarding, `rpcb_svc_com.c` | table `FINFO`, `rpcb_rmtcalls`, `lastxid`, descriptor set and its maximum | `rpcbproc_callit_com`, `forward_register`, `handle_reply`, `my_svc_run`, `check_rmtcalls` | remote callers, local services, `svc_fdset` | `RpcbForward` |
| rpcbind: registrations, `rpcb_svc_com.c`, `rpcb_svc*.c`, `pmap_svc.c`, `check_bound.c` | `list_rbl` (versions 3, 4), `list_pml` (version 2) | set, unset and lookups of both interfaces | each interface changes both lists | `RpcbMap` |
| Threads library, `libsthread` | mutexes, conditions, reader/writer and spin locks, thread instances, keys | initialisation at first use, lock, wait, create, join, detach, exit, destructors | everything that locks | `SThread` |
| Windows sockets and pipes, `win32/win32_socket.c` | table `fds_win32` with its lock; of each pipe buffer, pending operation and event; of each socket its events | `rpc_socket`, `rpc_close`, `rpc_accept`, `rpc_read`, `rpc_recvfrom`, `rpc_poll`, `rpc_select` | everything that has a descriptor; the operating system | `WinSock` |
| Broadcast client, authentication, XDR primitives, in-memory transport, netconfig | little | single exchanges, encodings, parsing | | section 8 |

A remote procedure call goes client - network - server. Over datagrams,
`clnt_dg_call` sends the same request until a reply with its xid arrives; the server
may see it several times and answers repetitions from the cache. Over a stream, both
ends put records into fragments and take them apart again. `rpcbind` is itself such a
server: services register with it (`SvcReg`), clients ask it where services are
(`RpcbClnt`), and it re-sends "indirect" calls (`RpcbForward`).

### 1.2 What is hard, and what correctness means

* **Datagrams** are lost, repeated, delayed and reordered: a client must take
  only the reply to its running call, a server must not execute a recent request
  twice, and a reply replayed from the cache must be that request's reply.
* **Buffers change owner**: `cache_set` gives the buffer with the reply to the
  cache and uses the victim's for the next request.
* **Streams** are cut anywhere: a reader keeps its place between reads, a writer may
  have sent part of a record, and a call that times out leaves a reply under way.
* **Timers**: retransmission, back-off, the total timeout and credential refreshes
  interact in one loop that must end.
* **Threads** share descriptors, caches and lists, with signals sent after the mutex
  was released and locks that do not cover both steps of an operation. Locks and
  threads themselves are initialised and taken down while others use them.
* **A dispatch loop whose own routines destroy transports**, while the poll array it
  waits with is a copy, and descriptors are reused at once.
* **Tables at their limit**: full forwarding table, full duplicate-request cache, no
  descriptors left, xids that wrap, late replies to slots that have been given away.
* **Lists that must agree**: rpcbind's two, the server's callouts with rpcbind, across
  lost replies, crashes and partial failures.

The hazards, each at its line and with the properties that would catch it, are
listed in `PROJECT.json`.

## 2. Modules

### DupReqCache (`svc_dg.c`)

State: `st` is where the dispatch loop is (no transport, idle, in a service
routine before or after its reply); `su_xid`, `xp_rtaddr`, `rpc_buffer`, `xdrs` are
the transport's fields, `uc_entries`, `uc_fifo`, `uc_nextvictim`, `uc_proc` the
cache's, `node` and `buf` the heap's contents and `heap` what is allocated. The
chains are sequences, `cache_next` being the order. Actions: `Create`, `Destroy`,
`EnableCache`, `RecvBad` (short or undecodable datagram), `RecvReplay` and
`RecvDispatch` (with `cache_get`), `ReplySent` (with `cache_set`) and `ReplyFails`,
`Return`. Every allocation of `cache_set` may fail, as may encoding and sending.
The triple (program, version, procedure) is one value; a reply is the request it
answers with the number of the execution that made it.

### DgRpc and RpcSemantics (`clnt_dg.c` with `svc_dg.c`)

`DgRpc` extends `DupReqCache` with clients and a network. The steps of a client are
those of `clnt_dg_call`: `CallStart`, `Encode` (`call_again`), `Send` (`send_again`),
`PollTimeout`, `RecvOther`, `RecvReply`, `RecvError`; `CheckTime` is the end of its
waiting loop. `net` holds every datagram ever sent and any of them may be delivered
at any time, which gives loss, duplication, delay and reordering. `Server` is the
next-state relation of `DupReqCache` fed from `net`; a server that is destroyed and
created again (a restart) has lost its cache.

`RpcSemantics` is the abstract promise: a call is executed at least once before it
returns success, an execution may also come late or for a call that failed.
`ImplementsRpcSemantics` maps `DgRpc` to it, a request being the call it was made for.

### FdLock (`clnt_dg.c`, same machinery in `clnt_vc.c`)

One place (`pc`) for every point at which another thread can intervene: between
`mutex_lock`, the test, `cond_wait`, taking the lock, the use, `release_fd_lock`'s
lock, store, unlock and signal, and the return of the status. `call` and `control`
take the descriptor lock; `freeres` and `destroy` only wait for it and work under the
mutex. Mutex and condition variable are external; waits may end without a signal.
The program never destroys a handle another thread is using (`Begin`).

### XdrRec and StreamRpc (`xdr_rec.c`, `clnt_vc.c`, `svc_vc.c`)

`XdrRec` has no state: it is the operators of the record stream over sequences of
cells, `HdrLen` cells to a fragment header. The writer (`PutBytes`, `PutLong`,
`EndOfRecord`, `FlushOut`) closes a fragment when its buffer is full and keeps the
record open (`frag_sent`). The blocking reader is told in chunks (`SkipChunk`,
`GetChunk`, `Consume`, `Fill`), because it keeps its place only between them;
`GetRec` is the non-blocking reader, which is called again with what has arrived.

`StreamRpc` puts a client and a server at two such streams. The client's steps are
those of `clnt_vc_call`: `Call` (with batching, or with no timeout), skipping
the rest of the previous record, `XidRead`, `ResultsRead`, a refresh of credentials,
`ClientTimeout` (also with the rest of a record still under way), `ClientBad`
(a header read out of step), and `Close`. Arguments may fail to encode (the call goes out
without them) and so may credentials (the record is cut inside the call header, and a
blocking server declares the connection dead); writing fails once the server is dead
(`SendFails`, RPC_CANTSEND). The server's are `Recv`, `Serve`, `SrvStat` (with which the
loop sees that more requests are buffered), `SrvUndecodable`, and `NbRecv`, `NbServe` for
the non-blocking mode. `up` and `down` are delivered in order, a cell at a
time or all that is there. The server's own patience of 35 seconds is never exceeded.

### SvcRun (`svc.c`, `svc_fdset.c`, `svc_run.c`, `svc_vc.c`)

`xports`, `fdset`, `fdmax`, `fdp` are the code's registry, set, maximum and poll array;
`Register` and `Unregister` change them together. `pc`, `pfd`, `ready`, `cur` are the
loop: `Copy` under the lock, `PollEvents`/`PollFails`/`Interrupted`, `CleanIdle` on a
timeout, then for each ready descriptor `Serve`, `Accept` or `Recv`, `Dispatch`,
`Check`, `Stat`. `Recv` reads a whole request, the end of the stream, or the first part of a
record, which ends a non-blocking connection. A service routine may destroy any
connection, its own included: `Stat` then asks freed memory, and either happens to go on or
ends the process (`pc = "crashed"`). `SvcExit` comes from
another thread at any time; peers connect, send and hang up. `AcceptCleans` is the
path for lack of descriptors. A lock that is not released (`fd_lock = "leaked"`) stops
every later step that needs it. `CleanIdle` is the whole scan of `__svc_clean_idle`: what
the calls of `svc_fdset_clr` leave does not depend on their order, so `PollDel` and
`Cleared` take the set of descriptors that go. In the select loop the copy is the
`fd_set`'s array, which holds the rendezvous descriptor first and the others in the order
of registration; the model allows any order of the others (`Listings`).

### SvcReg (`svc_generic.c`, `svc_simple.c`, `svc.c`, `rpcb_clnt.c`)

Threads run `svc_create` and `rpc_reg` over the transports of a network type and
`svc_unreg`: find or make the transport (`NextNetid`, `CannotBind`), `Unset` the mapping
in rpcbind, add the `Callout`, `Set` the mapping, then `Keep` or `Drop` the transport.
`xprtlist_lock` and `proglst_lock` are held as in the code; `svc_unreg` is two steps
without a lock across them. `rpc_reg` leaves `rpcb_set` out for a program `proglst` has
(`skip`). `binder` is what rpcbind answers; a request or its reply may be
lost (`Fault`). Histories: `claims` is what `rpcb_set` has succeeded for, `unasked` what
`rpc_reg` has registered without it. `Crash` ends the process and starts it again with its old mappings
still in rpcbind.

### RpcbClnt (`rpcb_clnt.c`, `clnt_generic.c`, `clnt_simple.c`)

Threads call a service by `rpc_call`: `Begin` uses the kept handle or starts `clnt_create`
over the transports; `__rpcb_findaddr` is `GetPort` (version 2), `GetAddrList`
(version 4), `Regular` and `GetAddr` (versions 4 and 3), each with an rpcbind that
may not speak it; `getclnthandle` is `CheckCache`, `Try`, `Delete`, `Resolve`, `Add`
over the shared `cache`. Meanwhile hosts move to other addresses and services
restart on other ports.

### RpcbForward (`rpcb_svc_com.c`, `svc_fdset.c`)

Each datagram transport has a forwarding descriptor of its own (`FwdOf`), as
`create_rmtcall_fd` makes one for each netid.
`FINFO`, `rpcb_rmtcalls`, `lastxid`, `fdset`, `fdmax` are the code's variables, `pc`,
`revents`, `pending` the place in an iteration of `my_svc_run`. A request ends in
`CallitRefused`, `CallitNotForwarded` (already in the table, or no memory) or
`CallitForwarded`; `Scan` is one round of the loop of `forward_register` (expiry,
duplicate, empty slot, oldest victim), the recursive function `Rounds` what holds after
each round, and `Scanned` what the loop leaves. A reply ends in
`ReplyForwarded`, `ReplyUnknown` or `ReplyFails` (the xid used at `done:` is then
uninitialised, hence any). `NotACall` and `Connection` are `svc_getreq_poll`,
`CleanIdle` is `__svc_clean_idle`. `wasted` is a history variable: in this round
`check_rmtcalls` counted a reply nobody waits for, or a failure.

### RpcbMap (`rpcb_svc_com.c`, `pmap_svc.c`)

`list_rbl` and `list_pml` are sets of entries with their place `at` in the list:
entries are appended, so order is the order of places, and removing is set
difference. `find_service` gives the first entry of the version or else the last of
the program. `map_set`, `map_unset`, `add_pmaplist`, `del_pmaplist` follow the
code, including that `map_unset` returns at the first entry of another owner,
earlier ones already removed. PMAPPROC_UNSET is two `map_unset`s in one step. The
port of PMAPPROC_SET is cut to two bytes as by the conversion to "0.0.0.0.p1.p2".
Lookups change nothing (`is_bound` always holds since `check_binding` is FALSE, so
`delete_prog` is unreachable) and are operators. The version 2 interface is the one
compiled with `PORTMAP`.

### SThread (`libsthread`)

Two halves that share no state, one exercised in a behaviour (`half`). *locks*: the
mutex initialised at first use (`InitLock` to `InitUnlock`, `flag` being the magic,
`nest` the count), condition waits (`Wait`, `Sleep`, `Wake`), reader/writer locks whose
release reads the owner first (`RwUnlock`), spin locks. *lives*: `Create`, `StoreHandle`,
`Finish`, `End`, `Exit` of a thread against joining and detaching of its
creator and itself; keys (`KeySlot`, `KeyValue`, `KeyDelete`, `KeyFree`, with the
indices the system gives out) against the destructors of
a thread that ends (`Snapshot`, `Destructor`). A join is four steps, between which the
thread may end or be detached: `JoinBegin` (the try-lock of `joining`), `JoinHandle`
(the handle is read), `JoinWait` or `JoinRefused` (the wait fails, ESRCH), `JoinEnd`. A
value is stored with the key it was stored for, and a destructor's calls are recorded in
`called` with the key of the destructor and that of the value. Assertions are compiled out.

### WinSock (`win32/win32_socket.c`)

`fds`, `fds_next`, `fds_lock` are the descriptor table. `fd_assign` is five steps, as its
lock is initialised by its first user; other users of the table need the lock free. A
pipe is `struct Pipe` (`pipe`) with what the system keeps for it (`kernel`: peer, pending
operation, messages). The server boots, polls (`PollCached`, `PollSockets`, `PollEvent`,
`Select`), accepts (`Accept`, `Accepted`, `AcceptFails`: a new pipe takes over the
listening descriptor) and reads (`ReadStart`, `Read`, `ReadFails`, `PollAgain`, `Recv`); a
second thread opens and closes sockets of its own. After an accept that failed the same
pipe listens again and keeps its POLLIN: it is reported by every poll, and `Accept`
waits until somebody has connected (`Waited`). A connection whose peer has left is
closed if it does not block (`ReadFails`); if it blocks, `read_vc` polls it first, and never
comes out of that loop (`PollAgain`). Assertions are compiled out; `CompletesPending` and
`ReadsWhenIdle` state two that do not hold.

`MC*` modules give values to the constants that are not simple sets or numbers.

## 3. Runs

Passing runs:

| Run | Shows | Bounds and why they are enough |
|---|---|---|
| `dupreq_cache` | `CacheStructure` (types, fifo and chains hold the same nodes, the victim is found), `BufferOwnership`, `RepliesAnswerTheirRequest`, `NoRecentReexecution` | cache of 2 (8 buckets), xids 1, 9 (one bucket) and 2, 2 callers, 2 procedures, 3 executions: the fifo fills, wraps and evicts from shared chains |
| `dgrpc` | `ClientState` (types; a poll ends by the call's timeout), `AcceptedReplyIsOfThisCall`, `CallsReturn`, `ImplementsRpcSemantics` | 2 calls of one client, one refresh, timeouts 0 and 4 with interval 1 doubling to 2: several retransmissions, back-off at its limit, late replies of the first call during the second, restart of the server |
| `fd_lock` | `LockingIsSound` (mutual exclusion), `NoLostWakeup`, `OperationsReturn` | 3 threads, 2 handles on one descriptor, every operation: a waiter that takes no lock can stand between two that do |
| `rpcb_forward` | `TableIsSound` (xids are their slots, the count of slots, one slot per call, a waiting descriptor is polled), `AnswersGoToTheirCaller`, `OnlyTheOldestIsEvicted`, `AwaitedReplyIsNotACall` (an awaited reply is lost to `svc_getreq_poll` only if a reply for nobody, or a failure, used up the count of `check_rmtcalls`) | 2 slots, 3 callers on two datagram transports, each with its forwarding descriptor, 3 forwards, a connection descriptor, 12 xids started close to the wrap, expiry after 1 of 2 ticks: full table, eviction, expiry, wrap, late and repeated replies on either descriptor, both ready in one poll. A VIEW leaves out what free slots were last used for, which is never read |
| `rpcb_map` | `RegistrationsAreSound` (one entry per triple, found by its lookup), `RpcbindIsFound`, `PortsStayWithEntry` | rpcbind's own program in two versions, netids "", udp, UDP and tcp, 2 owners, 3 registrations, failing allocations. One program suffices: programs meet only in equality tests |
| `svc_run` | `RegistryIsSound` (registry, set, maximum and poll array agree; no freed transport is in them, and none but the one whose routine destroyed it is used; `svc_run` ends only after `svc_exit`, over a hole of that array or a closed descriptor left registered), `ConnectionsEndForACause`, `ExitStopsLoop` | 3 descriptors, FD_SETSIZE 2 and 3, 3 connections, both loops: the set fills, descriptors run out and are given out again within one round |
| `stream_rpc` | `SuccessIsOwnReply`, `RequestsReachServer` (whole, in order, none kept back by batching, whatever does not kill the connection), `NoneLeftBuffered` (an idle server holds no request that no poll would report), `LostReplyHasCause`, `CallsReturn` | 3 transaction ids, every kind of call (normal, batched, untimed, arguments or credentials that cannot be encoded), one refresh, requests and replies of 2 cells with headers of 2, a client buffer of 7 that holds one record and part of the next, a server buffer of 3 smaller than a record, both modes of the server |
| `sthread` | `LocksAreSound`, `InstancesAreSound`, `DestructorsFit`, `JoinersReturn` | 3 workers in the locks (two race, a third arrives after), one in the lives (workers share nothing there but the key slot), 2 keys, the second given the index of the first |
| `rpcb_clnt` | `CacheIsSound`, `SteadyCallsSucceed`, `CallsReturn` | 2 threads, 3 calls, a cache of 2, one move or restart, rpcbinds of versions {2,3,4}, {3} and none of them: both threads add and evict, entries go stale |
| `svc_reg` | `ListsAreSound`, `BinderAgrees` (what `rpcb_set` succeeded for is in rpcbind and served, what rpcbind has is served, what it was not asked for is dispatched), `QuietRegistrationsSucceed`, `CallsReturn` | 2 threads, 3 operations, 2 ports, one lost message, one crash: an operation of one thread falls into another's, an old mapping meets a new port |
| `win_sock` | `DescriptorsAreSound`, `PipesAreSound` (every byte in one place and order; the loop's poll completes only pending operations), `InputIsServed` | connections that block or do not, one fault (an accept or a new instance that fails), 4 descriptors for up to 2 connections, the listening pipe, the socket and the other thread's: the table fills; messages of 3 bytes, buffer of 2, reads of 1 and 4: messages are split and reads divided |

Each module has one type invariant, a conjunct of its first invariant.

Deadlock checking is off where the bounded system may stop: when its operations,
executions or connections are used up, or after `svc_exit`.

A run in which TLC refutes what the source says of itself (`findings`):

| Run | What the code does |
|---|---|
| `win_select` | without a pipe among its descriptors, `rpc_poll` returns WSAPoll's count but clears every `revents`; `rpc_select` asserts that the two agree, and in a release build returns 0, so `svc_run` over sockets alone never serves a request |

Other statements of the source that do not hold are definitions of the modules too, each
with a configuration under which TLC shows a behaviour that breaks it
(`tlc -config SThreadJoin.cfg SThread`). They are not among the runs; the properties of the
passing runs name the same cases as exceptions.

| Definition, configuration | What the code does |
|---|---|
| `DisconnectedIsNoticed`, `SvcRunOwn.cfg` | a routine destroys the transport it was called for, and the jump to `call_done` passes over the check that `svc.c:763` says is for this case: `SVC_STAT` on freed memory |
| `SkippedIsRegistered`, `SvcRegSkip.cfg` (`MCSvcReg`) | `rpc_reg`, `svc_unreg`, `rpc_reg`: the last finds the program in `proglst`, leaves `rpcb_set` out "to save a few RPC calls" (`svc_simple.c:187`) and returns 0, and rpcbind does not have it |
| `HeldIsCounted`, `SThreadCount.cfg` | `mutex_init_once` zeroes the count after it has published the flag; `pthread_mutex_unlock` asserts a count of 1 for the thread that holds the mutex |
| `JoinFindsInstance`, `SThreadJoin.cfg` | a thread that ends before `pthread_create` has stored its handle frees its instance; `pthread_join` asserts that the instance it is given is one |
| `KeptForJoin`, `SThreadKept.cfg` | a thread that is detached after it has ended, or after it has looked at its handle, leaves its instance to nobody; `thread.c:123` keeps it for a join in process |
| `CompletesPending`, `WinSockHup.cfg` (`MCWinSock`) | `read_vc` polls again a connection whose end `rpc_poll` has already reported; `pipe_io_complete` asserts that an operation is pending; in a release build `read_vc` polls for ever |
| `ReadsWhenIdle`, `WinSockRearm.cfg` (`MCWinSock`) | after an accept that failed, the pipe that listens again is accepted from with its operation still marked pending, and `pipe_io_read` asserts that none is |

Each property of a passing run has a mutant: a definition changed as a plausible bug
would, under which TLC finds the property violated (the operators marked "Mutant" or
"a plausible bug" in the modules).

### Observations

Behaviour met while modelling; the properties name the cases as exceptions, the
models contain them where a module is named.

* *Datagrams.* A service routine that enables the cache has its reply filed under a
  triple `cache_get` never saved (`EnableDuringDispatch = TRUE` in `DupReqCache.cfg`
  refutes `RepliesAnswerTheirRequest`). After a credential refresh `time_waited` is stale
  and the next poll may end after the call's timeout (excused in `ClientState`).
  `clnt_dg_call` reads the status after releasing the lock, when another thread's call
  may have set it (`clnt_dg.c:521`). CLSET_XID stores an xid in network order that the
  call increments in host order (`clnt_dg.c:663`).
* *Streams.* A header of 0 ends a reply without results, with status success. After a
  call that timed out without an answer, skipping the record before the next reply may
  drop that reply. A timeout inside a record leaves the stream out of step (`torn`). In
  the non-blocking server, the record reader is called twice for one request and may mix two.
* *Server loop.* After `svc_exit` and a new registration `fdmax` may sink below a member.
  A hole in the poll array is a bad descriptor to `rpc_poll` and ends `svc_run`.
  `xprt_register` returns with the lock held when the set is full, and
  `__svc_clean_idle` when it cannot copy it. Cleaning for lack of descriptors can close
  a descriptor of the same ready list and accept a fresh connection on it.
  A non-blocking connection is ended by a poll that finds only the first part of a record
  (`xdr_rec.c:583`), and by 30 seconds of silence.
* *Registration.* `svc_reg` adds the callout before `rpcb_set`, `svc_unreg` unsets before
  removing callouts: overlapping ones leave a mapping without a callout. `svc_create`
  unsets a mapping before `svc_reg` refuses another dispatcher, so that a failing
  create unregisters the working service. `svc_register` and `svc_unregister` change `svc_head` without
  `svc_lock`; `universal` holds `proglst_lock` through the service routine.
* *Lookups.* `getclnthandle` hands out the cache entry's own string after releasing
  `rpcbaddr_cache_lock`, which the comment at `rpcb_clnt.c:323` says protects it; it
  may be freed before it is sent. An outdated datagram address poisons lookups until it
  is evicted. `local_rpcb`'s first attempt always fails (length 4, port 0).
* *rpcbind.* `check_rmtcalls` stops after as many forwarding descriptors as there were calls
  pending. With two of them (udp6 and udp: `getnetconfig.c:160`, `rpcbind.c:772`) a repeated
  reply, or one `recvfrom` fails for, on the first uses the count up; the awaited reply on the
  second is read by `svc_getreq_poll` and dropped, although the comment at `rpcb_svc_com.c:593`
  says it is detected (`wasted` in `AwaitedReplyIsNotACall`). A late reply frees the slot of the request that took its slot. With a datagram
  transport as the highest descriptor, `free_slot_by_index` lowers the maximum below the
  forwarding descriptor (`rpcb_svc_com.c:1048`) and it is no longer polled
  (`ListenFds = {0}` in `RpcbForward.cfg`). An unset refused half way leaves a removed entry's port in the version 2
  list, where it hides the port registered next.
* *Threads.* `pthread_cond_timedwait` asserts that COND_MAGIC is the mutex's flag;
  `pthread_exit` runs destructors after freeing the instance; the slot of a key being
  created is active with a destructor before it has its key.
* *Windows layer.* `rpc_connect` registers `connect`'s result 0 as a socket. A hang-up
  is lost when the peer leaves before its last input is read. A new pipe that cannot
  listen has no event, and every later wait fails; one that has listened before is reported,
  and refused, for ever. While a pipe that listens again after a failed accept has no client,
  the server blocks in `pipe_accept`, whatever other input there is. `pipe_close` does not
  free the pipe.

## 4. Fairness

* `DgRpc`: the clock advances (`WF` of `Tick`) and a client that can encode, send or
  see its poll time out does so. That is the scheduler and `pollts`; nothing is
  assumed of the network or the server. `CallsReturn` needs no more because the loop
  compares the time with the timeout after every wakeup and refreshes are counted.
* `FdLock`: every thread that can run is scheduled (`WF` of each thread's `Step`),
  and waits do not end without a signal for ever. Weak fairness is enough for the
  mutex because each thread starts finitely many operations; with endless
  operations the code (an unfair mutex, `cond_signal`) does not promise progress to
  every thread, and none is claimed.
* `StreamRpc`: the client goes on with its reading (`WF` of `Reads`), which ends by
  `read_vc`'s timeout whatever the server and the network do; nothing is assumed of either.
* `SvcRun`: the loop's thread is scheduled (`WF` of `Loop`); nothing of peers or `svc_exit`.
* `SThread`: a thread that can go on does (`WF` of `Life`); nobody need call anything.
* `RpcbClnt`, `SvcReg`: every thread in a call is scheduled (`WF` of `Run`); none must
  begin one. The remote calls they contain end, by answer or timeout (`CallsReturn` of
  `DgRpc` and `StreamRpc`).
* `WinSock`: the server and the thread that is registering a socket are scheduled
  (`WF` of `Server`, `User`); nothing of peers. Signalled events end the wait, as
  `WSAWaitForMultipleEvents` documents.

## 5. Proofs

Proved with TLAPS, for every value of the constants that satisfies the named
assumptions of the modules:

* `DgRpcProofs`, the server alone: `TypeCorrect`, `BuffersOwnedOnce`,
  `FifoAgreesWithTable`, `VictimFound`, `StructureKept` (the property `CacheStructure`),
  `RepliesCorrect`, `RecentNotReexecuted` (`NoRecentReexecution`). Neither
  `BufferOwnership` nor `FifoMatchesTable` is inductive alone: the cell `cache_set`
  links is unused because whatever the table or the saved triple uses is allocated,
  and the victim's reply buffer may be reused because the victim is no longer linked
  anywhere. `StructInv` is their conjunction with `TypeOK` and `Dispatching` (a
  request being dispatched has been executed). `ReplyInv` is `CallerRemembered` (the
  saved triple is the one of the running request), `CachedRepliesFiled` (every cached
  buffer holds a reply to the key of its node) and `RepliesAnswerTheirRequest`.
  `RingHoldsServed` says that the fifo is a ring: the requests cached last, as many as the
  cache has places, are each in the place of their number, and the next goes where the
  oldest of them is (`RemainderUnique`, `LessThanALap`, `NextSlot` are the arithmetic);
  that a request among them is found, and not executed again, follows. `RepliesCorrect`
  and `RecentNotReexecuted` are proved under `~EnableDuringDispatch`, without which they do
  not hold. Lemmas say what unlinking a node from, and linking one to, a chain does.
* `FdLockProofs`: `TypeCorrect`, `MutualExclusion`, `LockingSound` (`LockingIsSound`),
  `WakeupsKept`, for any number of threads, handles and descriptors. `IInv` adds that
  only the mutex's holder is between lock and unlock, that an owned lock is marked and
  has one owner, that it is free while `freeres`/`destroy` work, and that a waiter on a
  free descriptor has a thread that will test again or signal.
* `RpcbMapProofs`: `TypeCorrect`, `NoDuplicates`, `LookupsFindEntries`,
  `RegistrationsSound` (`RegistrationsAreSound`), `RpcbindStaysFound`, `PortsStay`, for
  any programs, versions, netids and owners. `IInv` is the properties plus
  `OwnEntriesFirst`: rpcbind's own entries are in both lists and in front. An unset
  that could reach their ports matches one of them, and its owner stops it before
  `del_pmaplist`. The assumption that no request has the superuser as owner holds of
  this port (see the comment at `MapAssumption`).
* `DgRpcProofs`, clients, network and server: `RepliesMatchCalls`
  (`AcceptedReplyIsOfThisCall`), `ClientStateKept` (`ClientState`) and
  `ImplementsSemantics`: every behaviour of `DgRpc` implements `RpcSemantics`
  (`ImplementsRpcSemantics`, initial states to initial states, every step to a step or a
  stutter). `IInv` adds to the invariants of the cache: the types and timers of the
  clients, that the xids a client has used are no more than its calls and refreshes
  (`XidInv`), that until a refresh the clock was read when a call is sent (`TimeInv`),
  that there is one request, of one call, for each xid of a client (`CallsInv`), and that
  the network and every buffer of the server hold only requests that were sent and
  replies that answer executed requests (`NetInv`, `ServerInv`). All three are proved under `~EnableDuringDispatch`,
  without which a cached reply can answer another request (Observations, above).
* `RpcbForwardProofs`: `TableSoundThroughout` (`TableIsSound`), `SlotsAndXids`,
  `AnswersReachTheirCaller` (`AnswersGoToTheirCaller`), `OldestEvicted`
  (`OnlyTheOldestIsEvicted`), for any
  number of slots, callers, descriptors and xids. What the loop of `forward_register`
  leaves is proved from its rounds: the first round at which a property of the rounds
  fails is a least element of a set of naturals (`LeastMember`), so no induction theorem
  is needed. Answers going to their caller is not inductive: a late reply must not bear
  the id of a newer request. `XidInv` says that the ids under way were given out by the
  requests counted, so that the next id, across the wrap of `lastxid`, is none of them.
  This needs fewer requests than the ids have turns, `MaxForwards + 1 < XidMod \div
  NFORWARD` (2^26 turns in the code: a reply that old has long been lost).
  `TableSoundThroughout` assumes a descriptor rpcbind
  listens on above the forwarding ones, as with the netconfig it is built with:
  `free_slot_by_index` lowers the maximum without looking at the set, and below them
  replies would no longer be polled. `AwaitedRepliesHandled`
  (`AwaitedReplyIsNotACall`) holds for any number of forwarding descriptors: unless a reply
  has been counted for nothing, as many are left to handle as calls are pending, so that
  when the count is used up the table is empty, and a slot filled after that has an id no
  datagram under way has (`CountInv`).
* `SvcRegProofs`: `ListsSound` (`ListsAreSound`), `BinderAndProcessAgree`
  (`BinderAgrees`), `QuietSucceed` (`QuietRegistrationsSucceed`), for any threads,
  programs, transports, lost replies and crashes. None is inductive alone. A new
  transport that is not registered yet leads nowhere in rpcbind and nothing is claimed for
  it (`NewXprt`), so destroying it on a failure breaks no mapping; when `rpcb_set` is
  called the callout is there, unless an `svc_unreg` overlapped (`CalledOut`, `UnregOf`);
  a program that `proglst` has is dispatched on a transport that is kept open, which is all
  that is sure of a registration without `rpcb_set` (`SkipOf`, `UnaskedInv`);
  the transport in hand is the only one for its netid (`InHand`, which needs the locks to
  be held where `LocksInv` says); and a registration that nothing disturbs is alone, and
  rpcbind has nothing for it once `rpcb_unset` was called, whoever put it there
  (`QuietOf`). The assumptions are the names: a thread is not `Nobody`, and no dispatcher
  is called "none" or "universal".
* `SThreadProofs`: `LocksSound` (`LocksAreSound`), `InstancesSound`
  (`InstancesAreSound`), `DestructorsGetTheirs` (`DestructorsFit`), for any threads.
  `IInv` says who may be at each step of a first use, what each lock word means for its
  holder, how far main and a thread are with an instance when it is live, detached,
  joined or freed at each step of a join (`MainInv`, `SelfInv`, `DetachedInv`). For the keys
  it says that an index belongs to one key until it is freed (`IndexInv`), that what a thread
  has at an index was set under that key (`ValuesInv`), and that the copy of the table an
  ending thread works from leads to values of its own keys or to none (`CopyInv`).
* `RpcbClntProofs`: `CacheSound` (`CacheIsSound`), `LookupsFind`
  (`SteadyCallsSucceed`), for any threads, hosts, and size of the cache. `CacheInv` adds
  that entries are in the order in which they were made and that a thread trying an
  address holds the lock and its entry is still there; `LookupInv` says which versions of
  rpcbind a lookup has found mute; `CallInv` that a call nothing has disturbed has given
  up a transport only if there is nothing to find on it, and has the host's present
  address. The hosts are assumed to be finitely many, which gives each an address.
* `SvcRunProofs`: `IInvHolds`, `RegistrySound` (`RegistryIsSound`), `LoopEndJustified`
  (its part `LoopEndsForAReason`), `EndsForACause` (`ConnectionsEndForACause`), for any finite set of
  descriptors, sizes of the set, connections, requests and limits, and for both loops.
  What a step does to the registry is one of four things (`StepCases`): nothing,
  `Destroyed` (a set of connections, by `svc_vc_destroy` or `__svc_clean_idle`), `Emptied`
  (`svc_exit`) or an accepted connection, and `RegistryStep` keeps the registry's part of
  the invariant over those. `SetsInv` says the maximum without `Max`; it agrees with the
  registry only until `svc_exit` and while the lock is free. `OpenInv` is what the loop
  relies on and the code does not say: unless a closed descriptor stayed registered,
  what is registered is open, is in the poll array once, and what is live is registered.
  Hence the copy that is polled has only open descriptors or holes and none twice
  (`PolledInv`), so taking one request from the head of the reported descriptors leaves
  the input of the others. `EventsInv`, which `EndsForACause` needs, follows the reports:
  whatever waits to be served and is still registered has an event, or is a connection
  accepted since the poll on a descriptor that had one. `ServingInv` adds that the lock can
  only have been kept in `rendezvous_request`, which is why everything after it may rely
  on a free one. The lemmas about `Sanitize`, `PollAdd`, `PollDel` and `Listings` say what
  those leave of a set or of an array.

## 6. Only model-checked

* Liveness (`CallsReturn`, `OperationsReturn`, `ExitStopsLoop`, `JoinersReturn`,
  `InputIsServed`), which is outside what TLAPS can prove here.
* `StreamRpc` with `XdrRec` (`SuccessIsOwnReply`, `RequestsReachServer`,
  `LostReplyHasCause`): the streams and what is parsed from them are folds over sequences,
  and what those compute for every length needs induction over data.
* `WinSock` (`DescriptorsAreSound`, `PipesAreSound`): what a pipe's buffer and the kernel's
  queue hold are folds over the messages too. The table of descriptors does not depend on
  them; it is small enough that the run has every interleaving of two threads in it, and
  it has no proof.

## 7. Abstractions common to all modules

Messages are records of what the code compares; encoding and decoding succeed or fail.
Logging, statistics and debug output are left out. Bounds (`Max...`) are constants
named in the modules and only cut off counters and histories. What the code does under
one lock, without calling out, is one step.

## 8. Not modelled, and why

`rpcgen` with its vendored preprocessor (the greater part of the repository's lines),
`rpcinfo`, the Windows service wrappers and `libcompat` hold no state that outlives a
run or only adapt calls. Warm start is compiled only with `WARMSTART`, which no build
defines. XDR primitives and authentication flavours are sequential encodings, netconfig
parses text, the in-memory transport is for tests in one thread. rpcbind's start-up
fixes what `RpcbForward` and `RpcbMap` start from. The broadcast client is left to the
plan. Of modelled components, what is left out is said in the notes of `PROJECT.json`.

## 9. Plan

Done, in this order: 1. `DupReqCache` with proofs; 2. `DgRpc` over `RpcSemantics`;
3. `RpcbForward`; 4. `FdLock` with proofs; 5. `RpcbMap` with proofs; 6. `SvcRun`;
7. `XdrRec` and `StreamRpc`; 8. `SThread`; 9. `RpcbClnt`; 10. `SvcReg`; 11. `WinSock`.

Next, by importance:

12. A proof of `DescriptorsAreSound` (`WinSock`) for any descriptors.
13. `pipe_connect`, and connected and accepted sockets, in `WinSock`.
14. The broadcast client's back-off.
