------------------------------- MODULE SvcRun -------------------------------
(***************************************************************************)
(* The stream server: transport registry (libsrc/svc.c), descriptor set    *)
(* and poll array (svc_fdset.c), the loop of svc_run (svc_run.c) and the   *)
(* rendezvous and connection transports (svc_vc.c).                        *)
(*                                                                         *)
(* One thread runs svc_run; service routines run inside its dispatch step; *)
(* other threads may call svc_exit at any time.  Whatever the code does    *)
(* under the write lock svc_fd_lock is one step; a lock that is not        *)
(* released stops every later step that needs it.  Transports are numbered *)
(* in the order of their creation, 0 being the rendezvous transport.       *)
(* poll and select report any non-empty set of the descriptors with input, *)
(* as their interface promises, and fail on a closed one or a hole, as     *)
(* rpc_poll does; what rpc_poll makes of sockets alone is in WinSock.      *)
(***************************************************************************)
EXTENDS Integers, Sequences, FiniteSets, FiniteSetsExt, SequencesExt

CONSTANTS
    Fds,           \* descriptors the process may have open
    FdSetSizes,    \* the values of FD_SETSIZE considered
    Modes,         \* "select", "poll": the flags of svc_fdset_init
    MaxConns,      \* bound: connections ever accepted
    MaxReqs,       \* bound: how often a peer sends, one request or two
    MaxProbs,      \* consecutive poll errors tolerated (100 in the code)
    IdleLimit      \* seconds of silence before __svc_clean_idle closes (30)

ASSUME SvcAssumption ==
    /\ Fds \subseteq Nat /\ IsFiniteSet(Fds) /\ 0 \in Fds
    /\ FdSetSizes \subseteq Nat \ {0}
    /\ Modes \subseteq {"select", "poll"}
    /\ MaxConns \in Nat /\ MaxReqs \in Nat /\ MaxProbs \in Nat /\ IdleLimit \in Nat

NoXprt == -1
Xprts == 0..MaxConns

VARIABLES
    mode, fd_setsize,
    xports,        \* __svc_xports: the transport registered for each descriptor
    fdset, fdmax,  \* the descriptor set and its maximum
    fdp,           \* poll array up to fdused, -1 for an unused slot
    fd_lock,       \* "free", or "leaked" once a path returned without unlocking
    xp,            \* the transports
    open,          \* descriptors the process has open
    input,         \* connections or requests waiting at each descriptor
    hup,           \* descriptors whose peer has gone
    pc, pfd,       \* the loop and its copy of the poll array or descriptor set
    ready,         \* descriptors reported and not yet served
    cur,           \* transport being served
    probs,
    exited,        \* history: svc_exit has been called
    nconns, nreqs, \* history: what the bounds count
    reused,        \* history: descriptors accepted since the last poll
    stale          \* history: the registry had a closed descriptor

registry == <<xports, fdset, fdmax, fdp, fd_lock>>
kernel == <<open, input, hup>>
loop == <<pc, pfd, ready, cur, probs>>
history == <<exited, nconns, nreqs, reused, stale>>
vars == <<mode, fd_setsize, registry, xp, kernel, loop, history>>

NewXprt(fd) == [st |-> "live", fd |-> fd, nonblock |-> FALSE, died |-> FALSE, idle |-> 0]
Unborn == [NewXprt(-1) EXCEPT !.st = "none"]
Freed(fd) == [NewXprt(fd) EXCEPT !.st = "freed"]
IsConn(x) == x # 0
-----------------------------------------------------------------------------
(* svc_fdset.c *)

\* svc_fdset_sanitize: the maximum moves down to a member of the set.
Sanitize(max, set) == Max({f \in set : f <= max} \cup {-1})

\* svc_pollfd_add: the first unused slot, else a new one.
PollAdd(slots, fd) ==
    IF \E i \in DOMAIN slots : slots[i] = -1
    THEN [slots EXCEPT ![Min({i \in DOMAIN slots : slots[i] = -1})] = fd]
    ELSE Append(slots, fd)

\* svc_pollfd_del of each of gone: its first slot is unused; if that was the last, so
\* are those before it that hold nothing.  The last slot in use holds a descriptor, so
\* the order of the calls makes no difference.
PollDel(slots, gone) ==
    LET rest == [i \in DOMAIN slots |->
                    IF slots[i] \in gone /\ \A j \in 1..(i - 1) : slots[j] # slots[i]
                    THEN -1 ELSE slots[i]]
    IN  IF slots = << >> \/ rest[Len(slots)] = slots[Len(slots)] THEN rest
        ELSE SubSeq(rest, 1, Max({i \in DOMAIN rest : rest[i] # -1} \cup {0}))

\* The effect of svc_fdset_clr of each of gone on the set, its maximum and the poll array.
Cleared(gone, max) ==
    /\ fdset' = fdset \ gone
    /\ fdp' = PollDel(fdp, gone)
    /\ fdmax' = Sanitize(max, fdset')

\* Mutant: the poll array is left alone.
ZeroedKeepsPoll == fdset' = {} /\ fdmax' = -1 /\ UNCHANGED fdp
\* svc_fdset_zero
Zeroed == fdset' = {} /\ fdmax' = -1 /\ fdp' = << >>
-----------------------------------------------------------------------------
(* svc.c and svc_vc.c: registering and destroying, under the lock *)

\* xprt_register of transport x on fd: the set may be full (svc_fdset_set), and
\* then the lock stays held and the entry of the registry stays.
Register(x, fd) ==
    /\ xports' = [xports EXCEPT ![fd] = x]
    /\ IF Cardinality(fdset) < fd_setsize
       THEN /\ fdset' = fdset \cup {fd}
            /\ fdp' = PollAdd(fdp, fd)
            /\ fdmax' = Sanitize(IF fd > fdmax THEN fd ELSE fdmax, fdset')
            /\ UNCHANGED fd_lock
       ELSE fd_lock' = "leaked" /\ UNCHANGED <<fdset, fdmax, fdp>>

\* __xprt_do_unregister: nothing unless x is the transport registered for its
\* descriptor; the maximum moves to the next registered descriptor.
Unregister(x) ==
    LET fd == xp[x].fd
        max == Sanitize(fdmax, fdset)
        below == {f \in Fds : f < max /\ f # fd /\ xports[f] # NoXprt}
    IN  /\ IF xports[fd] = x
           THEN /\ xports' = [xports EXCEPT ![fd] = NoXprt]
                /\ Cleared({fd}, IF fd < max THEN max ELSE Max(below \cup {-1}))
           ELSE UNCHANGED <<xports, fdset, fdmax, fdp>>
        /\ UNCHANGED fd_lock

\* Mutant: destroyed but still registered.
DestroyKeepsEntry(x) ==
    /\ fd_lock = "free" /\ xp' = [xp EXCEPT ![x] = Freed(xp[x].fd)]
    /\ open' = open \ {xp[x].fd} /\ input' = [input EXCEPT ![xp[x].fd] = 0]
    /\ hup' = hup \ {xp[x].fd}
    /\ UNCHANGED registry

\* svc_vc_destroy: unregistered, its descriptor closed, its memory freed.
Destroy(x) ==
    /\ fd_lock = "free"
    /\ Unregister(x)
    /\ xp' = [xp EXCEPT ![x] = Freed(xp[x].fd)]
    /\ open' = open \ {xp[x].fd}
    /\ input' = [input EXCEPT ![xp[x].fd] = 0]
    /\ hup' = hup \ {xp[x].fd}

\* The connections __svc_clean_idle looks at: in the set and not above its maximum,
\* registered, non-blocking.
Cleanable ==
    {x \in Xprts : /\ IsConn(x) /\ xp[x].st = "live" /\ xp[x].nonblock
                   /\ xp[x].fd \in fdset /\ xp[x].fd <= fdmax /\ xports[xp[x].fd] = x}

\* With timeout 0, the connection silent for longest, the lowest descriptor first;
\* none that was heard of just now.
LeastActive ==
    {x \in Cleanable : /\ xp[x].idle > 0
                       /\ \A y \in Cleanable : \/ xp[y].idle < xp[x].idle
                                               \/ xp[y].idle = xp[x].idle /\ xp[y].fd >= xp[x].fd}

IdleTooLong == {x \in Cleanable : xp[x].idle > IdleLimit}
-----------------------------------------------------------------------------
(* svc_run_select and svc_run_poll *)

Init ==
    /\ mode \in Modes /\ fd_setsize \in FdSetSizes
    /\ xports = [f \in Fds |-> IF f = 0 THEN 0 ELSE NoXprt]
    /\ fdset = {0} /\ fdmax = 0 /\ fdp = <<0>> /\ fd_lock = "free"
    /\ xp = [x \in Xprts |-> IF x = 0 THEN NewXprt(0) ELSE Unborn]
    /\ open = {0} /\ input = [f \in Fds |-> 0] /\ hup = {}
    /\ pc = "top" /\ pfd = << >> /\ ready = << >> /\ cur = 0 /\ probs = 0
    /\ exited = FALSE /\ nconns = 0 /\ nreqs = 0 /\ reused = {} /\ stale = FALSE

Stop == pc' = "done" /\ UNCHANGED <<pfd, ready, cur, probs>>

\* The members of a finite set in any order, and from the least to the greatest.
Listings(S) ==
    {s \in [1..Cardinality(S) -> S] : \A i, j \in DOMAIN s : i # j => s[i] # s[j]}
Ascending(S) ==
    {s \in Listings(S) : \A i, j \in DOMAIN s : i < j => s[i] < s[j]}

\* The copy of the set or of the poll array, taken under the read lock.  The set is an
\* array too, in the order of registration: the rendezvous transport, then the others in
\* any order.
Copy ==
    /\ pc = "top" /\ fd_lock = "free"
    /\ pfd' \in IF mode = "poll" THEN {fdp}
                ELSE {s \in Listings(fdset) : 0 \in fdset => s[1] = 0}
    /\ pc' = "poll"
    /\ UNCHANGED <<mode, fd_setsize, registry, xp, kernel, ready, cur, probs, history>>

\* What is polled: in poll mode the number of slots is read again, unlocked.
Polled ==
    IF mode = "poll" /\ Len(fdp) < Len(pfd) THEN SubSeq(pfd, 1, Len(fdp)) ELSE pfd

HasBadFd == \E f \in Range(Polled) : f \notin open
HasEvent(f) == input[f] > 0 \/ f \in hup

\* Some descriptors with an event are reported, in the order of their slots.
PollEvents ==
    /\ pc = "poll" /\ ~HasBadFd
    /\ \E S \in SUBSET {f \in Range(Polled) : HasEvent(f)} :
        /\ S # {}
        /\ \E slots \in Ascending({i \in DOMAIN Polled : Polled[i] \in S}) :
            ready' = [k \in DOMAIN slots |-> Polled[slots[k]]]
    /\ pc' = "serve" /\ probs' = 0 /\ reused' = {}
    /\ UNCHANGED <<mode, fd_setsize, registry, xp, kernel, pfd, cur,
                   exited, nconns, nreqs, stale>>

\* EINVAL for nothing to poll, EBADF for a closed descriptor: the latter is
\* tolerated MaxProbs times in a row.
PollFails ==
    /\ pc = "poll"
    /\ \/ Polled = << >> /\ Stop
       \/ HasBadFd /\ probs >= MaxProbs /\ Stop
       \/ HasBadFd /\ probs < MaxProbs /\ probs' = probs + 1 /\ pc' = "top"
          /\ UNCHANGED <<pfd, ready, cur>>
    /\ UNCHANGED <<mode, fd_setsize, registry, xp, kernel, history>>

Interrupted ==
    /\ pc = "poll" /\ Polled # << >>
    /\ probs' = IF probs < MaxProbs THEN probs + 1 ELSE probs
    /\ pc' = "top"
    /\ UNCHANGED <<mode, fd_setsize, registry, xp, kernel, pfd, ready, cur, history>>

\* Nothing for 30 seconds: the connections silent for too long are closed.
CleanIdle ==
    /\ pc = "poll" /\ Polled # << >> /\ ~HasBadFd /\ fd_lock = "free"
    /\ \A f \in Range(Polled) : ~HasEvent(f)
    /\ LET gone == {xp[x].fd : x \in IdleTooLong}
       IN  /\ xports' = [f \in Fds |-> IF f \in gone THEN NoXprt ELSE xports[f]]
           /\ Cleared(gone, fdmax)
           /\ open' = open \ gone /\ hup' = hup \ gone
           /\ input' = [f \in Fds |-> IF f \in gone THEN 0 ELSE input[f]]
    /\ xp' = [x \in Xprts |-> IF x \in IdleTooLong THEN Freed(xp[x].fd) ELSE xp[x]]
    /\ pc' = "top"
    /\ UNCHANGED <<mode, fd_setsize, fd_lock, pfd, ready, cur, probs, history>>

\* svc_getreqset2, svc_getreq_poll and the start of svc_getreq_common: the transport
\* is looked up under the read lock; a descriptor without one is passed over.
Serve ==
    /\ pc = "serve"
    /\ IF ready = << >> THEN pc' = "top" /\ UNCHANGED <<ready, cur>>
       ELSE /\ fd_lock = "free"
            /\ IF xports[Head(ready)] = NoXprt
               THEN ready' = Tail(ready) /\ UNCHANGED <<pc, cur>>
               ELSE pc' = "recv" /\ cur' = xports[Head(ready)] /\ UNCHANGED ready
    /\ UNCHANGED <<mode, fd_setsize, registry, xp, kernel, pfd, probs, history>>

Served == pc' = "serve" /\ ready' = Tail(ready) /\ UNCHANGED <<pfd, cur, probs>>
Goto(place) == pc' = place /\ UNCHANGED <<pfd, ready, cur, probs>>
-----------------------------------------------------------------------------
(* The transports' operations: svc_vc.c *)

\* rendezvous_request and makefd_xprt.  The transport may not come about (out of
\* memory, or a full set), or may be given up after it was registered; it does not
\* block if the rendezvous transport's record limit is set just now.
Accept ==
    /\ pc = "recv" /\ cur = 0 /\ input[0] > 0 /\ fd_lock = "free" /\ nconns < MaxConns
    /\ nconns' = nconns + 1
    /\ \E fd \in Fds \ open, nonblock \in BOOLEAN :
        /\ reused' = reused \cup {fd}
        /\ \/ /\ Register(nconns', fd)
              /\ IF fd_lock' = "leaked"
                 THEN xp' = [xp EXCEPT ![nconns'] = Freed(fd)]
                      /\ UNCHANGED <<open, stale>>
                 ELSE \/ /\ xp' = [xp EXCEPT ![nconns'] = [NewXprt(fd) EXCEPT !.nonblock = nonblock]]
                         /\ open' = open \cup {fd}
                         /\ UNCHANGED stale
                      \/ /\ xp' = [xp EXCEPT ![nconns'] = NewXprt(fd)]
                         /\ stale' = TRUE /\ UNCHANGED open
           \/ UNCHANGED <<registry, xp, open, stale>>
    /\ input' = [input EXCEPT ![0] = @ - 1]
    /\ Goto("check")
    /\ UNCHANGED <<mode, fd_setsize, hup, exited, nreqs>>

\* EMFILE: the connection silent for longest is closed and accept tried again.
AcceptCleans ==
    /\ pc = "recv" /\ cur = 0 /\ open = Fds /\ fd_lock = "free"
    /\ \/ \E x \in LeastActive : Destroy(x) /\ UNCHANGED loop
       \/ LeastActive = {} /\ Goto("check") /\ UNCHANGED <<registry, xp, kernel>>
    /\ UNCHANGED <<mode, fd_setsize, history>>

\* svc_vc_recv: a request is decoded, or what came is not one: a record that does not
\* decode or is not finished in time, or a header alone or the rest of a record on a
\* non-blocking connection.  The first part of a record, header and more, leaves that
\* one as it is (__xdrrec_getrec).
Recv ==
    /\ pc = "recv" /\ IsConn(cur) /\ xp[cur].st = "live" /\ input[xp[cur].fd] > 0
    /\ input' = [input EXCEPT ![xp[cur].fd] = @ - 1]
    /\ \/ xp' = [xp EXCEPT ![cur].idle = 0] /\ Goto("dispatch")
       \/ xp' = [xp EXCEPT ![cur].idle = 0, ![cur].died = TRUE] /\ Goto("check")
       \/ xp[cur].nonblock /\ xp' = [xp EXCEPT ![cur].idle = 0] /\ Goto("check")
    /\ UNCHANGED <<mode, fd_setsize, registry, open, hup, history>>

\* Nothing to read: end of stream, 35 seconds without input on a blocking
\* connection, or a non-blocking one that expected data.
RecvNothing ==
    /\ pc = "recv" /\ IsConn(cur) /\ xp[cur].st = "live" /\ input[xp[cur].fd] = 0
    /\ xp' = [xp EXCEPT ![cur].died = TRUE]
    /\ Goto("check")
    /\ UNCHANGED <<mode, fd_setsize, registry, kernel, history>>

\* The rest of svc_getreq_common's loop body: authentication, the search of the
\* callout list and the service routine, which replies (write_vc may fail) and may
\* call svc_exit or destroy a connection, its own included: the jump to call_done then
\* passes over the check below.
Dispatch ==
    /\ pc = "dispatch"
    /\ \/ /\ Goto("check") /\ UNCHANGED <<registry, xp, kernel, exited>>  \* no such program
       \/ /\ Goto("stat")
          /\ xp' = [xp EXCEPT ![cur].died = TRUE]                        \* reply not sent
          /\ UNCHANGED <<registry, kernel, exited>>
       \/ /\ Goto("stat") /\ UNCHANGED <<registry, xp, kernel, exited>>
       \/ /\ Goto("stat") /\ fd_lock = "free"                            \* svc_exit
          /\ Zeroed /\ exited' = TRUE
          /\ UNCHANGED <<xports, fd_lock, xp, kernel>>
       \/ /\ Goto("stat") /\ UNCHANGED exited
          /\ \E x \in Xprts : /\ IsConn(x) /\ xp[x].st = "live" /\ xports[xp[x].fd] = x
                              /\ Destroy(x)
    /\ UNCHANGED <<mode, fd_setsize, nconns, nreqs, reused, stale>>

\* Only on the paths that did not jump to call_done: is the transport still there?
Check ==
    /\ pc = "check" /\ fd_lock = "free"
    /\ IF xports[xp[cur].fd] = cur THEN Goto("stat") ELSE Served
    /\ UNCHANGED <<mode, fd_setsize, registry, xp, kernel, history>>

\* Mutant: a connection is read again whether or not it has input.
StatAlwaysMore ==
    /\ pc = "stat" /\ xp[cur].st = "live"
    /\ IF xp[cur].died THEN Destroy(cur) ELSE UNCHANGED <<registry, xp, kernel>>
    /\ IF IsConn(cur) /\ ~xp[cur].died THEN Goto("recv") ELSE Served
    /\ UNCHANGED <<mode, fd_setsize, history>>

\* call_done: svc_vc_stat or rendezvous_stat.  Of a transport its routine has destroyed
\* they read freed memory: the process may end; else the loop goes on, and whatever it
\* reads there finds nothing more to unregister or to close.
Stat ==
    /\ pc = "stat"
    /\ \/ xp[cur].st = "live" /\ xp[cur].died /\ Destroy(cur) /\ Served
       \/ ~xp[cur].died /\ Served /\ UNCHANGED <<registry, xp, kernel>>
       \/ /\ xp[cur].st = "live" /\ ~xp[cur].died /\ IsConn(cur)            \* XPRT_MOREREQS
          /\ ~xp[cur].nonblock /\ input[xp[cur].fd] > 0
          /\ Goto("recv") /\ UNCHANGED <<registry, xp, kernel>>
       \/ xp[cur].st = "freed" /\ Goto("crashed") /\ UNCHANGED <<registry, xp, kernel>>
    /\ UNCHANGED <<mode, fd_setsize, history>>
-----------------------------------------------------------------------------
(* Other threads and the peers *)

\* svc_exit from another thread.
SvcExit ==
    /\ ~exited /\ fd_lock = "free"
    /\ Zeroed /\ exited' = TRUE
    /\ UNCHANGED <<mode, fd_setsize, xports, fd_lock, xp, kernel, loop,
                   nconns, nreqs, reused, stale>>

Connected == {f \in open : \E x \in Xprts : IsConn(x) /\ xp[x].st = "live" /\ xp[x].fd = f}

Connect ==
    /\ input[0] + nconns < MaxConns
    /\ input' = [input EXCEPT ![0] = @ + 1]
    /\ UNCHANGED <<mode, fd_setsize, registry, xp, open, hup, loop, history>>
Send ==
    /\ nreqs < MaxReqs /\ nreqs' = nreqs + 1
    /\ \E f \in Connected \ hup, k \in 1..2 : input' = [input EXCEPT ![f] = @ + k]
    /\ UNCHANGED <<mode, fd_setsize, registry, xp, open, hup, loop,
                   exited, nconns, reused, stale>>
Hangup ==
    /\ \E f \in Connected \ hup : hup' = hup \cup {f}
    /\ UNCHANGED <<mode, fd_setsize, registry, xp, open, input, loop, history>>
\* Time passes for the connections that hear nothing.
Tick ==
    /\ \E x \in Xprts : xp[x].st = "live" /\ IsConn(x) /\ xp[x].idle <= IdleLimit
    /\ xp' = [x \in Xprts |-> IF xp[x].st = "live" /\ IsConn(x) /\ xp[x].idle <= IdleLimit
                              THEN [xp[x] EXCEPT !.idle = @ + 1] ELSE xp[x]]
    /\ UNCHANGED <<mode, fd_setsize, registry, kernel, loop, history>>

Loop == \/ Copy \/ PollEvents \/ PollFails \/ Interrupted \/ CleanIdle \/ Serve
        \/ Accept \/ AcceptCleans \/ Recv \/ RecvNothing \/ Dispatch \/ Check \/ Stat
Peers == SvcExit \/ Connect \/ Send \/ Hangup \/ Tick
Next == Loop \/ Peers

Spec == Init /\ [][Next]_vars
FairSpec == Spec /\ WF_vars(Loop)
-----------------------------------------------------------------------------
TypeOK ==
    /\ mode \in Modes /\ fd_setsize \in FdSetSizes
    /\ xports \in [Fds -> Xprts \cup {NoXprt}]
    /\ fdset \subseteq Fds /\ fdmax \in Fds \cup {-1}
    /\ fdp \in Seq(Fds \cup {-1}) /\ fd_lock \in {"free", "leaked"}
    /\ xp \in [Xprts -> [st : {"none", "live", "freed"}, fd : Fds \cup {-1},
                         nonblock : BOOLEAN, died : BOOLEAN, idle : 0..(IdleLimit + 1)]]
    /\ open \subseteq Fds /\ input \in [Fds -> Nat] /\ hup \subseteq Fds
    /\ pc \in {"top", "poll", "serve", "recv", "dispatch", "check", "stat", "done", "crashed"}
    /\ pfd \in Seq(Fds \cup {-1}) /\ ready \in Seq(Fds) /\ cur \in Xprts
    /\ probs \in 0..MaxProbs
    /\ exited \in BOOLEAN /\ stale \in BOOLEAN
    /\ nconns \in 0..MaxConns /\ nreqs \in 0..MaxReqs /\ reused \subseteq Fds

\* While the registry can be read, every entry is a live transport of that
\* descriptor (svc.c: xprt_register, __xprt_do_unregister; svc_vc.c: the order of
\* unregistering and freeing, also in __svc_clean_idle).
RegistryIsLive ==
    fd_lock = "free" =>
        \A f \in Fds : xports[f] # NoXprt => xp[xports[f]].st = "live" /\ xp[xports[f]].fd = f

\* The descriptions of the descriptors agree: the set holds only registered ones, and
\* until svc_exit all of them, with the maximum the set's (afterwards unregistering a
\* transport the emptied set no longer has may move the maximum below a new member);
\* the poll array has the whole set (svc.c, svc_fdset.c).
SetsAgree ==
    LET registered == {f \in Fds : xports[f] # NoXprt}
    IN  /\ fdset \subseteq registered
        /\ ~exited /\ fd_lock = "free" => fdset = registered /\ fdmax = Max(fdset \cup {-1})
        /\ fdset \subseteq Range(fdp)

\* svc_getreq_common reads, serves and checks only live transports, whatever routines and
\* the cleaning destroy meanwhile (svc.c:690-772).  The one call_done asks for its state
\* may be freed, by its own routine; then its descriptor is closed and registered for
\* nothing, so that destroying it again reaches no other transport.
CurrentIsLive ==
    /\ pc \in {"recv", "dispatch", "check"} => xp[cur].st = "live"
    /\ pc = "stat" /\ xp[cur].st # "live" =>
          xports[xp[cur].fd] = NoXprt /\ xp[cur].fd \notin open

\* svc_run returns only after svc_exit, unless a closed descriptor stayed registered
\* or the poll array has a hole, which rpc_poll takes for a bad descriptor.
LoopEndsForAReason == pc = "done" => exited \/ stale \/ -1 \in Range(pfd)

\* Whatever is accepted, destroyed, cleaned or emptied by svc_exit, the views of the
\* descriptors fit each other, nothing freed is in them or read from, and the loop does
\* not take them for empty (svc.c, svc_run.c).
RegistryIsSound ==
    TypeOK /\ RegistryIsLive /\ SetsAgree /\ CurrentIsLive /\ LoopEndsForAReason

\* "Check if the xprt has been disconnected in a recursive call in the service dispatch
\* routine. If so, then break." (svc.c:763-767): no freed transport is asked for its state.
DisconnectedIsNoticed == pc = "stat" => xp[cur].st # "freed"

\* A connection is declared dead or destroyed, if it was not declared dead before, for one
\* of these causes only: in its or another's service (a routine destroys it, its reply is
\* not sent); read when it has input or its peer has gone; closed by __svc_clean_idle,
\* non-blocking and silent, when nothing happens for 30 seconds or accept finds no
\* descriptor.  Else its descriptor had been reported ready for another connection, which
\* accept's cleaning closed (svc_vc.c:338), or a closed one was left registered.
ConnectionsEndForACause ==
    [][\A x \in Xprts :
         (/\ IsConn(x) /\ xp[x].st = "live" /\ ~xp[x].died
          /\ xp'[x].died \/ xp'[x].st = "freed")
         => \/ pc = "dispatch"
            \/ pc = "recv" /\ cur = x /\ HasEvent(xp[x].fd)
            \/ pc = "poll" /\ xp[x].nonblock /\ xp[x].idle > IdleLimit
            \/ pc = "recv" /\ cur = 0 /\ xp[x].nonblock /\ xp[x].idle > 0 /\ open = Fds
            \/ xp[x].fd \in reused \/ stale]_vars

\* Once svc_exit has emptied the set and nothing is added again, svc_run returns, or the
\* process has ended over a freed transport (svc_run.c:219-233).
ExitStopsLoop == <>[](exited /\ fdset = {}) => <>(pc \in {"done", "crashed"})
=============================================================================
