------------------------------ MODULE WinSock -------------------------------
(***************************************************************************)
(* The descriptors of the Windows port (libsrc/win32/win32_socket.c): the  *)
(* table that numbers sockets and named pipes, overlapped input on pipes,  *)
(* and rpc_poll, which waits for both.                                     *)
(*                                                                         *)
(* A server polls its listening pipe, the connections it accepts and a     *)
(* datagram socket, and reads what is reported; another thread opens and   *)
(* closes sockets of its own in the same table.  Pipes and sockets of the  *)
(* system, and the peers, are modelled as the code uses them: a pending    *)
(* operation completes and signals its event; a socket records a network   *)
(* event, and again after the call that takes its input.  Bytes are        *)
(* numbered in the order they are sent.                                    *)
(***************************************************************************)
EXTENDS Integers, Sequences, FiniteSets, FiniteSetsExt, SequencesExt

CONSTANTS
    Slots,        \* fds_win32, numbered without SOCKFD_BASE
    Local,        \* whether servers have a listening pipe: a set of booleans
    Blocking,     \* whether their connections block (no CONNMAXREC): a set of booleans
    RdBuffer,     \* sizeof rdbuffer, in bytes
    Counts,       \* what the server asks of read
    Messages,     \* lengths of the messages peers send
    MaxConns, MaxSends, MaxDgrams, MaxOpens, MaxFaults   \* bounds

ASSUME WinSockAssumption ==
    /\ IsFiniteSet(Slots) /\ Slots = 0..(Cardinality(Slots) - 1)
    /\ Local \subseteq BOOLEAN /\ Blocking \subseteq BOOLEAN /\ RdBuffer \in Nat \ {0}
    /\ Counts \subseteq Nat \ {0} /\ Messages \subseteq Nat \ {0}
    /\ MaxConns \in Nat /\ MaxSends \in Nat /\ MaxDgrams \in Nat
    /\ MaxOpens \in Nat /\ MaxFaults \in Nat

Pipes == 1..(MaxConns + 1)
Udp == 0     \* the server's socket
Other == -1  \* the other thread's
Free == -2   \* of a slot: its handle is 0
Threads == {"server", "user"}
Files == Pipes \cup {Udp, Other}
Nobody == "nobody"

VARIABLES
    fds, fds_next, fds_lock,   \* the table; the lock is "raw" until its first use
    pc, file, slot,            \* of each thread: what it is registering, and where
    fd,                        \* what its owner takes for the descriptor of a file
    pipe, kernel,              \* pipes: struct Pipe, and what the system keeps
    sock,                      \* the datagram socket
    reported, ret,             \* result of rpc_poll
    count,                     \* bytes pipe_read has yet to return
    raced,                     \* history: two threads initialised fds_lock
    lost,                      \* history: pipes whose peer left while no read was pending
    conns, sends, dgrams, opens, faults   \* history: what the bounds count

table == <<fds, fds_next, fds_lock>>
thread == <<pc, file, slot>>
io == <<pipe, kernel, sock>>
polled == <<reported, ret, count>>
bounds == <<conns, sends, dgrams, opens, faults>>
vars == <<table, thread, fd, io, polled, raced, lost, bounds>>

NoPipe == [st |-> "none", rdpending |-> FALSE, rdevents |-> "none", buffer |-> << >>, event |-> FALSE]
NoPeer == [peer |-> "none", op |-> "none", queue |-> << >>, sent |-> 0, got |-> << >>]

Init ==
    /\ fds = [s \in Slots |-> Free] /\ fds_next = 0 /\ fds_lock = "raw"
    /\ pc = [server |-> "boot", user |-> "idle"]
    /\ file = [t \in Threads |-> Free] /\ slot = [t \in Threads |-> -1]
    /\ fd = [f \in Files |-> -1]
    /\ pipe = [p \in Pipes |-> NoPipe] /\ kernel = [p \in Pipes |-> NoPeer]
    /\ sock = [queued |-> 0, recorded |-> {"write"}, armed |-> TRUE, revents |-> FALSE]
    /\ reported = {} /\ ret = 0 /\ count = 0
    /\ raced = FALSE /\ lost = {}
    /\ conns = 0 /\ sends = 0 /\ dgrams = 0 /\ opens = 0 /\ faults = 0

Goto(t, place) == pc' = [pc EXCEPT ![t] = place]
At(t, from, to) == pc[t] = from /\ Goto(t, to)
-----------------------------------------------------------------------------
(* fd_assign and fd_release *)

Assign(t, f) == Goto(t, "test") /\ file' = [file EXCEPT ![t] = f] /\ UNCHANGED slot

\* The lock is initialised by whoever finds it raw.
Test(t) ==
    /\ pc[t] = "test" /\ Goto(t, IF fds_lock = "raw" THEN "init" ELSE "enter")
    /\ UNCHANGED <<table, file, slot, fd, io, polled, raced, lost, bounds>>
InitLock(t) ==
    /\ At(t, "init", "enter")
    /\ fds_lock' = Nobody /\ raced' = (raced \/ fds_lock # "raw")
    /\ UNCHANGED <<fds, fds_next, file, slot, fd, io, polled, lost, bounds>>

\* Mutant: the lock is not waited for.
EnterAlways(t) ==
    /\ At(t, "enter", "pick") /\ fds_lock' = t
    /\ UNCHANGED <<fds, fds_next, file, slot, fd, io, polled, raced, lost, bounds>>
Enter(t) ==
    /\ fds_lock = Nobody /\ At(t, "enter", "pick") /\ fds_lock' = t
    /\ UNCHANGED <<fds, fds_next, file, slot, fd, io, polled, raced, lost, bounds>>

\* The next free slot from fds_next on, and round to the first; -1 if there is none.
Pick(t) ==
    /\ At(t, "pick", "store")
    /\ LET free == {s \in Slots : fds[s] = Free}
           next == {s \in free : s >= fds_next}
       IN  slot' = [slot EXCEPT ![t] = IF next # {} THEN Min(next)
                                       ELSE IF free # {} THEN Min(free) ELSE -1]
    /\ UNCHANGED <<table, file, fd, io, polled, raced, lost, bounds>>
Store(t) ==
    /\ At(t, "store", "assigned")
    /\ IF slot[t] = -1 THEN fds_next' = 0 /\ UNCHANGED fds
       ELSE fds' = [fds EXCEPT ![slot[t]] = file[t]] /\ fds_next' = slot[t] + 1
    /\ fds_lock' = Nobody
    /\ UNCHANGED <<file, slot, fd, io, polled, raced, lost, bounds>>

FdAssign(t) == Test(t) \/ InitLock(t) \/ Enter(t) \/ Pick(t) \/ Store(t)

\* fd_release, whose caller has the file's descriptor.
Release(f) ==
    /\ fds_lock = Nobody
    /\ fds' = [fds EXCEPT ![fd[f]] = Free] /\ fd' = [fd EXCEPT ![f] = -1]
    /\ UNCHANGED <<fds_next, fds_lock>>
-----------------------------------------------------------------------------
(* The other thread: rpc_socket and rpc_close *)

Open ==
    /\ pc["user"] = "idle" /\ fd[Other] = -1
    /\ opens < MaxOpens /\ opens' = opens + 1
    /\ Assign("user", Other)
    /\ UNCHANGED <<table, fd, io, polled, raced, lost, conns, sends, dgrams, faults>>
Opened ==
    /\ At("user", "assigned", "idle") /\ fd' = [fd EXCEPT ![Other] = slot["user"]]
    /\ slot' = [slot EXCEPT !["user"] = -1] /\ file' = [file EXCEPT !["user"] = Free]
    /\ UNCHANGED <<table, io, polled, raced, lost, bounds>>
Close ==
    /\ pc["user"] = "idle" /\ fd[Other] # -1
    /\ Release(Other)
    /\ UNCHANGED <<thread, io, polled, raced, lost, bounds>>
-----------------------------------------------------------------------------
(* Pipes: struct Pipe with what the system keeps for it, [u : pipe, k : kernel] *)

\* ReadFile: a message, or as much of it as the buffer takes, is there; the peer has
\* gone; or the operation is pending.
pipe_io_read(k) ==
    IF k.queue # << >>
    THEN LET m == Head(k.queue)
             n == Min({Len(m), RdBuffer})
             rest == SubSeq(m, n + 1, Len(m))
         IN  [u |-> [NoPipe EXCEPT !.st = "conn", !.rdevents = "in", !.event = TRUE,
                                   !.buffer = SubSeq(m, 1, n)],
              k |-> [k EXCEPT !.op = "none",
                              !.queue = IF rest = << >> THEN Tail(@) ELSE <<rest>> \o Tail(@)]]
    ELSE IF k.peer = "gone"
    THEN [u |-> [NoPipe EXCEPT !.st = "conn", !.rdevents = "hup"], k |-> [k EXCEPT !.op = "none"]]
    ELSE [u |-> [NoPipe EXCEPT !.st = "conn", !.rdpending = TRUE], k |-> [k EXCEPT !.op = "pending"]]

\* GetOverlappedResult of an operation that has completed.
pipe_io_complete(p) ==
    [pipe[p] EXCEPT !.rdpending = FALSE, !.rdevents = IF kernel[p].op = "eof" THEN "hup" ELSE "in"]

\* A new instance of the pipe u: it waits for a client, and what rdevents says stays;
\* it has one already; or it cannot be made, and u has no event.
Waiting(u) == [u |-> [u EXCEPT !.st = "listen", !.rdpending = TRUE, !.event = FALSE],
               k |-> [NoPeer EXCEPT !.op = "pending"]]
Connected(u) == [u |-> [u EXCEPT !.st = "listen", !.rdpending = FALSE, !.rdevents = "in", !.event = FALSE],
                 k |-> [NoPeer EXCEPT !.peer = "up"]]
Deaf(u) == [u |-> [u EXCEPT !.st = "deaf", !.event = FALSE], k |-> NoPeer]
pipe_listen(u, x, failures) ==
    /\ conns' = conns + (IF x = Connected(u) THEN 1 ELSE 0) /\ conns' <= MaxConns
    /\ faults' = faults + failures + (IF x = Deaf(u) THEN 1 ELSE 0) /\ faults' <= MaxFaults
Instances(u) == {Waiting(u), Connected(u), Deaf(u)}

Becomes(p, x) == pipe' = [pipe EXCEPT ![p] = x.u] /\ kernel' = [kernel EXCEPT ![p] = x.k]
-----------------------------------------------------------------------------
(* The server: its transports *)

Boot ==
    /\ pc["server"] = "boot"
    /\ \/ TRUE \in Local /\ fd[1] = -1 /\ Assign("server", 1)
       \/ (FALSE \in Local \/ fd[1] # -1) /\ Assign("server", Udp)
    /\ UNCHANGED <<table, fd, io, polled, raced, lost, bounds>>
Booted ==
    /\ pc["server"] = "assigned" /\ fd[file["server"]] = -1
    /\ fd' = [fd EXCEPT ![file["server"]] = slot["server"]]
    /\ IF file["server"] = Udp THEN Goto("server", "top") /\ UNCHANGED <<pipe, kernel, conns, faults>>
       ELSE \E x \in Instances(NoPipe) :
               /\ pipe_listen(NoPipe, x, 0) /\ Becomes(1, x)
               /\ Goto("server", IF x = Deaf(NoPipe) THEN "stopped" ELSE "boot")
    /\ slot' = [slot EXCEPT !["server"] = -1] /\ file' = [file EXCEPT !["server"] = Free]
    /\ UNCHANGED <<table, sock, polled, raced, lost, sends, dgrams, opens>>

\* The file the server turns to among those reported; the list of rpc_poll is in order.
Serving(f) == pc["server"] = "serve" /\ f = fds[Min(reported)]
NextFile == Goto("server", "next") /\ reported' = reported \ {Min(reported)}

\* pipe_accept of the connection that listening pipe p has become: a descriptor first.
\* An operation still pending is waited for.
Waited(p) == ~pipe[p].rdpending \/ kernel[p].op # "pending"
Accept(p) ==
    /\ Serving(p) /\ pipe[p].st = "listen" /\ Waited(p)
    /\ Assign("server", p)
    /\ UNCHANGED <<table, fd, io, polled, raced, lost, bounds>>
\* Mutant: the connection is not read.
AcceptedUnread(p) ==
    /\ pc["server"] = "assigned" /\ file["server"] = p /\ fd[p] # -1 /\ slot["server"] # -1
    /\ LET q == Min({x \in Pipes : pipe[x].st = "none"})
       IN  /\ fds' = [fds EXCEPT ![fd[p]] = q]
           /\ fd' = [fd EXCEPT ![p] = slot["server"], ![q] = fd[p]]
           /\ \E x \in Instances(NoPipe) :
                 /\ pipe_listen(NoPipe, x, 0)
                 /\ pipe' = [pipe EXCEPT ![p] = [NoPipe EXCEPT !.st = "conn"], ![q] = x.u]
                 /\ kernel' = [kernel EXCEPT ![p].op = "none", ![q] = x.k]
    /\ NextFile
    /\ slot' = [slot EXCEPT !["server"] = -1] /\ file' = [file EXCEPT !["server"] = Free]
    /\ UNCHANGED <<fds_next, fds_lock, sock, ret, count, raced, lost, sends, dgrams, opens>>
\* A new pipe takes the old descriptor, and listens; the connection is read.
Accepted(p) ==
    /\ pc["server"] = "assigned" /\ file["server"] = p /\ fd[p] # -1 /\ slot["server"] # -1
    /\ LET q == Min({x \in Pipes : pipe[x].st = "none"})
           r == pipe_io_read(kernel[p])
       IN  /\ fds' = [fds EXCEPT ![fd[p]] = q]
           /\ fd' = [fd EXCEPT ![p] = slot["server"], ![q] = fd[p]]
           /\ \E x \in Instances(NoPipe) :
                 /\ pipe_listen(NoPipe, x, 0)
                 /\ pipe' = [pipe EXCEPT ![p] = r.u, ![q] = x.u]
                 /\ kernel' = [kernel EXCEPT ![p] = r.k, ![q] = x.k]
    /\ NextFile
    /\ slot' = [slot EXCEPT !["server"] = -1] /\ file' = [file EXCEPT !["server"] = Free]
    /\ UNCHANGED <<fds_next, fds_lock, sock, ret, count, raced, lost, sends, dgrams, opens>>
\* No memory, or no descriptor: the client is cut off and the pipe listens again, with
\* the POLLIN for which it was accepted.
AcceptFails(p) ==
    /\ \/ Serving(p) /\ pipe[p].st = "listen" /\ Waited(p)
       \/ pc["server"] = "assigned" /\ file["server"] = p /\ fd[p] # -1 /\ slot["server"] = -1
    /\ \E x \in Instances(pipe[p]) :
          /\ pipe_listen(pipe[p], x, IF pc["server"] = "serve" THEN 1 ELSE 0)
          /\ Becomes(p, x)
    /\ lost' = lost \ {p}
    /\ NextFile /\ file' = [file EXCEPT !["server"] = Free]
    /\ UNCHANGED <<table, slot, fd, sock, ret, count, raced, sends, dgrams, opens>>

\* There is no pipe to accept from.
AcceptDeaf(p) ==
    /\ Serving(p) /\ pipe[p].st = "deaf"
    /\ NextFile
    /\ UNCHANGED <<table, file, slot, fd, io, ret, count, raced, lost, bounds>>

\* pipe_read of a connection: once over the loop.
ReadStart(p) ==
    /\ Serving(p) /\ pipe[p].st = "conn" /\ pipe[p].rdevents = "in"
    /\ Goto("server", "read") /\ count' \in Counts
    /\ UNCHANGED <<table, file, slot, fd, io, reported, ret, raced, lost, bounds>>
\* Mutant: the next message is read over what is left of this one.
ReadRearms(p) ==
    /\ pc["server"] = "read" /\ p = fds[Min(reported)]
    /\ LET n == Min({count, Len(pipe[p].buffer)})
           k == [kernel[p] EXCEPT !.got = @ \o SubSeq(pipe[p].buffer, 1, n)]
       IN  /\ Becomes(p, pipe_io_read(k))
           /\ count' = count - n
    /\ IF count' > 0 /\ pipe'[p].rdevents = "in" THEN UNCHANGED <<pc, reported>> ELSE NextFile
    /\ UNCHANGED <<table, file, slot, fd, sock, ret, raced, lost, bounds>>
Read(p) ==
    /\ pc["server"] = "read" /\ p = fds[Min(reported)]
    /\ LET n == Min({count, Len(pipe[p].buffer)})
           k == [kernel[p] EXCEPT !.got = @ \o SubSeq(pipe[p].buffer, 1, n)]
           left == SubSeq(pipe[p].buffer, n + 1, Len(pipe[p].buffer))
       IN  /\ Becomes(p, IF left = << >> THEN pipe_io_read(k)
                         ELSE [u |-> [pipe[p] EXCEPT !.buffer = left], k |-> k])
           /\ count' = count - n
    /\ IF count' > 0 /\ pipe'[p].rdevents = "in" THEN UNCHANGED <<pc, reported>> ELSE NextFile
    /\ UNCHANGED <<table, file, slot, fd, sock, ret, raced, lost, bounds>>
\* The peer has gone: read_vc's read fails and the connection is closed.
ReadFails(p) ==
    /\ FALSE \in Blocking
    /\ Serving(p) /\ pipe[p].st = "conn" /\ pipe[p].rdevents = "hup"
    /\ Release(p)
    /\ Becomes(p, [u |-> NoPipe, k |-> NoPeer]) /\ lost' = lost \ {p}
    /\ NextFile /\ UNCHANGED <<file, slot, sock, ret, count, raced, bounds>>
\* The read of a connection that blocks comes after a poll for POLLIN; the event is still
\* set, pipe_io_complete finds the same end, and read_vc polls again, for ever.
PollAgain(p) ==
    /\ TRUE \in Blocking
    /\ Serving(p) /\ pipe[p].st = "conn" /\ pipe[p].rdevents = "hup"
    /\ Goto("server", "again") /\ file' = [file EXCEPT !["server"] = p]
    /\ UNCHANGED <<table, slot, fd, io, polled, raced, lost, bounds>>

\* rpc_recvfrom of one datagram; the system records the event anew if there are more.
Recv ==
    /\ Serving(Udp)
    /\ LET n == IF sock.queued > 0 THEN sock.queued - 1 ELSE 0
       IN  sock' = [queued |-> n, armed |-> n = 0, revents |-> FALSE,
                    recorded |-> IF n > 0 THEN sock.recorded \cup {"read"} ELSE sock.recorded]
    /\ NextFile /\ UNCHANGED <<table, file, slot, fd, pipe, kernel, ret, count, raced, lost, bounds>>
Done ==
    /\ pc["server"] = "next" /\ Goto("server", IF reported = {} THEN "top" ELSE "serve")
    /\ ret' = 0 /\ count' = 0
    /\ UNCHANGED <<table, file, slot, fd, io, reported, raced, lost, bounds>>
-----------------------------------------------------------------------------
(* rpc_poll and rpc_select *)

Polled == {fd[f] : f \in Pipes \cup {Udp}} \ {-1}
Bad == \E s \in Polled : fds[s] = Free
SomePipe == \E s \in Polled : fds[s] \in Pipes
Cached == {s \in Polled : \/ fds[s] \in Pipes /\ pipe[fds[s]].rdevents = "in"
                          \/ fds[s] = Udp /\ sock.revents}
Readable == {s \in Polled : fds[s] = Udp /\ sock.queued > 0}
Signalled == {s \in Polled : \/ fds[s] \in Pipes /\ pipe[fds[s]].event
                             \/ fds[s] = Udp /\ sock.recorded # {}}

Report(events, n) == Goto("server", "report") /\ reported' = events /\ ret' = n

\* What earlier calls have found counts at once, if there are pipes.
PollCached ==
    /\ pc["server"] = "top" /\ ~Bad /\ SomePipe
    /\ IF Cached # {} THEN Report(Cached, Cardinality(Cached))
       ELSE Goto("server", "wait") /\ UNCHANGED <<reported, ret>>
    /\ UNCHANGED <<table, file, slot, fd, io, count, raced, lost, bounds>>
\* Sockets only: WSAPoll counts the readable ones, and then every revents is cleared.
PollSockets ==
    /\ pc["server"] = "top" /\ ~Bad /\ ~SomePipe /\ Readable # {}
    /\ Report({}, Cardinality(Readable))
    /\ UNCHANGED <<table, file, slot, fd, io, count, raced, lost, bounds>>
\* The first event signalled is turned into what is reported of its descriptor, if
\* anything is (EINTR); the wait fails if a pipe has no event.
PollEvent ==
    /\ pc["server"] = "wait"
    /\ IF \E s \in Polled : fds[s] \in Pipes /\ pipe[fds[s]].st = "deaf"
       THEN Goto("server", "stopped") /\ UNCHANGED <<reported, ret, io>>
       ELSE /\ Signalled # {}
            /\ LET s == Min(Signalled) IN
               \/ /\ fds[s] = Udp
                  /\ sock' = [sock EXCEPT !.recorded = {}, !.revents = @ \/ "read" \in sock.recorded]
                  /\ IF "read" \in sock.recorded THEN Report({s}, 1)
                     ELSE Goto("server", "top") /\ UNCHANGED <<reported, ret>>
                  /\ UNCHANGED <<pipe, kernel>>
               \/ /\ fds[s] \in Pipes
                  /\ pipe' = [pipe EXCEPT ![fds[s]] = pipe_io_complete(fds[s])]
                  /\ Report({s}, 1) /\ UNCHANGED <<kernel, sock>>
    /\ UNCHANGED <<table, file, slot, fd, count, raced, lost, bounds>>
\* rpc_select returns the descriptors with revents, and their number.
Select ==
    /\ pc["server"] = "report" /\ Goto("server", "next")
    /\ UNCHANGED <<table, file, slot, fd, io, polled, raced, lost, bounds>>
-----------------------------------------------------------------------------
(* Peers *)

Connect(p) ==
    /\ conns < MaxConns /\ conns' = conns + 1
    /\ pipe[p].st = "listen" /\ kernel[p].op = "pending"
    /\ kernel' = [kernel EXCEPT ![p].peer = "up", ![p].op = "ok"]
    /\ pipe' = [pipe EXCEPT ![p].event = TRUE]
    /\ UNCHANGED <<table, thread, fd, sock, polled, raced, lost, sends, dgrams, opens, faults>>
Send(p, n) ==
    /\ sends < MaxSends /\ sends' = sends + 1
    /\ kernel[p].peer = "up"
    /\ LET k == kernel[p]
           m == [i \in 1..n |-> k.sent + i]
           r == pipe_io_read([k EXCEPT !.queue = <<m>>, !.sent = @ + n])
       IN  IF pipe[p].st = "conn" /\ k.op = "pending"
           THEN Becomes(p, [u |-> [pipe[p] EXCEPT !.buffer = r.u.buffer, !.event = TRUE],
                            k |-> [r.k EXCEPT !.op = "ok"]])
           ELSE /\ kernel' = [kernel EXCEPT ![p].queue = Append(@, m), ![p].sent = @ + n]
                /\ UNCHANGED pipe
    /\ UNCHANGED <<table, thread, fd, sock, polled, raced, lost, conns, dgrams, opens, faults>>
Hangup(p) ==
    /\ kernel[p].peer = "up"
    /\ IF pipe[p].st = "conn" /\ kernel[p].op = "pending"
       THEN /\ kernel' = [kernel EXCEPT ![p].peer = "gone", ![p].op = "eof"]
            /\ pipe' = [pipe EXCEPT ![p].event = TRUE] /\ UNCHANGED lost
       ELSE /\ kernel' = [kernel EXCEPT ![p].peer = "gone"]
            /\ lost' = lost \cup {p} /\ UNCHANGED pipe
    /\ UNCHANGED <<table, thread, fd, sock, polled, raced, bounds>>
Datagram ==
    /\ fd[Udp] # -1 /\ dgrams < MaxDgrams /\ dgrams' = dgrams + 1
    /\ sock' = [sock EXCEPT !.queued = @ + 1, !.armed = FALSE,
                            !.recorded = IF sock.armed THEN @ \cup {"read"} ELSE @]
    /\ UNCHANGED <<table, thread, fd, pipe, kernel, polled, raced, lost, conns, sends, opens, faults>>

Server ==
    \/ Boot \/ Booted \/ PollCached \/ PollSockets \/ PollEvent \/ Select \/ Recv \/ Done
    \/ FdAssign("server")
    \/ \E p \in Pipes : \/ Accept(p) \/ Accepted(p) \/ AcceptFails(p) \/ AcceptDeaf(p)
                        \/ ReadStart(p) \/ Read(p) \/ ReadFails(p) \/ PollAgain(p)
User == FdAssign("user") \/ Opened
Peers ==
    \/ Datagram
    \/ \E p \in Pipes : Connect(p) \/ Hangup(p) \/ \E n \in Messages : Send(p, n)
\* A lock initialised again while it is in use behaves anyhow: the model stops there.
Next == ~raced /\ (Server \/ User \/ Open \/ Close \/ Peers)
Spec == Init /\ [][Next]_vars
FairSpec == Spec /\ WF_vars(~raced /\ Server) /\ WF_vars(~raced /\ User)
-----------------------------------------------------------------------------
TypeOK ==
    /\ fds \in [Slots -> Files \cup {Free}] /\ fd \in [Files -> Slots \cup {-1}]
    /\ fds_lock \in Threads \cup {Nobody, "raw"} /\ reported \subseteq Slots
    /\ \A p \in Pipes : /\ pipe[p].st \in {"none", "listen", "conn", "deaf"}
                        /\ pipe[p].rdevents \in {"none", "in", "hup"}
                        /\ kernel[p].op \in {"none", "pending", "ok", "eof"}

\* What a thread has opened keeps its descriptor, and no other thread's, until it
\* closes it, and every slot in use has an owner, whatever is accepted and closed
\* meanwhile, unless two threads raced for the first use of the lock (fd_assign).
DescriptorsAreSound ==
    /\ TypeOK
    /\ ~raced =>
         /\ \A f \in Files : fd[f] # -1 => fds[fd[f]] = f
         /\ \A s \in Slots : \/ fds[s] = Free \/ fd[fds[s]] = s
                             \/ \E t \in Threads : pc[t] = "assigned" /\ slot[t] = s

\* Each byte a peer has sent over a pipe is in one place, in order: with the service,
\* in the buffer or with the system, however messages are split and reads divided; and
\* when svc_run's rpc_poll waits, a pipe whose event is set has an operation to complete:
\* bytes already read are not counted anew (of read_vc's poll, see CompletesPending).
PipesAreSound ==
    /\ \A p \in Pipes :
         kernel[p].got \o pipe[p].buffer \o FlattenSeq(kernel[p].queue) = [i \in 1..kernel[p].sent |-> i]
    /\ pc["server"] = "wait" /\ ~raced =>
         \A p \in Pipes : fd[p] # -1 /\ pipe[p].event => pipe[p].rdpending

\* While the server polls, connections are accepted, bytes and datagrams read, and the
\* connection of a peer that left when a read was pending is closed, unless: a pipe could
\* not listen again; there are only sockets, of which nothing is reported (rpc_poll); the
\* server polls for ever a connection that blocks, whose peer left (read_vc); or it
\* accepts from a pipe that listens again, to which nobody has connected (pipe_accept).
Accepting(p) == pipe[p].st = "listen" /\ pipe[p].rdevents = "in" /\ ~Waited(p)
Broken == raced \/ ~SomePipe \/ pc["server"] = "again" \/ \E p \in Pipes : pipe[p].st = "deaf" \/ Accepting(p)
Unserved(p) ==
    \/ pipe[p].st = "listen" /\ kernel[p].peer # "none"
    \/ pipe[p].st = "conn" /\ Len(kernel[p].got) < kernel[p].sent
    \/ pipe[p].st = "conn" /\ kernel[p].peer = "gone" /\ p \notin lost
InputIsServed == []<>(Broken \/ (sock.queued = 0 /\ \A p \in Pipes : ~Unserved(p)))

\* rpc_select asserts that as many descriptors have events as rpc_poll has counted.
SelectCountsItsReports == pc["server"] = "report" => Cardinality(reported) = ret

\* pipe_io_complete, which read_vc's rpc_poll calls for a connection whose event is set,
\* asserts that an operation is pending.
CompletesPending ==
    pc["server"] = "again" => LET u == pipe[file["server"]] IN u.event => u.rdpending

\* pipe_io_read, which pipe_accept calls for the connection it returns, asserts that no
\* operation is pending.
ReadsWhenIdle ==
    pc["server"] = "assigned" /\ file["server"] \in Pipes /\ fd[file["server"]] # -1 /\ slot["server"] # -1
        => ~pipe[file["server"]].rdpending
=============================================================================
