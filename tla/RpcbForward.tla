---------------------------- MODULE RpcbForward ----------------------------
(***************************************************************************)
(* rpcbind's forwarding of indirect calls (rpcbind/rpcb_svc_com.c): a       *)
(* request of a remote caller is re-sent to the local service under a       *)
(* transaction id of rpcbind's own, remembered in a slot of the table FINFO *)
(* and, when the service replies, answered with the caller's id.  The       *)
(* single-threaded loop my_svc_run polls the descriptors up to *fdmax that  *)
(* are set in svc_fdset, hands replies to handle_reply and the rest to      *)
(* svc_getreq_poll.                                                         *)
(*                                                                          *)
(* External: the callers, the services and the datagram network, which may  *)
(* lose, duplicate and reorder; time(); the descriptors of other            *)
(* connections, which come and go.                                          *)
(***************************************************************************)
EXTENDS Integers, FiniteSets, SequencesExt

CONSTANTS
    NFORWARD,       \* slots of FINFO (64 in the code)
    MAXTIME_OFF,    \* age after which a slot is given up (300 s in the code)
    XidMod,         \* number of transaction ids (2^32 in the code)
    StartTimes,     \* values time() may have at the first forwarded request
    Calls,          \* requests of remote callers
    DgFds,          \* datagram descriptors requests arrive on
    FwdOf,          \* [DgFds -> Nat]: the forwarding descriptor of each
    ListenFds,      \* connection-oriented descriptors rpcbind listens on
    ConnFds,        \* descriptors accept() may return
    None, Error,    \* no call or datagram; an error reply instead of an answer
    MaxQueue,       \* bound: replies the receive buffer of a socket holds
    MaxTime,        \* bound: clock ticks
    MaxForwards     \* bound: requests forwarded

FwdFds  == {FwdOf[d] : d \in DgFds}
AllFds  == DgFds \cup FwdFds \cup ListenFds \cup ConnFds
Slots   == 0 .. NFORWARD - 1
Xids    == 0 .. XidMod - 1

ASSUME ForwardAssumption ==
    /\ NFORWARD \in Nat \ {0} /\ MAXTIME_OFF \in Nat
    /\ XidMod \in Nat \ {0} /\ XidMod % NFORWARD = 0
    /\ MaxForwards + 1 < XidMod \div NFORWARD
    /\ MaxForwards \in Nat /\ MaxTime \in Nat /\ MaxQueue \in Nat
    /\ StartTimes \subseteq Nat
    \* The descriptors are numbers, the highest is known, and accept() returns
    \* none of those rpcbind opened as it started.
    /\ AllFds \subseteq Nat /\ AllFds \ ConnFds # {}
    /\ \E m \in AllFds : \A fd \in AllFds : fd <= m
    /\ ConnFds \cap (FwdFds \cup ListenFds) = {}
    \* A call is what forward_register compares: caller's xid and address,
    \* reply type and version; a retransmission repeats it.
    /\ \A c \in Calls : c.kind \in {"INDIRECT", "CALLIT"} /\ c.fd \in DgFds

VARIABLES
    FINFO, rpcb_rmtcalls, lastxid,   \* rpcb_svc_com.c
    fdset, fdmax,                    \* svc_fdset.c
    pc, revents, pending,            \* where my_svc_run is in one iteration
    atService,                       \* requests forwarded, perhaps answered
    inbox,                           \* replies queued on a forwarding descriptor
    out,                             \* the datagram the last step sent, if any
    wasted,                          \* history: check_rmtcalls counted a reply nobody waits
                                     \* for, or a failure, with descriptors left to look at
    now, forwards                    \* clock and the bound's counter

vars == <<FINFO, rpcb_rmtcalls, lastxid, fdset, fdmax, pc, revents, pending,
          atService, inbox, out, wasted, now, forwards>>

Msgs == [xid : Xids, fd : FwdFds, call : Calls]

\* struct finfo; "call" stands for caller_xid, caller_addr, reply_type, versnum.
FInfo == [active : BOOLEAN, call : Calls \cup {None}, forward_xid : Xids,
          forward_fd : FwdFds \cup {0}, time : 0 .. MaxTime]

TypeOK ==
    /\ FINFO \in [Slots -> FInfo]
    /\ rpcb_rmtcalls \in 0 .. NFORWARD
    /\ lastxid \in {x \in Xids : x % NFORWARD = 0}
    /\ fdset \subseteq AllFds /\ fdmax \in Int
    /\ pc \in {"poll", "replies", "getreq"}
    /\ revents \subseteq AllFds
    /\ pending \in 0 .. NFORWARD
    /\ atService \subseteq Msgs
    /\ \A fd \in FwdFds : inbox[fd] \in Seq(Msgs) /\ Len(inbox[fd]) <= MaxQueue
    /\ out \in [to : Calls, of : Calls \cup {Error}] \cup {None}
    /\ wasted \in BOOLEAN
    /\ now \in 0 .. MaxTime /\ forwards \in 0 .. MaxForwards

-----------------------------------------------------------------------------
(* svc_fdset.c: fdmax sinks to a descriptor that is set. *)

svc_fdset_sanitize(max, set) ==
    LET below == {fd \in set : fd <= max}
    IN IF max < 0 THEN max
       ELSE IF below = {} THEN -1
       ELSE CHOOSE fd \in below : \A g \in below : g <= fd

svc_fdset_set(fd) ==
    /\ fdset' = fdset \cup {fd}
    /\ fdmax' = svc_fdset_sanitize(IF fd > fdmax THEN fd ELSE fdmax, fdset')

svc_fdset_clr(fd) ==
    /\ fdset' = fdset \ {fd}
    /\ fdmax' = svc_fdset_sanitize(fdmax, fdset')

-----------------------------------------------------------------------------
(* The table.  A value s = [finfo, rmt, max] is FINFO, rpcb_rmtcalls, fdmax. *)

Table == [finfo |-> FINFO, rmt |-> rpcb_rmtcalls, max |-> fdmax]

SetTable(s) == FINFO' = s.finfo /\ rpcb_rmtcalls' = s.rmt /\ fdmax' = s.max

free_slot_by_index(s, i) ==
    LET max == svc_fdset_sanitize(s.max, fdset)
    IN IF s.finfo[i].active
       THEN [s EXCEPT !.finfo[i].active = FALSE,
                      !.rmt = @ - 1,
                      !.max = IF s.finfo[i].forward_fd >= max THEN max - 1 ELSE max]
       ELSE s

free_slot_by_xid(s, xid) == free_slot_by_index(s, xid % NFORWARD)

\* A plausible bug: the slot number alone is trusted.
FindBySlot(xid) == {i \in Slots : i = xid % NFORWARD /\ FINFO[i].active}

\* The slot whose request was forwarded under xid: a set of at most one.
forward_find(xid) ==
    {i \in Slots : i = xid % NFORWARD /\ FINFO[i].active /\ FINFO[i].forward_xid = xid}

\* A plausible bug of the scan: it looks for the latest time.
ScanLatest(s, i, call) ==
    IF s.dup THEN s
    ELSE IF s.finfo[i].active /\ s.finfo[i].call = call THEN [s EXCEPT !.dup = TRUE]
    ELSE IF s.entry # -1 THEN s
    ELSE IF ~s.finfo[i].active THEN [s EXCEPT !.entry = i]
    ELSE IF s.finfo[i].time >= s.min
         THEN [s EXCEPT !.j = i, !.min = s.finfo[i].time] ELSE s

\* One round of forward_register's loop over the table.
Scan(s, i, call) ==
    LET f == s.finfo[i]
        t == IF f.active /\ now - f.time > MAXTIME_OFF
             THEN free_slot_by_index(s, i) ELSE s
    IN IF s.dup THEN s
       ELSE IF f.active /\ f.call = call
            THEN [s EXCEPT !.dup = TRUE, !.finfo[i].time = now]
       ELSE IF t.entry # -1 THEN t
       ELSE IF ~t.finfo[i].active THEN [t EXCEPT !.entry = i]
       ELSE IF f.time < t.min THEN [t EXCEPT !.j = i, !.min = f.time]
       ELSE t

\* The state of that loop after each number of rounds.
Rounds(call) ==
    LET after[n \in 0 .. NFORWARD] ==
          IF n = 0
          THEN [finfo |-> FINFO, rmt |-> rpcb_rmtcalls, max |-> fdmax,
                dup |-> FALSE, entry |-> -1, j |-> 0, min |-> FINFO[0].time]
          ELSE Scan(after[n - 1], n - 1, call)
    IN after

\* The loop: what the table is then, whether the call was there already, and
\* the slot to use, emptied.
Scanned(call) ==
    LET s == Rounds(call)[NFORWARD]
    IN IF s.dup THEN s
       ELSE IF s.entry # -1 THEN [s EXCEPT !.j = s.entry]
       ELSE free_slot_by_index(s, s.j)

\* A plausible bug: no guard against a wrap to zero.
NextXidWraps(seed) ==
    ((IF lastxid = 0 THEN seed * NFORWARD ELSE lastxid) + NFORWARD) % XidMod

\* lastxid, seeded from the clock, advanced by NFORWARD; never a zero xid.
NextXid(seed) ==
    LET last == ((IF lastxid = 0 THEN seed * NFORWARD ELSE lastxid) + NFORWARD) % XidMod
    IN IF (last + NFORWARD) % XidMod <= NFORWARD THEN NFORWARD ELSE last

\* The slot is filled in and the new transaction id encodes its number.
Fill(s, call, last) ==
    [s EXCEPT !.rmt = @ + 1,
              !.finfo[s.j] = [active |-> TRUE, call |-> call, time |-> now,
                              forward_xid |-> last + s.j, forward_fd |-> FwdOf[call.fd]]]

-----------------------------------------------------------------------------
(* rpcbproc_callit_com, called for a request on a datagram descriptor. *)

Complain(call) == IF call.kind = "INDIRECT" THEN out' = [to |-> call, of |-> Error]
                                            ELSE out' = None

\* svc_getreq_poll goes through the descriptors in their order.
FirstReady(fd) == fd \in revents /\ \A g \in revents : fd <= g

Keep(fd) == revents' = revents \ {fd} /\ UNCHANGED <<pc, pending, fdset, now>>

\* Whether the replies counted for nothing still matter: forwarding descriptors are left.
Wasted(one) == wasted' = ((wasted \/ one) /\ revents' \cap FwdFds # {})

\* The request is refused before it reaches the table: arguments, access
\* check, unknown program or version, no address, no forwarding descriptor.
CallitRefused(call) ==
    /\ Complain(call)
    /\ UNCHANGED <<FINFO, rpcb_rmtcalls, lastxid, fdmax, atService, inbox, forwards>>

\* forward_register finds the request in a slot, or netbufdup has no memory
\* for a new one (whose slot has been emptied by then).
CallitNotForwarded(call) ==
    /\ SetTable([finfo |-> Scanned(call).finfo, rmt |-> Scanned(call).rmt,
                 max |-> Scanned(call).max])
    /\ IF lastxid = 0 THEN \E seed \in StartTimes : lastxid' = (seed * NFORWARD) % XidMod
                      ELSE UNCHANGED lastxid
    /\ out' = None
    /\ UNCHANGED <<atService, inbox, forwards>>

\* A slot is taken and the request sent to the service; if building or sending
\* the message fails the slot is freed again and the caller told.
CallitForwarded(call, seed) ==
    LET s == Scanned(call)
        filled == Fill(s, call, NextXid(seed))
        xid == NextXid(seed) + s.j
    IN /\ ~s.dup
       /\ forwards < MaxForwards
       /\ forwards' = forwards + 1
       /\ lastxid' = NextXid(seed)
       /\ \/ /\ SetTable([finfo |-> filled.finfo, rmt |-> filled.rmt, max |-> filled.max])
             /\ atService' = atService \cup {[xid |-> xid, fd |-> FwdOf[call.fd], call |-> call]}
             /\ out' = None
          \/ /\ LET t == free_slot_by_xid(filled, xid)
                IN SetTable([finfo |-> t.finfo, rmt |-> t.rmt, max |-> t.max])
             /\ Complain(call)
             /\ UNCHANGED atService
       /\ UNCHANGED inbox

rpcbproc_callit_com(call) ==
    /\ pc = "getreq" /\ FirstReady(call.fd)
    /\ Keep(call.fd) /\ UNCHANGED wasted
    /\ \/ CallitRefused(call)
       \/ CallitNotForwarded(call)
       \/ \E seed \in StartTimes : CallitForwarded(call, seed)

-----------------------------------------------------------------------------
(* handle_reply, called for a forwarding descriptor that is readable. *)

Replies == {fd \in FwdFds : inbox[fd] # <<>>}

\* recvfrom takes the datagram that has waited longest.
Received(fd) == inbox' = [inbox EXCEPT ![fd] = Tail(@)]

\* A plausible bug: the loop ends one reply too early.
HandledTooFew(fd) ==
    /\ pc = "replies" /\ fd \in revents \cap FwdFds
    /\ \A g \in revents \cap FwdFds : fd <= g
    /\ revents' = revents \ {fd}
    /\ pc' = IF pending <= 2 \/ revents' \cap FwdFds = {} THEN "getreq" ELSE "replies"
    /\ pending' = IF pc' = "getreq" THEN 0 ELSE pending - 1
    /\ UNCHANGED <<lastxid, fdset, atService, now, forwards>>

Handled(fd) ==
    /\ pc = "replies" /\ fd \in revents \cap FwdFds
    /\ \A g \in revents \cap FwdFds : fd <= g
    /\ revents' = revents \ {fd}
    /\ LET last == pending = 1 \/ revents' \cap FwdFds = {}
       IN  /\ pc' = IF last THEN "getreq" ELSE "replies"
           /\ pending' = IF last THEN 0 ELSE pending - 1
    /\ UNCHANGED <<lastxid, fdset, atService, now, forwards>>

\* At "done:" the slot of the reply's xid is freed, whoever holds it.
Done(xid) == SetTable(IF xid = 0 THEN Table ELSE free_slot_by_xid(Table, xid))

\* A reply to a request in the table goes to its caller, a failure (an
\* unsuccessful reply) only if the call was indirect.
ReplyForwarded(fd) ==
    LET m == Head(inbox[fd]) IN
    /\ Handled(fd)
    /\ Received(fd) /\ Wasted(FALSE)
    /\ \E i \in forward_find(m.xid) :
          \/ out' = [to |-> FINFO[i].call, of |-> m.call]
          \/ Complain(FINFO[i].call)
    /\ Done(m.xid)

\* A reply to a request no longer in the table is dropped.
ReplyUnknown(fd) ==
    /\ Handled(fd)
    /\ Received(fd) /\ Wasted(TRUE)
    /\ forward_find(Head(inbox[fd]).xid) = {}
    /\ Done(Head(inbox[fd]).xid)
    /\ out' = None

\* recvfrom fails, or the reply cannot be decoded: reply_msg.rm_xid at "done:"
\* is an uninitialised value.
ReplyFails(fd) ==
    /\ Handled(fd)
    /\ \E xid \in Xids : Done(xid)
    /\ out' = None /\ UNCHANGED inbox /\ Wasted(TRUE)

-----------------------------------------------------------------------------
(* my_svc_run *)

Polled == {fd \in fdset : fd <= svc_fdset_sanitize(fdmax, fdset)}

\* poll() reports descriptors; a forwarding one is ready if a reply waits there.
Poll ==
    /\ pc = "poll"
    /\ \E other \in SUBSET (Polled \ FwdFds) :
          revents' = other \cup (Polled \cap Replies)
    /\ revents' # {}
    /\ LET none == rpcb_rmtcalls = 0 \/ revents' \cap FwdFds = {}
       IN  /\ pc' = IF none THEN "getreq" ELSE "replies"
           /\ pending' = IF none THEN 0 ELSE rpcb_rmtcalls
    /\ fdmax' = svc_fdset_sanitize(fdmax, fdset)
    /\ out' = None
    /\ UNCHANGED <<FINFO, rpcb_rmtcalls, lastxid, fdset, atService, inbox, wasted,
                   now, forwards>>

\* svc_getreq_poll on a forwarding descriptor: svc_dg_recv takes the datagram,
\* which is not a call.
NotACall(fd) ==
    /\ pc = "getreq" /\ FirstReady(fd) /\ fd \in FwdFds
    /\ Keep(fd)
    /\ Received(fd) /\ Wasted(FALSE)
    /\ out' = None
    /\ UNCHANGED <<FINFO, rpcb_rmtcalls, lastxid, fdmax, atService, forwards>>

\* svc_getreq_poll on a listening descriptor or a connection: a connection is
\* accepted, served, or found dead and destroyed.
Connection(fd) ==
    /\ pc = "getreq" /\ FirstReady(fd) /\ fd \in ListenFds \cup ConnFds
    /\ revents' = revents \ {fd}
    /\ \/ fd \in ListenFds /\ \E c \in ConnFds \ fdset : svc_fdset_set(c)
       \/ fd \in ConnFds /\ svc_fdset_clr(fd)
       \/ UNCHANGED <<fdset, fdmax>>
    /\ out' = None
    /\ UNCHANGED <<FINFO, rpcb_rmtcalls, lastxid, pc, pending, atService, inbox,
                   wasted, now, forwards>>

GetreqDone ==
    /\ pc = "getreq" /\ revents = {}
    /\ pc' = "poll" /\ out' = None
    /\ UNCHANGED <<FINFO, rpcb_rmtcalls, lastxid, fdset, fdmax, revents, pending, atService,
                   inbox, wasted, now, forwards>>

\* poll() times out: __svc_clean_idle closes an idle connection, if there is one.
CleanIdle ==
    /\ pc = "poll"
    /\ \/ \E fd \in fdset \cap ConnFds : svc_fdset_clr(fd)
       \/ UNCHANGED <<fdset, fdmax>>
    /\ out' = None
    /\ UNCHANGED <<FINFO, rpcb_rmtcalls, lastxid, pc, revents, pending, atService,
                   inbox, wasted, now, forwards>>

\* External: the reply of the service arrives, perhaps not for the last time.
\* A request or a reply that is lost is one whose reply never arrives.
ServiceReplies(m) ==
    /\ Len(inbox[m.fd]) < MaxQueue
    /\ inbox' = [inbox EXCEPT ![m.fd] = Append(@, m)]
    /\ atService' \in {atService, atService \ {m}}
    /\ out' = None
    /\ UNCHANGED <<FINFO, rpcb_rmtcalls, lastxid, fdset, fdmax, pc, revents, pending,
                   wasted, now, forwards>>

\* External: time passes; it shows only where the clock is read, while requests are
\* served.
Tick ==
    /\ pc = "getreq" /\ now < MaxTime /\ now' = now + 1
    /\ out' = None
    /\ UNCHANGED <<FINFO, rpcb_rmtcalls, lastxid, fdset, fdmax, pc, revents, pending,
                   atService, inbox, wasted, forwards>>

Init ==
    /\ FINFO = [i \in Slots |-> [active |-> FALSE, call |-> None, forward_xid |-> 0,
                                 forward_fd |-> 0, time |-> 0]]
    /\ rpcb_rmtcalls = 0 /\ lastxid = 0
    /\ fdset = AllFds \ ConnFds
    /\ fdmax = svc_fdset_sanitize(CHOOSE m \in fdset : \A g \in fdset : g <= m, fdset)
    /\ pc = "poll" /\ revents = {} /\ pending = 0
    /\ atService = {} /\ inbox = [fd \in FwdFds |-> <<>>] /\ out = None
    /\ wasted = FALSE /\ now = 0 /\ forwards = 0

Next ==
    \/ Poll \/ GetreqDone \/ CleanIdle \/ Tick
    \/ \E fd \in ListenFds \cup ConnFds : Connection(fd)
    \/ \E fd \in FwdFds : ReplyForwarded(fd) \/ ReplyUnknown(fd) \/ ReplyFails(fd) \/ NotACall(fd)
    \/ \E call \in Calls : rpcbproc_callit_com(call)
    \/ \E m \in atService : ServiceReplies(m)

Spec == Init /\ [][Next]_vars

-----------------------------------------------------------------------------
(* Properties. *)

Active == {i \in Slots : FINFO[i].active}

\* forward_find and free_slot_by_xid recover the slot from the transaction id
\* (forward_xid % NFORWARD) and take a zero id for "none": every forwarded id
\* encodes its slot, is not zero, and no reply of another request still on its
\* way carries the id of a live slot, across the wrap of lastxid.
LiveXidsAreTheirSlots ==
    \A i \in Active :
        /\ FINFO[i].forward_xid % NFORWARD = i
        /\ FINFO[i].forward_xid # 0
        /\ \A m \in atService \cup UNION {ToSet(inbox[fd]) : fd \in FwdFds} :
              m.xid = FINFO[i].forward_xid => m.call = FINFO[i].call

\* check_rmtcalls ignores the forwarding descriptors when rpcb_rmtcalls is 0:
\* the counter is always the number of live slots, whatever was freed twice,
\* evicted or expired.
RmtcallsCountsSlots == rpcb_rmtcalls = Cardinality(Active)

\* "Let's not beat on it any more": a retransmitted request is never forwarded
\* while its first copy waits for the reply, so it has one slot.
OneSlotPerCall ==
    \A i, j \in Active : FINFO[i].call = FINFO[j].call => i = j

\* "... the file descriptor on which we anticipate receiving a reply from the
\* service [is] one to select for in our private svc_run procedure": while a
\* request waits for its reply, my_svc_run polls the descriptor it comes on.
WaitingFdIsPolled ==
    \A i \in Active : FINFO[i].forward_fd \in Polled

\* The table, the counter of pending calls, the transaction ids on their way and the
\* polled descriptors fit together, whatever is freed twice, evicted, expired,
\* retransmitted or closed (rpcb_svc_com.c: forward_register, free_slot_by_index).
TableIsSound ==
    /\ TypeOK
    /\ LiveXidsAreTheirSlots
    /\ RmtcallsCountsSlots
    /\ OneSlotPerCall
    /\ WaitingFdIsPolled

\* handle_reply answers a caller with the reply to the caller's own request.
AnswersGoToTheirCaller ==
    out # None /\ out.of # Error => out.to = out.of

\* forward_register gives up on a request that has not timed out only when
\* every slot is taken, and then on one that has waited longest.
OnlyTheOldestIsEvicted ==
    [][\A i \in Active :
          FINFO'[i].active /\ FINFO'[i].forward_xid # FINFO[i].forward_xid =>
             \/ now - FINFO[i].time > MAXTIME_OFF
             \/ /\ Active = Slots
                /\ \A k \in Slots : FINFO[i].time <= FINFO[k].time]_vars

\* "At some time in the future, a reply will be received from the service to which we
\* forwarded the request. At that time, we detect that the socket used was for forwarding
\* [...] and call handle_reply()" (rpcb_svc_com.c:593): svc_getreq_poll, which drops it as
\* no call, gets the reply to a request that waits for it only if check_rmtcalls, which
\* looks at no more descriptors than there are pending calls, has used up this count
\* on a reply nobody waits for (a late or repeated one on another descriptor), or a failure.
AwaitedReplyIsNotACall ==
    [][\A fd \in Replies :
          NotACall(fd) => wasted \/ forward_find(Head(inbox[fd]).xid) = {}]_vars
=============================================================================
