------------------------------- MODULE DgRpc -------------------------------
(***************************************************************************)
(* The datagram client of libsrc/clnt_dg.c (clnt_dg_call) composed with    *)
(* the datagram server and its duplicate-request cache (DupReqCache) over  *)
(* a network that loses, duplicates, delays and reorders datagrams.        *)
(*                                                                         *)
(* A client handle is one caller address; calls on one handle exclude each *)
(* other by the per-descriptor lock (module FdLock), so a handle runs one  *)
(* call at a time.  Time is counted in ticks since the call began; the     *)
(* clock only advances between steps.  The outcome of decoding a reply     *)
(* (success, authentication error, other error, undecodable) is any.       *)
(***************************************************************************)
EXTENDS DupReqCache

CONSTANTS
    MaxCalls,      \* bound: calls per client handle
    CuWait,        \* cu_wait: ticks before the first retransmission
    MaxBackoff,    \* RPC_MAX_BACKOFF: no doubling at or above it
    Timeouts,      \* timeouts callers use, 0 for message passing
    NRefreshes     \* credential refreshes per call (2 in the code)

ASSUME ClientAssumption ==
    /\ MaxCalls \in Nat /\ NRefreshes \in Nat
    /\ CuWait \in Nat \ {0} /\ MaxBackoff \in Nat \ {0}
    /\ Timeouts \subseteq Nat /\ Timeouts # {}
    \* Each call has one transaction id, and one more for each refresh.
    /\ 1 .. (MaxCalls * (NRefreshes + 1)) \subseteq Xids

VARIABLES
    cpc,           \* "idle", "encode", "send" or "wait" for each client
    cu_xid,        \* transaction id in cu_outbuf
    proc,          \* procedure of the running call
    timeout, time_waited, next_sendtime, retransmit_time, nrefreshes,
    elapsed,       \* ticks since starttime
    deadline,      \* when the running pollts() times out
    net,           \* datagrams ever sent: the network may deliver any of them
    \* history
    ncalls,        \* calls begun by each client
    callOf,        \* the call each request belongs to
    accepted,      \* the reply a client decoded in the last step, if any
    status,        \* how each client's last call ended
    executed       \* the requests service routines were run for

timers == <<timeout, time_waited, next_sendtime, retransmit_time, elapsed, deadline>>
clientVars == <<cpc, cu_xid, proc, timers, nrefreshes>>
netHist == <<ncalls, callOf, accepted, status, executed>>
dgVars == <<vars, clientVars, net, netHist>>

NoReply == [req |-> "none"]

Calls == [kind : {"call"}, req : Requests]
ReplyMsgs == [kind : {"reply"}, to : Addrs, body : BufContents]

DgInit ==
    /\ Init
    /\ cpc = [c \in Addrs |-> "idle"]
    /\ cu_xid = [c \in Addrs |-> 0]
    /\ proc = [c \in Addrs |-> AnyRequest.proc]
    /\ timeout = [c \in Addrs |-> 0]
    /\ time_waited = [c \in Addrs |-> 0]
    /\ next_sendtime = [c \in Addrs |-> 0]
    /\ retransmit_time = [c \in Addrs |-> 0]
    /\ nrefreshes = [c \in Addrs |-> 0]
    /\ elapsed = [c \in Addrs |-> 0]
    /\ deadline = [c \in Addrs |-> 0]
    /\ net = {}
    /\ ncalls = [c \in Addrs |-> 0]
    /\ callOf = << >>
    /\ accepted = [c \in Addrs |-> NoReply]
    /\ status = [c \in Addrs |-> "none"]
    /\ executed = {}

Request(c) == [xid |-> cu_xid[c], proc |-> proc[c], addr |-> c]

\* Leaving clnt_dg_call through out: the handle is released.
Finish(c, how) ==
    /\ cpc' = [cpc EXCEPT ![c] = "idle"]
    /\ status' = [status EXCEPT ![c] = how]

NothingAccepted == accepted' = [c \in Addrs |-> NoReply]
ServerIdle == UNCHANGED <<vars, executed>>
-----------------------------------------------------------------------------
(* The client. *)

\* clnt_dg_call up to call_again, with the descriptor lock held.
CallStart(c) ==
    /\ cpc[c] = "idle"
    /\ ncalls[c] < MaxCalls
    /\ \E p \in Procs, t \in Timeouts :
        /\ proc' = [proc EXCEPT ![c] = p]
        /\ timeout' = [timeout EXCEPT ![c] = t]
    /\ cpc' = [cpc EXCEPT ![c] = "encode"]
    /\ ncalls' = [ncalls EXCEPT ![c] = @ + 1]
    /\ time_waited' = [time_waited EXCEPT ![c] = 0]
    /\ retransmit_time' = [retransmit_time EXCEPT ![c] = CuWait]
    /\ next_sendtime' = [next_sendtime EXCEPT ![c] = CuWait]
    /\ nrefreshes' = [nrefreshes EXCEPT ![c] = NRefreshes]
    /\ elapsed' = [elapsed EXCEPT ![c] = 0]
    /\ NothingAccepted
    /\ UNCHANGED <<cu_xid, deadline, net, callOf, status>>
    /\ ServerIdle

\* Mutant: a call is sent under the transaction id of the last one.
NextXidSame(c) == IF cu_xid[c] = 0 THEN 1 ELSE cu_xid[c]
\* The transaction id in the out buffer is incremented in place.
NextXid(c) == cu_xid[c] + 1

\* call_again: a new transaction id, then the call is encoded.
Encode(c) ==
    /\ cpc[c] = "encode"
    /\ cu_xid' = [cu_xid EXCEPT ![c] = NextXid(c)]
    /\ LET new == [Request(c) EXCEPT !.xid = NextXid(c)]
       IN  callOf' = [r \in DOMAIN callOf \cup {new} |->
                        IF r \in DOMAIN callOf THEN callOf[r] ELSE ncalls[c]]
    /\ \/ cpc' = [cpc EXCEPT ![c] = "send"] /\ UNCHANGED status
       \/ Finish(c, "failure")                   \* RPC_CANTENCODEARGS
    /\ NothingAccepted
    /\ UNCHANGED <<proc, timers, nrefreshes, net, ncalls>>
    /\ ServerIdle

\* Mutant: the poll waits for the next retransmission only.
PollEndNoTimeout(c, waited) ==
    elapsed[c] + (IF next_sendtime[c] < waited THEN 0 ELSE next_sendtime[c] - waited)

\* How long the next pollts() waits: until the next retransmission or the end of
\* the call, whichever is first, and not at all when that is past.
PollEnd(c, waited) ==
    LET until == IF next_sendtime[c] < timeout[c] THEN next_sendtime[c] ELSE timeout[c]
    IN  elapsed[c] + (IF until < waited THEN 0 ELSE until - waited)

\* send_again: the datagram is sent; a zero timeout ends the call at once.
Send(c) ==
    /\ cpc[c] = "send"
    /\ \/ /\ net' = net \cup {[kind |-> "call", req |-> Request(c)]}
          /\ \/ /\ timeout[c] = 0
                /\ Finish(c, "failure")          \* RPC_TIMEDOUT
                /\ UNCHANGED deadline
             \/ /\ timeout[c] # 0
                /\ cpc' = [cpc EXCEPT ![c] = "wait"]
                /\ deadline' = [deadline EXCEPT ![c] = PollEnd(c, time_waited[c])]
                /\ UNCHANGED status
       \/ /\ Finish(c, "failure")                \* RPC_CANTSEND
          /\ UNCHANGED <<net, deadline>>
    /\ NothingAccepted
    /\ UNCHANGED <<cu_xid, proc, timeout, time_waited, next_sendtime, retransmit_time,
                   elapsed, nrefreshes, ncalls, callOf>>
    /\ ServerIdle

\* The retransmission interval doubles until it reaches RPC_MAX_BACKOFF.
Backoff(c) ==
    IF retransmit_time[c] < MaxBackoff THEN 2 * retransmit_time[c] ELSE retransmit_time[c]

\* Mutant: the timeout is only checked when no retransmission is due.
CheckTimeRetransmitFirst(c) ==
    /\ time_waited' = [time_waited EXCEPT ![c] = 0]
    /\ elapsed[c] > next_sendtime[c]
    /\ cpc' = [cpc EXCEPT ![c] = "send"]
    /\ UNCHANGED status
    /\ NothingAccepted
    /\ UNCHANGED <<cu_xid, proc, timeout, elapsed, deadline, retransmit_time, next_sendtime,
                   nrefreshes, net, ncalls, callOf>>
    /\ ServerIdle

\* The end of the waiting loop: give up, retransmit, or wait again.
CheckTime(c) ==
    /\ time_waited' = [time_waited EXCEPT ![c] = elapsed[c]]
    /\ \/ /\ elapsed[c] > timeout[c]
          /\ Finish(c, "failure")                \* RPC_TIMEDOUT
          /\ UNCHANGED <<retransmit_time, next_sendtime, deadline>>
       \/ /\ elapsed[c] <= timeout[c]
          /\ elapsed[c] > next_sendtime[c]
          /\ retransmit_time' = [retransmit_time EXCEPT ![c] = Backoff(c)]
          /\ next_sendtime' = [next_sendtime EXCEPT ![c] = @ + Backoff(c)]
          /\ cpc' = [cpc EXCEPT ![c] = "send"]
          /\ UNCHANGED status
          /\ UNCHANGED deadline
       \/ /\ elapsed[c] <= timeout[c]
          /\ elapsed[c] <= next_sendtime[c]
          /\ deadline' = [deadline EXCEPT ![c] = PollEnd(c, elapsed[c])]
          /\ UNCHANGED status
          /\ UNCHANGED <<cpc, retransmit_time, next_sendtime>>
    /\ NothingAccepted
    /\ UNCHANGED <<cu_xid, proc, timeout, elapsed, nrefreshes, net, ncalls, callOf>>
    /\ ServerIdle

\* pollts() times out.
PollTimeout(c) ==
    /\ cpc[c] = "wait"
    /\ elapsed[c] >= deadline[c]
    /\ CheckTime(c)

\* Datagrams the network may deliver to client c: the first word of each is
\* compared with the transaction id.
Inbox(c) == {m.body : m \in {m \in net : m.kind = "reply" /\ m.to = c /\ m.body # Junk}}

\* Mutant: any reply is taken for the proper one.
ProperReplyAny(c, reply) == TRUE
ProperReply(c, reply) == reply.req.xid = cu_xid[c]

\* A datagram arrives that is not the proper reply.
RecvOther(c) ==
    /\ cpc[c] = "wait"
    /\ \E reply \in Inbox(c) : ~ProperReply(c, reply)
    /\ CheckTime(c)

\* pollts() or recvfrom() fails: RPC_CANTRECV.
RecvError(c) ==
    /\ cpc[c] = "wait"
    /\ Finish(c, "failure")
    /\ NothingAccepted
    /\ UNCHANGED <<cu_xid, proc, timers, nrefreshes, net, ncalls, callOf>>
    /\ ServerIdle

MayRefresh(c) == nrefreshes[c] > 0

\* The proper reply ends the loop and is decoded; an authentication error with
\* refreshed credentials calls again under a new transaction id, the timers
\* running on.
RecvReply(c) ==
    /\ cpc[c] = "wait"
    /\ \E reply \in Inbox(c) :
        /\ ProperReply(c, reply)
        /\ \/ /\ Finish(c, "success")
              /\ accepted' = [accepted EXCEPT ![c] = reply]
              /\ UNCHANGED nrefreshes
           \/ /\ Finish(c, "failure")
              /\ NothingAccepted
              /\ UNCHANGED nrefreshes
           \/ /\ MayRefresh(c)
              /\ nrefreshes' = [nrefreshes EXCEPT ![c] = @ - 1]
              /\ cpc' = [cpc EXCEPT ![c] = "encode"]
              /\ NothingAccepted
              /\ UNCHANGED status
    /\ UNCHANGED <<cu_xid, proc, timers, net, ncalls, callOf>>
    /\ ServerIdle

\* The clock, advanced until it is past the poll of a waiting client and past
\* the timeout of its call (the bound of the model).
Ticking(c) ==
    cpc[c] = "wait" /\ (elapsed[c] <= deadline[c] \/ elapsed[c] <= timeout[c])
Tick ==
    /\ \E c \in Addrs : Ticking(c)
    /\ elapsed' = [c \in Addrs |-> IF Ticking(c) THEN elapsed[c] + 1 ELSE elapsed[c]]
    /\ NothingAccepted
    /\ UNCHANGED <<cpc, cu_xid, proc, timeout, time_waited, next_sendtime,
                   retransmit_time, deadline, nrefreshes, net, ncalls, callOf, status>>
    /\ ServerIdle
-----------------------------------------------------------------------------
(* The server, fed from the network. *)

\* What the server sends travels to the caller's address.
Transmit ==
    net' = IF out' = NoOut THEN net
           ELSE net \cup {[kind |-> "reply", to |-> out'.req.addr, body |-> out'.reply]}

Server ==
    /\ \/ Create
       \/ Destroy
       \/ EnableCache
       \/ \E m \in net : m.kind = "call" /\ RecvReplay(m.req)
       \/ \E m \in net : m.kind = "call" /\ RecvDispatch(m.req)
       \/ ReplySent
       \/ ReplyFails
       \/ Return
    /\ Transmit
    /\ executed' = IF execs' > execs THEN executed \cup {call'} ELSE executed
    /\ NothingAccepted
    /\ UNCHANGED <<clientVars, ncalls, callOf, status>>

Client(c) ==
    \/ CallStart(c)
    \/ Encode(c)
    \/ Send(c)
    \/ PollTimeout(c)
    \/ RecvOther(c)
    \/ RecvError(c)
    \/ RecvReply(c)

DgNext == Server \/ Tick \/ \E c \in Addrs : Client(c)

\* The scheduler runs a client that has something to do and the clock advances;
\* nothing is assumed of the network or of the server.
Fairness ==
    /\ WF_dgVars(Tick)
    /\ \A c \in Addrs : /\ WF_dgVars(Encode(c)) /\ WF_dgVars(Send(c))
                        /\ WF_dgVars(PollTimeout(c))

DgSpec == DgInit /\ [][DgNext]_dgVars /\ Fairness
-----------------------------------------------------------------------------
(* Properties. *)

\* Types of the client and of the network.
DgTypeOK ==
    /\ cpc \in [Addrs -> {"idle", "encode", "send", "wait"}]
    /\ cu_xid \in [Addrs -> Xids \cup {0}]
    /\ \A c \in Addrs : elapsed[c] \in Nat /\ deadline[c] \in Nat
    /\ nrefreshes \in [Addrs -> 0 .. NRefreshes]
    /\ net \subseteq Calls \cup ReplyMsgs
    /\ status \in [Addrs -> {"none", "success", "failure"}]

\* A reply clnt_dg_call decodes was produced by executing the running call: not
\* by an earlier call of the handle, nor by another client, however late or often
\* datagrams arrive.
AcceptedReplyIsOfThisCall ==
    \A c \in Addrs : accepted[c] # NoReply =>
        /\ accepted[c].req = Request(c)
        /\ callOf[accepted[c].req] = ncalls[c]

\* Every call returns, whatever the network does: retransmission, other replies
\* and refreshed credentials never keep clnt_dg_call in its loop for good.
CallsReturn == \A c \in Addrs : cpc[c] # "idle" ~> cpc[c] = "idle"

\* A call whose credentials were not refreshed starts no poll that ends after its
\* timeout.
PollsEndByTimeout ==
    \A c \in Addrs : (cpc[c] = "wait" /\ nrefreshes[c] = NRefreshes) =>
        deadline[c] <= timeout[c]

\* The state of the calls and their clocks is in order (clnt_dg.c: clnt_dg_call).
ClientState == DgTypeOK /\ PollsEndByTimeout

\* The client and the server over the unreliable network implement the abstract
\* at-least-once semantics: success is returned only for a call that the server
\* executed.
Abstract == INSTANCE RpcSemantics WITH
    Clients <- Addrs,
    calls <- ncalls,
    pending <- [c \in Addrs |-> cpc[c] # "idle"],
    executed <- {<<r.addr, callOf[r]>> : r \in executed}
ImplementsRpcSemantics == Abstract!ASpec
=============================================================================
