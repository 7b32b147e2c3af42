---------------------------- MODULE RpcSemantics ----------------------------
(***************************************************************************)
(* What the datagram client promises its caller, without messages, timers  *)
(* or caches: a call is begun, executed by the server any number of times  *)
(* (at-least-once semantics), and returns.  It returns success only after  *)
(* the server executed that very call; an execution may also happen after  *)
(* the call returned, or for a call that failed.                           *)
(***************************************************************************)
EXTENDS Naturals

CONSTANTS Clients, MaxCalls

VARIABLES
    calls,      \* number of calls each client has begun
    pending,    \* is the last of them still running?
    executed,   \* the calls <<client, number>> executed at least once
    status      \* how the client's last finished call ended

aVars == <<calls, pending, executed, status>>

AInit ==
    /\ calls = [c \in Clients |-> 0]
    /\ pending = [c \in Clients |-> FALSE]
    /\ executed = {}
    /\ status = [c \in Clients |-> "none"]

Begin(c) ==
    /\ ~pending[c]
    /\ calls[c] < MaxCalls
    /\ calls' = [calls EXCEPT ![c] = @ + 1]
    /\ pending' = [pending EXCEPT ![c] = TRUE]
    /\ UNCHANGED <<executed, status>>

Execute(c, k) ==
    /\ k \in 1 .. calls[c]
    /\ executed' = executed \cup {<<c, k>>}
    /\ UNCHANGED <<calls, pending, status>>

Succeed(c) ==
    /\ pending[c]
    /\ <<c, calls[c]>> \in executed
    /\ pending' = [pending EXCEPT ![c] = FALSE]
    /\ status' = [status EXCEPT ![c] = "success"]
    /\ UNCHANGED <<calls, executed>>

Fail(c) ==
    /\ pending[c]
    /\ pending' = [pending EXCEPT ![c] = FALSE]
    /\ status' = [status EXCEPT ![c] = "failure"]
    /\ UNCHANGED <<calls, executed>>

ANext ==
    \E c \in Clients :
        \/ Begin(c)
        \/ \E k \in 1 .. MaxCalls : Execute(c, k)
        \/ Succeed(c)
        \/ Fail(c)

ASpec == AInit /\ [][ANext]_aVars
=============================================================================
