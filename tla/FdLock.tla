------------------------------- MODULE FdLock -------------------------------
(***************************************************************************)
(* The per-descriptor locks of the client transports (libsrc/clnt_dg.c; the *)
(* same machinery is in libsrc/clnt_vc.c).  Threads call the operations of   *)
(* CLIENT handles; several handles may have the same descriptor behind them. *)
(* dg_fd_locks[fd] is set while a call is active on fd, is protected by the  *)
(* mutex clnt_fd_lock and waited for with the condition variable dg_cv[fd].  *)
(* clnt_dg_call and clnt_dg_control take the lock; clnt_dg_freeres and       *)
(* clnt_dg_destroy wait until it is free and work under the mutex instead.   *)
(*                                                                           *)
(* External: the mutex and the condition variable, as libsthread has them    *)
(* (a wait may end without a signal), and the program's threads, which do    *)
(* not destroy a handle that another thread is using.                        *)
(***************************************************************************)
EXTENDS Integers, FiniteSets

CONSTANTS
    Threads, Handles, Fds,
    cu_fd,        \* [Handles -> Fds]: the descriptor behind a handle
    Free,         \* the owner of an unlocked mutex
    MaxOps        \* bound: operations a thread starts

ASSUME FdLockAssumption ==
    /\ cu_fd \in [Handles -> Fds]
    /\ Handles # {}
    /\ Free \notin Threads
    /\ MaxOps \in Nat

VARIABLES
    clnt_fd_lock,   \* the thread that holds the mutex, or Free
    dg_fd_locks,    \* [Fds -> {0, 1}]
    pc, op, cl,     \* each thread's place, operation and handle
    cu_error,       \* [Handles -> ...]: the thread whose call set it last
    alive,          \* handles not destroyed
    ops             \* operations each thread has started

vars == <<clnt_fd_lock, dg_fd_locks, pc, op, cl, cu_error, alive, ops>>

Ops == {"call", "control", "freeres", "destroy"}
Takes == {"call", "control"}

TypeOK ==
    /\ clnt_fd_lock \in Threads \cup {Free}
    /\ dg_fd_locks \in [Fds -> {0, 1}]
    /\ pc \in [Threads -> {"idle", "lock", "test", "wait", "taken", "use", "relock",
                           "clear", "work", "unlock", "signal", "return"}]
    /\ op \in [Threads -> Ops]
    /\ cl \in [Threads -> Handles]
    /\ cu_error \in [Handles -> Threads \cup {Free}]
    /\ alive \subseteq Handles
    /\ ops \in [Threads -> 0 .. MaxOps]

Fd(t) == cu_fd[cl[t]]

Go(t, place) == pc' = [pc EXCEPT ![t] = place]

\* The program calls an operation of a live handle.
Begin(t, o, h) ==
    /\ pc[t] = "idle" /\ ops[t] < MaxOps
    /\ h \in alive
    /\ \A u \in Threads :
          pc[u] # "idle" /\ cl[u] = h => o # "destroy" /\ op[u] # "destroy"
    /\ op' = [op EXCEPT ![t] = o]
    /\ cl' = [cl EXCEPT ![t] = h]
    /\ ops' = [ops EXCEPT ![t] = @ + 1]
    /\ Go(t, "lock")
    /\ UNCHANGED <<clnt_fd_lock, dg_fd_locks, cu_error, alive>>

\* mutex_lock(&clnt_fd_lock), or the end of cond_wait.
Lock(t) ==
    /\ pc[t] = "lock" /\ clnt_fd_lock = Free
    /\ clnt_fd_lock' = t
    /\ Go(t, "test")
    /\ UNCHANGED <<dg_fd_locks, op, cl, cu_error, alive, ops>>

\* while (dg_fd_locks[cu->cu_fd]) cond_wait(...): the mutex is given up in the
\* same step.
CondWait(t) ==
    /\ pc[t] = "test" /\ dg_fd_locks[Fd(t)] = 1
    /\ clnt_fd_lock' = Free
    /\ Go(t, "wait")
    /\ UNCHANGED <<dg_fd_locks, op, cl, cu_error, alive, ops>>

\* A plausible bug: the descriptor's state is tested once, with an if.
TakeAnyway(t) ==
    /\ pc[t] = "test" /\ op[t] \in Takes
    /\ dg_fd_locks' = [dg_fd_locks EXCEPT ![Fd(t)] = 1]
    /\ Go(t, "taken")
    /\ UNCHANGED <<clnt_fd_lock, op, cl, cu_error, alive, ops>>

\* dg_fd_locks[cu->cu_fd] = __rpc_lock_value
Take(t) ==
    /\ pc[t] = "test" /\ dg_fd_locks[Fd(t)] = 0 /\ op[t] \in Takes
    /\ dg_fd_locks' = [dg_fd_locks EXCEPT ![Fd(t)] = 1]
    /\ Go(t, "taken")
    /\ UNCHANGED <<clnt_fd_lock, op, cl, cu_error, alive, ops>>

UnlockTaken(t) ==
    /\ pc[t] = "taken"
    /\ clnt_fd_lock' = Free
    /\ Go(t, "use")
    /\ UNCHANGED <<dg_fd_locks, op, cl, cu_error, alive, ops>>

\* The remote call, or the switch of clnt_dg_control, up to release_fd_lock.
Use(t) ==
    /\ pc[t] = "use"
    /\ cu_error' = IF op[t] = "call" THEN [cu_error EXCEPT ![cl[t]] = t] ELSE cu_error
    /\ Go(t, "relock")
    /\ UNCHANGED <<clnt_fd_lock, dg_fd_locks, op, cl, alive, ops>>

\* release_fd_lock: lock the mutex, clear the flag, ...
Relock(t) ==
    /\ pc[t] = "relock" /\ clnt_fd_lock = Free
    /\ clnt_fd_lock' = t
    /\ Go(t, "clear")
    /\ UNCHANGED <<dg_fd_locks, op, cl, cu_error, alive, ops>>

\* A plausible bug: the flag is left set.
ClearNothing(t) ==
    /\ pc[t] = "clear"
    /\ Go(t, "unlock")
    /\ UNCHANGED <<clnt_fd_lock, dg_fd_locks, op, cl, cu_error, alive, ops>>

Clear(t) ==
    /\ pc[t] = "clear"
    /\ dg_fd_locks' = [dg_fd_locks EXCEPT ![Fd(t)] = 0]
    /\ Go(t, "unlock")
    /\ UNCHANGED <<clnt_fd_lock, op, cl, cu_error, alive, ops>>

\* clnt_dg_freeres and clnt_dg_destroy, past their wait.
Work(t) ==
    /\ pc[t] = "test" /\ dg_fd_locks[Fd(t)] = 0 /\ op[t] \notin Takes
    /\ Go(t, "work")
    /\ UNCHANGED <<clnt_fd_lock, dg_fd_locks, op, cl, cu_error, alive, ops>>

\* The results are freed, or the descriptor closed and the handle freed.
Worked(t) ==
    /\ pc[t] = "work"
    /\ alive' = IF op[t] = "destroy" THEN alive \ {cl[t]} ELSE alive
    /\ Go(t, "unlock")
    /\ UNCHANGED <<clnt_fd_lock, dg_fd_locks, op, cl, cu_error, ops>>

\* A plausible bug: an operation that did not take the lock does not signal.
UnlockUnsignalled(t) ==
    /\ pc[t] = "unlock"
    /\ clnt_fd_lock' = Free
    /\ Go(t, IF op[t] \in Takes THEN "signal" ELSE "return")
    /\ UNCHANGED <<dg_fd_locks, op, cl, cu_error, alive, ops>>

Unlock(t) ==
    /\ pc[t] = "unlock"
    /\ clnt_fd_lock' = Free
    /\ Go(t, "signal")
    /\ UNCHANGED <<dg_fd_locks, op, cl, cu_error, alive, ops>>

Waiting(f) == {u \in Threads : pc[u] = "wait" /\ Fd(u) = f}

\* cond_signal(&dg_cv[fd]), after the mutex was given up, wakes one waiter.
Signal(t) ==
    /\ pc[t] = "signal"
    /\ \/ /\ Waiting(Fd(t)) = {}
          /\ Go(t, "return")
       \/ \E u \in Waiting(Fd(t)) :
             pc' = [pc EXCEPT ![t] = "return", ![u] = "lock"]
    /\ UNCHANGED <<clnt_fd_lock, dg_fd_locks, op, cl, cu_error, alive, ops>>

\* return (cu->cu_error.re_status), and the other operations' returns.
Return(t) ==
    /\ pc[t] = "return"
    /\ Go(t, "idle")
    /\ UNCHANGED <<clnt_fd_lock, dg_fd_locks, op, cl, cu_error, alive, ops>>

\* External: SleepConditionVariableCS returns without a signal.
SpuriousWakeup(t) ==
    /\ pc[t] = "wait"
    /\ Go(t, "lock")
    /\ UNCHANGED <<clnt_fd_lock, dg_fd_locks, op, cl, cu_error, alive, ops>>

Step(t) ==
    \/ Lock(t) \/ CondWait(t) \/ Take(t) \/ UnlockTaken(t) \/ Use(t) \/ Relock(t)
    \/ Clear(t) \/ Work(t) \/ Worked(t) \/ Unlock(t) \/ Signal(t) \/ Return(t)

Init ==
    /\ clnt_fd_lock = Free
    /\ dg_fd_locks = [f \in Fds |-> 0]
    /\ pc = [t \in Threads |-> "idle"]
    /\ op = [t \in Threads |-> "call"]
    /\ cl = [t \in Threads |-> CHOOSE h \in Handles : TRUE]
    /\ cu_error = [h \in Handles |-> Free]
    /\ alive = Handles
    /\ ops = [t \in Threads |-> 0]

Next ==
    \E t \in Threads :
        \/ Step(t)
        \/ SpuriousWakeup(t)
        \/ \E o \in Ops, h \in Handles : Begin(t, o, h)

Spec == Init /\ [][Next]_vars

\* The system schedules every thread that can run, and waits do not end without
\* a signal for ever.
FairSpec ==
    /\ Spec
    /\ \A t \in Threads : WF_vars(Step(t))
    /\ <>[][\A t \in Threads : ~SpuriousWakeup(t)]_vars

-----------------------------------------------------------------------------
(* Properties. *)

\* Threads inside the machinery on a descriptor: those that hold its lock, and
\* those that use what is behind it.
Owners(f) == {t \in Threads : pc[t] \in {"taken", "use", "relock", "clear"} /\ Fd(t) = f}
Users(f) == {t \in Threads : pc[t] \in {"use", "work"} /\ Fd(t) = f}

\* No two threads use a descriptor at once: not two calls, whether on one
\* handle or on two with the same descriptor, and no freeres or destroy (with
\* its close of the descriptor) during a call.
ExclusiveUse == \A f \in Fds : \A t, u \in Users(f) : t = u

\* The mutex and the descriptors' flags are what the threads' places say, and uses
\* exclude each other (clnt_dg.c: release_fd_lock).
LockingIsSound == TypeOK /\ ExclusiveUse

\* Threads that will signal, or test the lock again, on a descriptor.
Movers(f) == {t \in Threads :
                 pc[t] \in {"lock", "test", "work", "unlock", "signal"} /\ Fd(t) = f}

\* cond_signal comes after the mutex was released and wakes one waiter only,
\* perhaps one that takes no lock: still no thread is left waiting for a free
\* descriptor with nobody to wake it.
NoLostWakeup == \A f \in Fds : dg_fd_locks[f] = 0 /\ Waiting(f) # {} => Movers(f) # {}

\* Every operation that was started returns.
OperationsReturn == \A t \in Threads : pc[t] # "idle" ~> pc[t] = "idle"
=============================================================================
