---------------------------- MODULE FdLockProofs ----------------------------
(***************************************************************************)
(* For every number of threads, handles and descriptors: the locks of the   *)
(* client transports exclude each other, and no wakeup is lost.             *)
(***************************************************************************)
EXTENDS FdLock, TLAPS

Holding == {"test", "taken", "clear", "work", "unlock"}
Owning == {"taken", "use", "relock", "clear"}

\* Only the holder of clnt_fd_lock is between mutex_lock and mutex_unlock.
MutexInv == \A t \in Threads : pc[t] \in Holding => clnt_fd_lock = t

\* A lock that is held is marked, has one owner, and is not held while freeres
\* or destroy work under the mutex.
LockInv ==
    /\ \A t \in Threads : pc[t] \in Owning => dg_fd_locks[Fd(t)] = 1
    /\ \A t, u \in Threads :
          pc[t] \in Owning /\ pc[u] \in Owning /\ Fd(t) = Fd(u) => t = u
    /\ \A t \in Threads : pc[t] = "work" => dg_fd_locks[Fd(t)] = 0

\* NoLostWakeup, thread by thread.
WakeupInv ==
    \A w \in Threads :
        pc[w] = "wait" /\ dg_fd_locks[Fd(w)] = 0 =>
            \E m \in Threads :
                /\ pc[m] \in {"lock", "test", "work", "unlock", "signal"}
                /\ Fd(m) = Fd(w)

IInv == TypeOK /\ MutexInv /\ LockInv /\ WakeupInv

LEMMA FdType ==
    ASSUME TypeOK
    PROVE  \A t \in Threads : Fd(t) \in Fds /\ cl[t] \in Handles
BY FdLockAssumption DEF TypeOK, Fd

LEMMA InitIInv == Init => IInv
<1> SUFFICES ASSUME Init PROVE IInv
  OBVIOUS
<1>1. (CHOOSE h \in Handles : TRUE) \in Handles
  BY FdLockAssumption
<1>2. TypeOK
  BY <1>1, FdLockAssumption DEF Init, TypeOK, Ops
<1>3. MutexInv /\ LockInv /\ WakeupInv
  BY DEF Init, MutexInv, LockInv, WakeupInv, Holding, Owning
<1> QED
  BY <1>2, <1>3 DEF IInv

LEMMA TypeStep == TypeOK /\ [Next]_vars => TypeOK'
<1> SUFFICES ASSUME TypeOK, [Next]_vars PROVE TypeOK'
  OBVIOUS
<1> USE FdLockAssumption DEF TypeOK, Ops, Go
<1>1. CASE UNCHANGED vars
  BY <1>1 DEF vars
<1>2. ASSUME NEW t \in Threads, NEW o \in Ops, NEW h \in Handles, Begin(t, o, h)
      PROVE  TypeOK'
  BY <1>2 DEF Begin
<1>3. ASSUME NEW t \in Threads, Lock(t) \/ CondWait(t) \/ UnlockTaken(t) \/ Relock(t) \/ Unlock(t)
      PROVE  TypeOK'
  BY <1>3 DEF Lock, CondWait, UnlockTaken, Relock, Unlock
<1>4. ASSUME NEW t \in Threads, Take(t) \/ Clear(t) PROVE TypeOK'
  BY <1>4, FdType DEF Take, Clear
<1>5. ASSUME NEW t \in Threads, Use(t) \/ Work(t) \/ Worked(t) PROVE TypeOK'
  BY <1>5, FdType DEF Use, Work, Worked
<1>6. ASSUME NEW t \in Threads, Signal(t) \/ Return(t) \/ SpuriousWakeup(t) PROVE TypeOK'
  BY <1>6 DEF Signal, Return, SpuriousWakeup, Waiting
<1> QED
  BY <1>1, <1>2, <1>3, <1>4, <1>5, <1>6 DEF Next, Step

\* One step for the mutex, the locks and the waiters, action by action.
LEMMA ProtocolStep ==
    ASSUME IInv, TypeOK', [Next]_vars
    PROVE  (MutexInv /\ LockInv /\ WakeupInv)'
<1> DEFINE Goal == MutexInv /\ LockInv /\ WakeupInv
<1> USE FdLockAssumption DEF IInv, TypeOK, MutexInv, LockInv, WakeupInv, Holding, Owning, Fd, Go
<1>1. CASE UNCHANGED vars
  BY <1>1 DEF vars
<1>2. ASSUME NEW t \in Threads, NEW o \in Ops, NEW h \in Handles, Begin(t, o, h)
      PROVE  Goal'
  BY <1>2 DEF Begin
<1>3. ASSUME NEW t \in Threads, Lock(t) PROVE Goal'
  BY <1>3 DEF Lock
<1>4. ASSUME NEW t \in Threads, CondWait(t) PROVE Goal'
  BY <1>4 DEF CondWait
<1>5. ASSUME NEW t \in Threads, Take(t) PROVE Goal'
  BY <1>5 DEF Take, Takes
<1>6. ASSUME NEW t \in Threads, UnlockTaken(t) PROVE Goal'
  BY <1>6 DEF UnlockTaken
<1>7. ASSUME NEW t \in Threads, Use(t) PROVE Goal'
  BY <1>7 DEF Use
<1>8. ASSUME NEW t \in Threads, Relock(t) PROVE Goal'
  BY <1>8 DEF Relock
<1>9. ASSUME NEW t \in Threads, Clear(t) PROVE Goal'
  BY <1>9 DEF Clear
<1>10. ASSUME NEW t \in Threads, Work(t) PROVE Goal'
  BY <1>10 DEF Work, Takes
<1>11. ASSUME NEW t \in Threads, Worked(t) PROVE Goal'
  BY <1>11 DEF Worked
<1>12. ASSUME NEW t \in Threads, Unlock(t) PROVE Goal'
  BY <1>12 DEF Unlock
<1>13. ASSUME NEW t \in Threads, Signal(t) PROVE Goal'
  BY <1>13 DEF Signal, Waiting
<1>14. ASSUME NEW t \in Threads, Return(t) PROVE Goal'
  BY <1>14 DEF Return
<1>15. ASSUME NEW t \in Threads, SpuriousWakeup(t) PROVE Goal'
  BY <1>15 DEF SpuriousWakeup
<1> QED
  BY <1>1, <1>2, <1>3, <1>4, <1>5, <1>6, <1>7, <1>8, <1>9, <1>10, <1>11, <1>12, <1>13,
     <1>14, <1>15 DEF Next, Step

LEMMA StepIInv == IInv /\ [Next]_vars => IInv'
BY TypeStep, ProtocolStep DEF IInv

\* Type correctness of the threads, the mutex and the descriptor locks.
THEOREM TypeCorrect == Spec => []TypeOK
<1>1. IInv => TypeOK
  BY DEF IInv
<1> QED
  BY <1>1, InitIInv, StepIInv, PTL DEF Spec

\* Calls and controls on a descriptor exclude each other and the freeing or
\* closing that clnt_dg_freeres and clnt_dg_destroy do, whichever handles and
\* threads they come from.
THEOREM MutualExclusion == Spec => []ExclusiveUse
<1>1. IInv => ExclusiveUse
  BY FdLockAssumption DEF IInv, TypeOK, MutexInv, LockInv, ExclusiveUse, Users, Holding, Owning
<1> QED
  BY <1>1, InitIInv, StepIInv, PTL DEF Spec

\* Both together: what the locks of the descriptors are for.
THEOREM LockingSound == Spec => []LockingIsSound
<1> QED
  BY TypeCorrect, MutualExclusion, PTL DEF LockingIsSound

\* A thread waits for a free descriptor only while another one is about to
\* signal it or to take the descriptor.
THEOREM WakeupsKept == Spec => []NoLostWakeup
<1>1. IInv => NoLostWakeup
  BY DEF IInv, WakeupInv, NoLostWakeup, Waiting, Movers
<1> QED
  BY <1>1, InitIInv, StepIInv, PTL DEF Spec
=============================================================================
