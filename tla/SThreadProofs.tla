---------------------------- MODULE SThreadProofs ----------------------------
(***************************************************************************)
(* For every number of threads, uses and keys: the locks of the threads    *)
(* library exclude and are released as they are held, the instance of a    *)
(* thread is freed by its last user, and destructors get their own values. *)
(***************************************************************************)
EXTENDS SThread, FiniteSetTheorems, TLAPS

Initialising == {"initcheck", "initflag", "initnest", "initunlock"}
Locking == {"enter", "count", "held", "leave", "sleep", "asleep"}
Spinning == {"spown", "spheld", "spfree"}

\* The inner lock of mutex_init_once lets one thread initialise; the flag tells
\* that it has, and comes before any use.
InitInv ==
    /\ \A t \in Threads : at[t] \in Initialising => lock = 1
    /\ \A t, u \in Threads : at[t] \in Initialising /\ at[u] \in Initialising => t = u
    /\ \A t \in Threads : at[t] = "initflag" => ~flag /\ inits = 1
    /\ \A t \in Threads : at[t] \in {"initnest", "initunlock"} \cup Locking => flag
    /\ flag => inits = 1
    /\ (\A t \in Threads : at[t] # "initflag") /\ ~flag => inits = 0

\* The critical section belongs to the thread that is inside, which is why the
\* nesting count is 0 or 1.
HolderInv ==
    /\ \A t \in Threads : Inside(t) => cs = t
    /\ clobbered \/ nest = IF \E t \in Threads : at[t] = "held" THEN 1 ELSE 0

\* The owner of a reader/writer lock is its writer, as long as it holds the lock.
RwInv ==
    /\ writer # Nobody => readers = {}
    /\ owner # Nobody => owner = writer /\ at[owner] = "rwheld"
    /\ \A t \in Threads : at[t] \in {"rwown", "rwexcl"} => writer = t
    /\ \A t \in Threads : at[t] = "rwshared" => t \in readers
    /\ \A t \in Threads : at[t] = "rwheld" => t \in readers \/ (writer = t /\ owner = t)

SpinInv ==
    /\ \A t \in Threads : at[t] \in Spinning => spin = 1
    /\ \A t, u \in Threads : at[t] \in Spinning /\ at[u] \in Spinning => t = u
    /\ \A t \in Threads : at[t] = "spheld" => spinner = t

LocksInv == TypeOK /\ InitInv /\ HolderInv /\ RwInv /\ SpinInv
-----------------------------------------------------------------------------
Joining == {"locked", "handle", "wait", "refused"}
Fates == {"join", "detach", "attr", "self", "both"}

LifeType ==
    /\ half \in {"locks", "lives"}
    /\ fate \in [Created -> Fates]
    /\ handle \in [Workers -> BOOLEAN] /\ joining \in [Workers -> BOOLEAN]
    /\ result \in [Workers -> BOOLEAN] /\ ended \in [Workers -> BOOLEAN]
    /\ jat \in [Workers -> {"none", "store", "zero", "created", "locked", "handle", "wait",
                         "refused", "done", "failed"}]
    /\ joined \subseteq Workers \X BOOLEAN

\* How far main is with a thread, and what it has done to the instance by then.
MainInv ==
    \A w \in Created :
        /\ jat[w] = "none" => inst[w] = "none"
        /\ jat[w] \in {"none", "store"} => ~handle[w]
        /\ jat[w] = "zero" => handle[w] /\ fate[w] = "attr"
        /\ jat[w] = "created" => fate[w] # "attr"
        /\ jat[w] = "created" /\ ~handle[w] => fate[w] = "self"
        /\ jat[w] \in Joining => fate[w] \in {"join", "both"} /\ joining[w]
        /\ jat[w] \in Joining /\ ~handle[w] => fate[w] = "both"
        /\ jat[w] = "refused" => ~handle[w]
        /\ jat[w] = "done" /\ fate[w] \in {"join", "both"} => ended[w] /\ inst[w] = "freed"
        /\ jat[w] = "failed" => fate[w] = "both" /\ ~handle[w]
        /\ joining[w] => jat[w] \in Joining \cup {"done"} /\ fate[w] \in {"join", "both"}

\* How far the thread is, and what it relies on.
SelfInv ==
    \A w \in Created :
        /\ at[w] = "none" <=> jat[w] = "none"
        /\ inst[w] = "freed" => at[w] \in {"gone", "exitkeys", "exitdestroy"}
        /\ ended[w] => at[w] = "gone"
        /\ at[w] \in {"gone", "exitkeys", "exitdestroy"} => result[w] \/ inst[w] = "freed"
        /\ at[w] \in {"cleanup", "destroy", "end", "endjoin"} => result[w]

\* A thread that finds itself detached although it looked in time really is, or its
\* joiner has freed the instance.
DetachedInv ==
    \A w \in Created : w \notin early =>
        /\ at[w] \in {"endjoin", "exitfree"} => ~handle[w] /\ jat[w] \notin {"store", "zero"}
        /\ at[w] = "exitfree" => jat[w] \notin Joining
        /\ inst[w] = "freed" => jat[w] \in {"done", "failed"} \/ (jat[w] = "created" /\ fate[w] = "self")

LifeInv ==
    /\ LifeType
    /\ half = "locks" => \A w \in Workers : jat[w] = "none"
    /\ half = "lives" => MainInv /\ SelfInv /\ DetachedInv
    /\ FreedIsUntouched
    /\ JoinReturnsResult

KeysType ==
    /\ kat \in [Keys -> {"none", "slot", "live", "failed", "unslot", "freed"}]
    /\ index \in [Keys -> 0..MaxKeys]
    /\ data \in [Workers -> [Keys -> 0..MaxKeys]]
    /\ snap \in [Workers -> SUBSET (Keys \X (0..MaxKeys))]
    /\ called \subseteq Keys \X (0..MaxKeys)

\* An index belongs to one key until it is freed.
IndexInv ==
    /\ \A k \in Keys : kat[k] \in {"none", "slot"} => index[k] = 0
    /\ \A k \in Keys : kat[k] \in {"live", "unslot"} => index[k] # 0
    /\ \A k, l \in Keys : /\ kat[k] \in {"live", "unslot"} /\ kat[l] \in {"live", "unslot"}
                         /\ index[k] = index[l]
                         => k = l

\* What a thread has at an index was set under the key the index belongs to.
ValuesInv ==
    \A w \in Workers : \A i \in Keys :
        data[w][i] # 0 => kat[data[w][i]] \in {"live", "unslot"} /\ index[data[w][i]] = i

\* What the copy of a thread that ends leads to was set under the key of the copy.
CopyInv ==
    \A w \in Workers : at[w] \in {"destroy", "exitdestroy"} =>
        \A p \in snap[w] : p[2] # 0 => data[w][p[2]] \in {0, p[1]}

KeysInv == KeysType /\ IndexInv /\ ValuesInv /\ CopyInv /\ DestructorsFit
-----------------------------------------------------------------------------
LEMMA InitLocks == Init => LocksInv
<1> SUFFICES ASSUME Init PROVE LocksInv
  OBVIOUS
<1>1. TypeOK
  <2>1. at \in [Threads -> Steps]
    BY DEF Init, Steps
  <2>2. uses \in [Threads -> 0..MaxUses] /\ inst \in [Workers -> {"none", "live", "freed"}]
    BY ThreadAssumption DEF Init
  <2>3. /\ lock = 0 /\ flag = FALSE /\ nest = 0 /\ cs = Nobody /\ inits = 0 /\ waiting = {}
        /\ readers = {} /\ writer = Nobody /\ owner = Nobody /\ spin = 0 /\ spinner = Nobody
    BY DEF Init
  <2>4. flag \in BOOLEAN
    BY <2>3
  <2>5. lock \in 0..1 /\ nest \in Int /\ inits \in 0..1 /\ spin \in 0..1
    BY <2>3
  <2> QED
    BY <2>1, <2>2, <2>3, <2>4, <2>5 DEF TypeOK
<1>2. \A t \in Threads : at[t] \in {"run", "none"}
  BY DEF Init
<1>3. InitInv /\ HolderInv
  BY <1>2 DEF Init, InitInv, HolderInv, Initialising, Locking, Inside
<1>4. RwInv /\ SpinInv
  BY <1>2 DEF Init, RwInv, SpinInv, Spinning
<1> QED
  BY <1>1, <1>3, <1>4 DEF LocksInv

\* The steps that use the mutex and its condition variable.
LEMMA MutexStep ==
    ASSUME LocksInv, NEW t \in Workers,
           \/ Lock(t) \/ InitLock(t) \/ InitCs(t) \/ InitFlag(t) \/ InitNest(t) \/ InitUnlock(t)
           \/ Enter(t) \/ Count(t) \/ Uncount(t) \/ Leave(t) \/ Sleep(t) \/ Wake(t)
           \/ TryFails(t) \/ Wait(t)
    PROVE  LocksInv'
<1> USE ThreadAssumption DEF LocksInv, TypeOK, Threads, Steps, InitInv, HolderInv, RwInv, SpinInv,
        Initialising, Locking, Spinning, Inside, Move, OnlyMutex, mutexvars, rwvars, spinvars,
        instvars, tlsvars, history
<1>1. CASE Lock(t)
  BY <1>1 DEF Lock
<1>2. CASE InitLock(t)
  BY <1>2 DEF InitLock
<1>3. CASE InitCs(t)
  BY <1>3 DEF InitCs
<1>4. CASE InitFlag(t)
  BY <1>4 DEF InitFlag
<1>5. CASE InitNest(t)
  BY <1>5 DEF InitNest
<1>6. CASE InitUnlock(t)
  BY <1>6 DEF InitUnlock
<1>7. CASE Enter(t)
  BY <1>7 DEF Enter
<1>8. CASE Count(t)
  BY <1>8 DEF Count
<1>9. CASE Uncount(t)
  BY <1>9 DEF Uncount
<1>10. CASE Leave(t)
  BY <1>10 DEF Leave
<1>11. CASE Sleep(t)
  BY <1>11 DEF Sleep
<1>12. CASE Wake(t)
  BY <1>12 DEF Wake
<1>13. CASE TryFails(t)
  BY <1>13 DEF TryFails
<1>14. CASE Wait(t)
  BY <1>14 DEF Wait
<1> QED
  BY <1>1, <1>2, <1>3, <1>4, <1>5, <1>6, <1>7, <1>8, <1>9, <1>10, <1>11, <1>12, <1>13, <1>14

\* The steps that use the reader/writer lock and the spin lock.
LEMMA RwSpinStep ==
    ASSUME LocksInv, NEW t \in Workers,
           \/ RdLock(t) \/ WrLock(t) \/ SetOwner(t) \/ RwUnlock(t) \/ ReleaseExclusive(t)
           \/ ReleaseShared(t) \/ SpinLock(t) \/ SpinOwn(t) \/ SpinDisown(t) \/ SpinFree(t)
    PROVE  LocksInv'
<1> USE ThreadAssumption DEF LocksInv, TypeOK, Threads, Steps, InitInv, HolderInv, RwInv, SpinInv,
        Initialising, Locking, Spinning, Inside, Move, OnlyRw, OnlySpin, mutexvars, rwvars,
        spinvars, instvars, tlsvars, history
<1>1. CASE RdLock(t)
  BY <1>1 DEF RdLock
<1>2. CASE WrLock(t)
  BY <1>2 DEF WrLock
<1>3. CASE SetOwner(t)
  BY <1>3 DEF SetOwner
<1>4. CASE RwUnlock(t)
  BY <1>4 DEF RwUnlock
<1>5. CASE ReleaseExclusive(t)
  BY <1>5 DEF ReleaseExclusive
<1>6. CASE ReleaseShared(t)
  BY <1>6 DEF ReleaseShared
<1>7. CASE SpinLock(t)
  BY <1>7 DEF SpinLock
<1>8. CASE SpinOwn(t)
  BY <1>8 DEF SpinOwn
<1>9. CASE SpinDisown(t)
  BY <1>9 DEF SpinDisown
<1>10. CASE SpinFree(t)
  BY <1>10 DEF SpinFree
<1> QED
  BY <1>1, <1>2, <1>3, <1>4, <1>5, <1>6, <1>7, <1>8, <1>9, <1>10

\* The life of a thread leaves the locks alone.
LEMMA OtherStep ==
    ASSUME LocksInv, NEW w \in Workers, mutexvars' = mutexvars, rwvars' = rwvars,
           spinvars' = spinvars, uses' = uses, clobbered' = clobbered,
           inst' \in [Workers -> {"none", "live", "freed"}],
           at' = at \/ \E s \in {"run", "cleanup", "destroy", "end", "endjoin", "gone", "exit",
                                  "exitfree", "exitkeys", "exitdestroy"} :
                         /\ at' = [at EXCEPT ![w] = s]
                         /\ at[w] \in {"none", "run", "cleanup", "destroy", "end", "endjoin",
                                        "exit", "exitfree", "exitkeys", "exitdestroy"}
    PROVE  LocksInv'
<1> USE ThreadAssumption DEF LocksInv, TypeOK, Threads, Steps, InitInv, HolderInv, RwInv, SpinInv,
        Initialising, Locking, Spinning, Inside, mutexvars, rwvars, spinvars
<1>1. CASE at' = at
  BY <1>1
<1>2. ASSUME NEW s \in {"run", "cleanup", "destroy", "end", "endjoin", "gone", "exit",
                        "exitfree", "exitkeys", "exitdestroy"},
             at' = [at EXCEPT ![w] = s],
             at[w] \in {"none", "run", "cleanup", "destroy", "end", "endjoin", "exit",
                        "exitfree", "exitkeys", "exitdestroy"}
      PROVE  LocksInv'
  <2>1. TypeOK'
    BY <1>2
  <2>2. InitInv' /\ SpinInv'
    BY <1>2
  <2>3. HolderInv'
    BY <1>2
  <2>4. RwInv'
    BY <1>2
  <2> QED
    BY <2>1, <2>2, <2>3, <2>4
<1> QED
  BY <1>1, <1>2
-----------------------------------------------------------------------------
(* The lives of the threads. *)

InstanceInv == MainInv /\ SelfInv /\ DetachedInv /\ FreedIsUntouched /\ JoinReturnsResult

\* What main does with a thread.
LEMMA MainStep ==
    ASSUME LifeType, TypeOK, InstanceInv, UNCHANGED half, NEW w \in Created,
           \/ Create(w) \/ StoreHandle(w) \/ ZeroHandle(w) \/ JoinBegin(w) \/ JoinHandle(w)
           \/ JoinWait(w) \/ JoinRefused(w) \/ JoinEnd(w)
    PROVE  LifeType' /\ InstanceInv'
<1> USE ThreadAssumption DEF LifeType, TypeOK, Threads, InstanceInv, MainInv, SelfInv,
        DetachedInv, Joining, FreedIsUntouched, JoinReturnsResult, Touch, OnlyInst, Unused, Move,
        OnlyTls, instvars, tlsvars
<1>1. CASE Create(w)
  BY <1>1 DEF Create
<1>2. CASE StoreHandle(w)
  BY <1>2 DEF StoreHandle
<1>3. CASE ZeroHandle(w)
  BY <1>3 DEF ZeroHandle
<1>4. CASE JoinBegin(w)
  BY <1>4 DEF JoinBegin
<1>5. CASE JoinEnd(w)
  BY <1>5 DEF JoinEnd
<1>6. CASE JoinHandle(w)
  BY <1>6 DEF JoinHandle
<1>7. CASE JoinWait(w)
  BY <1>7 DEF JoinWait
<1>8. CASE JoinRefused(w)
  BY <1>8 DEF JoinRefused
<1> QED
  BY <1>1, <1>2, <1>3, <1>4, <1>5, <1>6, <1>7, <1>8

\* What a thread writes into its instance keeps its type.
LEMMA SelfType ==
    ASSUME LifeType, NEW w \in Created, UNCHANGED <<half, fate, handle, joining, jat, joined>>,
           result' = [result EXCEPT ![w] = TRUE] \/ result' = result,
           ended' = [ended EXCEPT ![w] = TRUE] \/ ended' = ended
    PROVE  LifeType'
BY ThreadAssumption DEF LifeType

\* What the thread does itself, up to its end.
LEMMA SelfStep ==
    ASSUME LifeType, TypeOK, InstanceInv, UNCHANGED half, NEW w \in Created,
           \/ DetachSelf(w) \/ Finish(w) \/ End(w) \/ Exit(w)
           \/ (\E k \in Keys : SetSpecific(w, k))
           \/ Snapshot(w) \/ Destructor(w) \/ Destroyed(w)
    PROVE  LifeType' /\ InstanceInv'
<1> USE ThreadAssumption DEF LifeType, TypeOK, Threads, InstanceInv, MainInv, SelfInv,
        DetachedInv, Joining, FreedIsUntouched, JoinReturnsResult, Touch, OnlyInst, Unused, Move,
        OnlyTls, instvars, tlsvars
<1>1. CASE DetachSelf(w)
  BY <1>1 DEF DetachSelf
<1>2. CASE Finish(w)
  <2>1. result' = [result EXCEPT ![w] = TRUE] \/ result' = result
    BY <1>2 DEF Finish
  <2>2. LifeType'
    BY <1>2, <2>1, SelfType DEF Finish
  <2>3. (MainInv /\ SelfInv /\ DetachedInv)'
    BY <1>2 DEF Finish
  <2>4. (FreedIsUntouched /\ JoinReturnsResult)'
    BY <1>2, <2>1 DEF Finish
  <2> QED
    BY <2>2, <2>3, <2>4
<1>3. CASE End(w)
  <2>1. ended' = [ended EXCEPT ![w] = TRUE] \/ ended' = ended
    BY <1>3 DEF End
  <2>7. LifeType'
    BY <1>3, <2>1, SelfType DEF End
  <2>2. MainInv'
    BY <1>3 DEF End
  <2>3. SelfInv'
    BY <1>3 DEF End
  <2>4. DetachedInv'
    BY <1>3 DEF End
  <2>5. FreedIsUntouched'
    BY <1>3 DEF End
  <2>6. JoinReturnsResult'
    BY <1>3 DEF End
  <2> QED
    BY <2>1, <2>2, <2>3, <2>4, <2>5, <2>6, <2>7
<1>4. CASE Exit(w)
  <2>1. result' = [result EXCEPT ![w] = TRUE] \/ result' = result
    BY <1>4 DEF Exit
  <2>7. LifeType'
    BY <1>4, <2>1, SelfType DEF Exit
  <2>2. MainInv'
    BY <1>4 DEF Exit
  <2>3. SelfInv'
    BY <1>4 DEF Exit
  <2>4. DetachedInv'
    BY <1>4 DEF Exit
  <2>5. FreedIsUntouched'
    BY <1>4 DEF Exit
  <2>6. JoinReturnsResult'
    BY <1>4 DEF Exit
  <2> QED
    BY <2>1, <2>2, <2>3, <2>4, <2>5, <2>6, <2>7
<1>5. CASE \E k \in Keys : SetSpecific(w, k)
  BY <1>5 DEF SetSpecific
<1>6. CASE Snapshot(w)
  BY <1>6 DEF Snapshot
<1>7. CASE Destroyed(w)
  <2>1. ended' = [ended EXCEPT ![w] = TRUE] \/ ended' = ended
    BY <1>7 DEF Destroyed
  <2>7. LifeType'
    BY <1>7, <2>1, SelfType DEF Destroyed
  <2>2. MainInv'
    BY <1>7 DEF Destroyed
  <2>3. SelfInv'
    BY <1>7 DEF Destroyed
  <2>4. DetachedInv'
    BY <1>7 DEF Destroyed
  <2>5. FreedIsUntouched'
    BY <1>7 DEF Destroyed
  <2>6. JoinReturnsResult'
    BY <1>7 DEF Destroyed
  <2> QED
    BY <2>1, <2>2, <2>3, <2>4, <2>5, <2>6, <2>7
<1>8. CASE Destructor(w)
  BY <1>8 DEF Destructor
<1> QED
  BY <1>1, <1>2, <1>3, <1>4, <1>5, <1>6, <1>7, <1>8

LEMMA InitLives == Init => LifeInv /\ KeysInv
<1> SUFFICES ASSUME Init PROVE LifeInv /\ KeysInv
  OBVIOUS
<1> USE ThreadAssumption DEF Init
<1>1. LifeType
  <2>1. fate \in [Created -> Fates]
    BY DEF Fates
  <2> QED
    BY <2>1 DEF LifeType
<1>2. half = "lives" => \A w \in Created : at[w] = "none"
  BY DEF Threads
<1>3. half = "lives" => MainInv /\ SelfInv /\ DetachedInv
  BY <1>2 DEF MainInv, SelfInv, DetachedInv, Joining
<1>4. FreedIsUntouched /\ JoinReturnsResult
  BY DEF FreedIsUntouched, JoinReturnsResult
<1>5. KeysInv
  BY DEF KeysInv, KeysType, IndexInv, ValuesInv, CopyInv, Keys, DestructorsFit
<1> QED
  BY <1>1, <1>3, <1>4, <1>5 DEF LifeInv

-----------------------------------------------------------------------------
(* The keys. *)

\* Steps that touch neither keys nor values, and do not begin a thread's destructors.
LEMMA KeysKept ==
    ASSUME KeysInv, UNCHANGED <<tlsvars, called>>,
           \A w \in Workers : at'[w] \in {"destroy", "exitdestroy"} => at'[w] = at[w]
    PROVE  KeysInv'
BY DEF KeysInv, KeysType, IndexInv, ValuesInv, CopyInv, DestructorsFit, tlsvars

\* The types of what is in a copy of the table.
LEMMA CopiesTyped ==
    ASSUME KeysType, NEW w \in Workers, NEW p \in snap[w]
    PROVE  /\ p = <<p[1], p[2]>> /\ p[1] \in Keys /\ p[2] \in 0..MaxKeys
           /\ p[2] # 0 => p[2] \in Keys
<1>1. p \in Keys \X (0..MaxKeys)
  BY DEF KeysType
<1> QED
  BY <1>1, ThreadAssumption DEF Keys

\* Steps of a thread with its values and its copy of the table.
LEMMA ValuesStep ==
    ASSUME KeysInv, at \in [Threads -> Steps], NEW w \in Created,
           (\E k \in Keys : SetSpecific(w, k)) \/ Snapshot(w) \/ Destructor(w) \/ Destroyed(w)
    PROVE  KeysInv'
<1> USE ThreadAssumption DEF KeysInv, Keys, Threads, Move, OnlyTls, tlsvars
<1>1. ASSUME NEW k \in Keys, SetSpecific(w, k) PROVE KeysInv'
  <2> USE DEF SetSpecific
  <2>1. index[k] \in Keys /\ k \in 0..MaxKeys /\ k # 0 /\ kat[k] = "live"
    BY <1>1 DEF KeysType, IndexInv
  <2>2. data' \in [Workers -> [Keys -> 0..MaxKeys]]
    BY <1>1, <2>1 DEF KeysType
  <2>3. \A u \in Workers : \A i \in Keys :
          data'[u][i] = IF u = w /\ i = index[k] THEN k ELSE data[u][i]
    BY <1>1, <2>1 DEF KeysType
  <2>4. KeysType' /\ IndexInv' /\ DestructorsFit'
    BY <1>1, <2>2 DEF KeysType, IndexInv, DestructorsFit
  <2>5. ValuesInv'
    BY <1>1, <2>1, <2>3 DEF ValuesInv
  <2>6. CopyInv'
    <3> SUFFICES ASSUME NEW u \in Workers, at[u] \in {"destroy", "exitdestroy"},
                        NEW p \in snap[u], p[2] # 0
                 PROVE  data'[u][p[2]] \in {0, p[1]}
      BY <1>1 DEF CopyInv
    <3>1. u # w
      BY <1>1
    <3>2. p[2] \in Keys
      BY CopiesTyped
    <3> QED
      BY <2>3, <3>1, <3>2 DEF CopyInv
  <2> QED
    BY <2>4, <2>5, <2>6
<1>2. CASE Snapshot(w)
  <2> USE DEF Snapshot
  <2>1. {<<k, index[k]>> : k \in Active} \in SUBSET (Keys \X (0..MaxKeys))
    BY DEF Active, KeysType
  <2>2. snap' \in [Workers -> SUBSET (Keys \X (0..MaxKeys))]
    BY <1>2, <2>1 DEF KeysType
  <2>3. \A k \in Active : index[k] # 0 => data[w][index[k]] \in {0, k}
    <3> SUFFICES ASSUME NEW k \in Active, index[k] # 0, data[w][index[k]] # 0
                 PROVE  data[w][index[k]] = k
      OBVIOUS
    <3>0. k \in Keys /\ kat[k] = "live"
      BY DEF Active, KeysType, IndexInv
    <3>1. k \in Keys /\ kat[k] = "live" /\ index[k] \in Keys
      BY <3>0 DEF KeysType
    <3>2. data[w][index[k]] \in Keys
      BY <3>1 DEF KeysType
    <3>3. kat[data[w][index[k]]] \in {"live", "unslot"} /\ index[data[w][index[k]]] = index[k]
      BY <3>1 DEF ValuesInv
    <3> QED
      BY <3>1, <3>2, <3>3 DEF IndexInv
  <2>4. snap'[w] = {<<k, index[k]>> : k \in Active}
    BY <1>2 DEF KeysType
  <2>5. \A p \in snap'[w] : p[2] # 0 => data[w][p[2]] \in {0, p[1]}
    BY <2>3, <2>4
  <2>6. CopyInv'
    BY <1>2, <2>5 DEF CopyInv, KeysType
  <2>7. UNCHANGED <<kat, index, data, called>>
    BY <1>2
  <2>8. KeysType'
    BY <2>2, <2>7 DEF KeysType
  <2>9. IndexInv' /\ DestructorsFit'
    BY <2>7 DEF IndexInv, DestructorsFit
  <2>10. ValuesInv'
    BY <2>7 DEF ValuesInv
  <2> QED
    BY <2>6, <2>8, <2>9, <2>10
<1>3. CASE Destructor(w)
  <2>1. PICK p \in snap[w] :
          /\ snap' = [snap EXCEPT ![w] = @ \ {p}]
          /\ IF p[2] = 0 THEN called' = called \cup {<<p[1], 0>>} /\ UNCHANGED data
             ELSE IF data[w][p[2]] # 0
             THEN /\ called' = called \cup {<<p[1], data[w][p[2]]>>}
                  /\ data' = [data EXCEPT ![w][p[2]] = 0]
             ELSE UNCHANGED <<called, data>>
    BY <1>3 DEF Destructor
  <2>0. UNCHANGED <<at, kat, index>> /\ at[w] \in {"destroy", "exitdestroy"}
    BY <1>3 DEF Destructor
  <2>2. p[1] \in Keys /\ p[2] \in 0..MaxKeys /\ (p[2] # 0 => p[2] \in Keys)
    BY CopiesTyped
  <2>3. snap' \in [Workers -> SUBSET (Keys \X (0..MaxKeys))] /\ \A u \in Workers : snap'[u] \subseteq snap[u]
    BY <2>1 DEF KeysType
  <2>4. CASE p[2] = 0
    <3>1. called' = called \cup {<<p[1], 0>>} /\ data' = data
      BY <2>1, <2>4
    <3>2. called' \subseteq Keys \X (0..MaxKeys)
      BY <2>2, <3>1 DEF KeysType
    <3>5. KeysType' /\ DestructorsFit'
      BY <2>0, <2>3, <3>1, <3>2 DEF KeysType, DestructorsFit
    <3>3. IndexInv' /\ ValuesInv'
      BY <2>0, <3>1 DEF IndexInv, ValuesInv
    <3>4. CopyInv'
      BY <2>0, <2>3, <3>1 DEF CopyInv
    <3> QED
      BY <3>5, <3>3, <3>4
  <2>5. CASE p[2] # 0 /\ data[w][p[2]] # 0
    <3>1. called' = called \cup {<<p[1], data[w][p[2]]>>} /\ data' = [data EXCEPT ![w][p[2]] = 0]
      BY <2>1, <2>5
    <3>2. p[2] \in Keys /\ data[w][p[2]] = p[1]
      BY <2>0, <2>2, <2>5 DEF CopyInv
    <3>3. data' \in [Workers -> [Keys -> 0..MaxKeys]]
      BY <3>1, <3>2 DEF KeysType
    <3>4. \A u \in Workers : \A i \in Keys : data'[u][i] \in {0, data[u][i]}
      BY <3>1, <3>2 DEF KeysType
    <3>9. called' \subseteq Keys \X (0..MaxKeys)
      BY <2>2, <3>1, <3>2 DEF KeysType
    <3>5. KeysType'
      BY <2>0, <2>3, <3>3, <3>9 DEF KeysType
    <3>6. DestructorsFit' /\ IndexInv'
      BY <2>0, <3>1, <3>2 DEF DestructorsFit, IndexInv
    <3>7. ValuesInv'
      BY <2>0, <3>4 DEF ValuesInv
    <3>8. CopyInv'
      <4> SUFFICES ASSUME NEW u \in Workers, at[u] \in {"destroy", "exitdestroy"},
                          NEW q \in snap'[u], q[2] # 0
                   PROVE  data'[u][q[2]] \in {0, q[1]}
        BY <2>0 DEF CopyInv
      <4>1. q \in snap[u] /\ q[2] \in Keys
        BY <2>3, CopiesTyped
      <4> QED
        BY <3>4, <4>1 DEF CopyInv
    <3> QED
      BY <3>5, <3>6, <3>7, <3>8
  <2>6. CASE p[2] # 0 /\ data[w][p[2]] = 0
    <3>1. UNCHANGED <<called, data>>
      BY <2>1, <2>6
    <3> QED
      <4>1. KeysType' /\ DestructorsFit' /\ IndexInv' /\ ValuesInv'
        BY <2>0, <2>3, <3>1 DEF KeysType, DestructorsFit, IndexInv, ValuesInv
      <4>2. CopyInv'
        BY <2>0, <2>3, <3>1 DEF CopyInv
      <4> QED
        BY <4>1, <4>2
  <2> QED
    BY <2>4, <2>5, <2>6
<1>4. CASE Destroyed(w)
  <2>1. UNCHANGED <<tlsvars, called>>
    BY <1>4 DEF Destroyed
  <2>2. \A u \in Workers : at'[u] \in {"destroy", "exitdestroy"} => at'[u] = at[u]
    BY <1>4 DEF Destroyed
  <2> QED
    BY <2>1, <2>2, KeysKept
<1> QED
  BY <1>1, <1>2, <1>3, <1>4

\* Steps that create and delete keys.
LEMMA KeyStepKeeps ==
    ASSUME KeysInv, NEW k \in Keys, KeyChange(k)
    PROVE  KeysInv'
<1> USE ThreadAssumption DEF KeysInv, Keys, KeyStep, OnlyTls
<1>1. CASE KeySlot(k)
  BY <1>1 DEF KeySlot, KeysType, IndexInv, ValuesInv, CopyInv, DestructorsFit
<1>2. CASE KeyValue(k)
  <2> USE DEF KeyValue
  <2>1. PICK i \in Keys \ Taken : index' = [index EXCEPT ![k] = i]
    BY <1>2
  <2>2. i \in 1..MaxKeys /\ i # 0 /\ i \in 0..MaxKeys
    BY <2>1
  <2>3. \A l \in Keys : kat[l] \in {"live", "unslot"} => index[l] # i
    BY <2>1 DEF Taken
  <2>4. KeysType' /\ DestructorsFit' /\ CopyInv'
    BY <1>2, <2>1, <2>2 DEF KeysType, DestructorsFit, CopyInv
  <2>5. IndexInv'
    BY <1>2, <2>1, <2>2, <2>3 DEF KeysType, IndexInv
  <2>6. ValuesInv'
    <3> SUFFICES ASSUME NEW w \in Workers, NEW j \in Keys, data[w][j] # 0
                 PROVE  kat'[data[w][j]] \in {"live", "unslot"} /\ index'[data[w][j]] = j
      BY <1>2 DEF ValuesInv
    <3>0. data[w][j] \in 0..MaxKeys
      BY DEF KeysType
    <3>1. data[w][j] \in Keys /\ data[w][j] # k
      BY <1>2, <3>0 DEF ValuesInv
    <3> QED
      BY <1>2, <2>1, <3>1 DEF KeysType, ValuesInv
  <2> QED
    BY <2>4, <2>5, <2>6
<1>3. CASE KeyFails(k)
  BY <1>3 DEF KeyFails, KeysType, IndexInv, ValuesInv, CopyInv, DestructorsFit
<1>4. CASE KeyDelete(k)
  <2> USE DEF KeyDelete
  <2>1. KeysType' /\ IndexInv' /\ CopyInv' /\ DestructorsFit'
    BY <1>4 DEF KeysType, IndexInv, CopyInv, DestructorsFit
  <2>2. \A l \in Keys : kat[l] \in {"live", "unslot"} => kat'[l] \in {"live", "unslot"}
    BY <1>4 DEF KeysType
  <2>3. \A w \in Workers : \A i \in Keys : data[w][i] \in 0..MaxKeys
    BY DEF KeysType
  <2>4. ValuesInv'
    BY <1>4, <2>2, <2>3 DEF ValuesInv
  <2> QED
    BY <2>1, <2>4
<1>5. CASE KeyFree(k)
  <2> USE DEF KeyFree
  <2>1. index[k] \in Keys
    BY <1>5 DEF KeysType, IndexInv
  <2>2. data' \in [Workers -> [Keys -> 0..MaxKeys]]
    BY <1>5, <2>1 DEF KeysType
  <2>3. \A w \in Workers : \A i \in Keys :
          data'[w][i] = IF i = index[k] THEN 0 ELSE data[w][i]
    BY <1>5, <2>1 DEF KeysType
  <2>4. KeysType' /\ DestructorsFit' /\ IndexInv'
    BY <1>5, <2>2 DEF KeysType, DestructorsFit, IndexInv
  <2>5. ValuesInv'
    <3> SUFFICES ASSUME NEW w \in Workers, NEW j \in Keys, data'[w][j] # 0
                 PROVE  kat'[data'[w][j]] \in {"live", "unslot"} /\ index[data'[w][j]] = j
      BY <1>5 DEF ValuesInv
    <3>1. j # index[k] /\ data'[w][j] = data[w][j] /\ data[w][j] \in Keys
      BY <2>3 DEF KeysType
    <3>2. data[w][j] # k
      BY <3>1 DEF ValuesInv
    <3> QED
      BY <1>5, <3>1, <3>2 DEF KeysType, ValuesInv
  <2>6. CopyInv'
    <3> SUFFICES ASSUME NEW u \in Workers, at[u] \in {"destroy", "exitdestroy"},
                        NEW p \in snap[u], p[2] # 0
                 PROVE  data'[u][p[2]] \in {0, p[1]}
      BY <1>5 DEF CopyInv
    <3>1. p[2] \in Keys
      BY CopiesTyped
    <3> QED
      BY <2>3, <3>1 DEF CopyInv
  <2> QED
    BY <2>4, <2>5, <2>6
<1> QED
  BY <1>1, <1>2, <1>3, <1>4, <1>5 DEF KeyChange

IInv == LocksInv /\ LifeInv /\ KeysInv

LEMMA InitIInv == Init => IInv
BY InitLocks, InitLives DEF IInv

\* A step of one half leaves the state of the other alone.
LEMMA StepIInv == IInv /\ [Next]_vars => IInv'
<1> SUFFICES ASSUME IInv, [Next]_vars PROVE IInv'
  OBVIOUS
<1> USE DEF IInv
<1>1. CASE UNCHANGED vars
  <2> USE <1>1 DEF vars, mutexvars, rwvars, spinvars, instvars, tlsvars, history
  <2>1. LocksInv'
    BY DEF LocksInv, TypeOK, InitInv, HolderInv, Inside, RwInv, SpinInv
  <2>2. LifeInv'
    BY DEF LifeInv, LifeType, MainInv, SelfInv, DetachedInv, FreedIsUntouched, JoinReturnsResult
  <2>3. KeysInv'
    BY KeysKept
  <2> QED
    BY <2>1, <2>2, <2>3
<1>2. ASSUME NEW t \in Workers, half = "locks", UNCHANGED half, Progress(t) \/ Choice(t)
      PROVE  IInv'
  <2>1. LocksInv'
    BY <1>2, MutexStep, RwSpinStep DEF Progress, Choice
  <2>2. UNCHANGED <<instvars, tlsvars, touched, early, joined, called>>
    BY <1>2 DEF Progress, Choice, Lock, InitLock, InitCs, InitFlag, InitNest, InitUnlock, Enter,
       Count, Uncount, Leave, Sleep, Wake, TryFails, Wait, RdLock, WrLock, SetOwner, RwUnlock,
       ReleaseExclusive, ReleaseShared, SpinLock, SpinOwn, SpinDisown, SpinFree, OnlyMutex,
       OnlyRw, OnlySpin, history
  <2>3. LifeInv'
    BY <1>2, <2>2 DEF LifeInv, LifeType, FreedIsUntouched, JoinReturnsResult, instvars
  <2>4. \A w \in Workers : at'[w] \in {"destroy", "exitdestroy"} => at'[w] = at[w]
    BY <1>2, ThreadAssumption DEF Threads, Progress, Choice, Lock, InitLock, InitCs, InitFlag, InitNest, InitUnlock, Enter,
       Count, Uncount, Leave, Sleep, Wake, TryFails, Wait, RdLock, WrLock, SetOwner, RwUnlock,
       ReleaseExclusive, ReleaseShared, SpinLock, SpinOwn, SpinDisown, SpinFree, Move, LocksInv,
       TypeOK
  <2>5. KeysInv'
    BY <2>2, <2>4, KeysKept
  <2> QED
    BY <2>1, <2>3, <2>5
<1>3. ASSUME NEW w \in Created, half = "lives", UNCHANGED half,
             \/ Create(w) \/ Life(w) \/ DetachSelf(w) \/ JoinBegin(w)
             \/ \E k \in Keys : SetSpecific(w, k)
      PROVE  IInv'
  <2>1. LifeInv'
    BY <1>3, MainStep, SelfStep DEF LifeInv, LocksInv, InstanceInv, Life
  <2>2. LocksInv'
    <3>1. UNCHANGED <<mutexvars, rwvars, spinvars, uses, clobbered>>
      BY <1>3 DEF Life, Create, StoreHandle, ZeroHandle, DetachSelf, JoinBegin, JoinHandle,
         JoinWait, JoinRefused, JoinEnd, Finish, End, Exit, SetSpecific, Snapshot, Destructor,
         Destroyed, OnlyInst, OnlyTls, Unused
    <3>2. inst' \in [Workers -> {"none", "live", "freed"}]
      BY <1>3, ThreadAssumption DEF LocksInv, TypeOK, Life, Create, StoreHandle, ZeroHandle,
         DetachSelf, JoinBegin, JoinHandle, JoinWait, JoinRefused, JoinEnd, Finish, End, Exit,
         SetSpecific, Snapshot, Destructor, Destroyed, OnlyInst, OnlyTls, Unused, instvars
    <3>3. at' = at \/ \E s \in {"run", "cleanup", "destroy", "end", "endjoin", "gone", "exit",
                                "exitfree", "exitkeys", "exitdestroy"} :
                       /\ at' = [at EXCEPT ![w] = s]
                       /\ at[w] \in {"none", "run", "cleanup", "destroy", "end", "endjoin",
                                      "exit", "exitfree", "exitkeys", "exitdestroy"}
      BY <1>3 DEF Life, Create, StoreHandle, ZeroHandle, DetachSelf, JoinBegin, JoinHandle,
         JoinWait, JoinRefused, JoinEnd, Finish, End, Exit, SetSpecific, Snapshot, Destructor,
         Destroyed, OnlyTls, Unused, Move, LifeInv, SelfInv
    <3> QED
      BY <1>3, <3>1, <3>2, <3>3, OtherStep, ThreadAssumption
  <2>3. KeysInv'
    <3>1. CASE (\E k \in Keys : SetSpecific(w, k)) \/ Snapshot(w) \/ Destructor(w) \/ Destroyed(w)
      BY <3>1, ValuesStep DEF LocksInv, TypeOK
    <3>2. CASE \/ Create(w) \/ DetachSelf(w) \/ JoinBegin(w) \/ StoreHandle(w) \/ ZeroHandle(w)
               \/ JoinHandle(w) \/ JoinWait(w) \/ JoinRefused(w) \/ JoinEnd(w) \/ Finish(w)
               \/ End(w) \/ Exit(w)
      <4>1. UNCHANGED <<tlsvars, called>>
        BY <3>2 DEF Create, StoreHandle, ZeroHandle, DetachSelf, JoinBegin, JoinHandle, JoinWait,
           JoinRefused, JoinEnd, Finish, End, Exit, OnlyInst, Unused
      <4>2. at' = at \/ \E s \in {"run", "cleanup", "end", "endjoin", "gone", "exit", "exitfree",
                                  "exitkeys"} : at' = [at EXCEPT ![w] = s]
        BY <3>2 DEF Create, StoreHandle, ZeroHandle, DetachSelf, JoinBegin, JoinHandle, JoinWait,
           JoinRefused, JoinEnd, Finish, End, Exit, Unused, Move
      <4>3. \A u \in Workers : at'[u] \in {"destroy", "exitdestroy"} => at'[u] = at[u]
        BY <4>2, ThreadAssumption DEF LocksInv, TypeOK, Threads
      <4> QED
        BY <4>1, <4>3, KeysKept
    <3> QED
      BY <1>3, <3>1, <3>2 DEF Life
  <2> QED
    BY <2>1, <2>2, <2>3
<1>4. ASSUME NEW k \in Keys, KeyChange(k), UNCHANGED half
      PROVE  IInv'
  <2>1. UNCHANGED <<at, uses, mutexvars, rwvars, spinvars, instvars, clobbered, touched, early,
                    joined>>
    BY <1>4 DEF KeyChange, KeySlot, KeyValue, KeyFails, KeyDelete, KeyFree, OnlyTls
  <2>2. LocksInv'
    BY <2>1 DEF LocksInv, TypeOK, InitInv, HolderInv, Inside, RwInv, SpinInv, mutexvars, rwvars,
       spinvars, instvars
  <2>3. LifeInv'
    BY <1>4, <2>1 DEF LifeInv, LifeType, MainInv, SelfInv, DetachedInv, FreedIsUntouched,
       JoinReturnsResult, instvars
  <2> QED
    BY <1>4, <2>2, <2>3, KeyStepKeeps
<1> QED
  BY <1>1, <1>2, <1>3, <1>4 DEF Next
-----------------------------------------------------------------------------
\* One thread at most is counted: nobody else is inside.
LEMMA HeldCount ==
    ASSUME MutualExclusion
    PROVE  Cardinality({t \in Threads : at[t] = "held"})
             = IF \E t \in Threads : at[t] = "held" THEN 1 ELSE 0
<1>1. CASE \E t \in Threads : at[t] = "held"
  <2>1. PICK t \in Threads : at[t] = "held"
    BY <1>1
  <2>2. {u \in Threads : at[u] = "held"} = {t}
    BY <2>1 DEF MutualExclusion, Inside
  <2> QED
    BY <1>1, <2>2, FS_Singleton
<1>2. CASE ~\E t \in Threads : at[t] = "held"
  <2>1. {u \in Threads : at[u] = "held"} = {}
    BY <1>2
  <2> QED
    BY <1>2, <2>1, FS_EmptySet
<1> QED
  BY <1>1, <1>2

\* However the first uses of a mutex, the waits for its condition and the
\* releases of the three kinds of locks interleave (mutex.c, condition.c,
\* rwlock.c, spinlock.c), for any number of threads: one initialisation, before
\* any use; one holder, counted once; and every lock is released as it is held.
THEOREM LocksSound == Spec => []LocksAreSound
<1>1. IInv => LocksAreSound
  <2> SUFFICES ASSUME IInv PROVE LocksAreSound
    OBVIOUS
  <2> USE DEF IInv, LocksInv
  <2>1. MutualExclusion
    BY ThreadAssumption DEF MutualExclusion, InitInv, HolderInv, Inside, Locking, Threads
  <2>2. NestIsCount
    BY <2>1, HeldCount DEF NestIsCount, HolderInv
  <2>3. ReleasedAsHeld
    BY DEF ReleasedAsHeld, RwInv, SpinInv
  <2> QED
    BY <2>1, <2>2, <2>3 DEF LocksAreSound
<1> QED
  BY <1>1, InitIInv, StepIInv, PTL DEF Spec

\* Whichever of its creator, joiner, detacher and itself comes last to the
\* instance of a thread (thread.c), and however a thread's detaching itself falls
\* between the steps of the join: nobody uses it once it is freed, unless the thread
\* looked before its creator had stored its handle; a join that waited has the thread's
\* own result and frees it, and only a thread that detached itself refuses its joiner.
THEOREM InstancesSound == Spec => []InstancesAreSound
<1>1. IInv => InstancesAreSound
  <2> SUFFICES ASSUME IInv PROVE InstancesAreSound
    OBVIOUS
  <2>1. JoinedIsFreed
    BY ThreadAssumption DEF IInv, LifeInv, LifeType, MainInv, JoinedIsFreed
  <2> QED
    BY <2>1 DEF IInv, LifeInv, InstancesAreSound
<1> QED
  BY <1>1, InitIInv, StepIInv, PTL DEF Spec

\* However keys are created and deleted, and their indices given out again, while
\* threads end (tls.c: pthread_key_create, pthread_key_delete, _pthread_tls_cleanup): no
\* destructor of a key is called with the value set under another.
THEOREM DestructorsGetTheirs == Spec => []DestructorsFit
<1>1. IInv => DestructorsFit
  BY DEF IInv, KeysInv
<1> QED
  BY <1>1, InitIInv, StepIInv, PTL DEF Spec
=============================================================================
