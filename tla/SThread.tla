------------------------------ MODULE SThread ------------------------------
(***************************************************************************)
(* The threads library (libsthread): mutexes initialised at first use      *)
(* (mutex.c), condition variables (condition.c), reader/writer locks that  *)
(* find out from their owner how to be released (rwlock.c), the instance a *)
(* thread shares with its creator, joiner and detacher (thread.c) and the  *)
(* keys with their destructors (tls.c).                                    *)
(*                                                                         *)
(* The main thread creates, joins and detaches the workers; running        *)
(* workers use one mutex, condition and reader/writer lock.  The two halves *)
(* share no state, so that a behaviour exercises one of them.  Assertions  *)
(* are compiled out, as in a release build.                                *)
(***************************************************************************)
EXTENDS Integers, Sequences, FiniteSets

CONSTANTS Workers, Main, Nobody,
    MaxUses,   \* bound: mutex or lock uses of each worker
    MaxKeys,   \* bound: keys created, fewer than the slots of the table
    Created    \* the workers that main creates and ends: their instances share nothing

ASSUME ThreadAssumption ==
    /\ IsFiniteSet(Workers) /\ Main \notin Workers /\ Nobody \notin Workers \cup {Main}
    /\ MaxUses \in Nat /\ MaxKeys \in Nat /\ Created \subseteq Workers

Threads == Workers \cup {Main}
Keys == 1..MaxKeys

VARIABLES
    half,             \* "locks" or "lives"
    at, uses,
    (* pthread_mutex_t *)
    lock, flag, nest, cs, inits,
    waiting,          \* threads in SleepConditionVariableCS
    (* pthread_rwlock_t *)
    readers, writer, owner,
    spin, spinner,    \* pthread_spinlock_t: the word and the owner
    (* pthread_instance_t, for each worker *)
    inst,             \* "none", "live", "freed"
    handle, joining, result, ended,
    fate,             \* how a worker is to be ended: joined, detached, ...
    jat,              \* main's progress with each worker
    (* tlskeys: the progress and index of each key, the key under which a worker has
       set the value at an index, and the worker's copy of the table *)
    kat, index, data, snap,
    (* history *)
    clobbered, touched, early, joined, called

mutexvars == <<lock, flag, nest, cs, inits, waiting>>
rwvars == <<readers, writer, owner>>
spinvars == <<spin, spinner>>
instvars == <<inst, handle, joining, result, ended, fate, jat>>
tlsvars == <<kat, index, data, snap>>
history == <<clobbered, touched, early, joined, called>>
vars == <<half, at, uses, mutexvars, rwvars, spinvars, instvars,
          tlsvars, history>>

Init ==
    /\ half \in {"locks", "lives"}
    /\ at = [t \in Threads |-> IF t = Main \/ half = "locks" THEN "run" ELSE "none"]
    /\ uses = [t \in Threads |-> 0]
    /\ lock = 0 /\ flag = FALSE /\ nest = 0 /\ cs = Nobody /\ inits = 0 /\ waiting = {}
    /\ readers = {} /\ writer = Nobody /\ owner = Nobody
    /\ spin = 0 /\ spinner = Nobody
    /\ inst = [w \in Workers |-> "none"] /\ handle = [w \in Workers |-> FALSE]
    /\ joining = [w \in Workers |-> FALSE] /\ result = [w \in Workers |-> FALSE]
    /\ ended = [w \in Workers |-> FALSE]
    /\ fate \in [Created -> IF half = "lives" THEN {"join", "detach", "attr", "self", "both"}
                            ELSE {"join"}]
    /\ jat = [w \in Workers |-> "none"]
    /\ kat = [k \in Keys |-> "none"] /\ index = [k \in Keys |-> 0]
    /\ data = [w \in Workers |-> [i \in Keys |-> 0]] /\ snap = [w \in Workers |-> {}]
    /\ clobbered = FALSE /\ touched = {} /\ early = {} /\ joined = {} /\ called = {}

Move(t, from, to) == at[t] = from /\ at' = [at EXCEPT ![t] = to]
-----------------------------------------------------------------------------
(* mutex.c *)
OnlyMutex == UNCHANGED <<uses, rwvars, spinvars, instvars, tlsvars, touched, early, joined, called>>

\* pthread_mutex_lock: mutex_init_once looks at the flag without the lock first.
Lock(t) ==
    /\ uses[t] < MaxUses /\ uses' = [uses EXCEPT ![t] = @ + 1]
    /\ Move(t, "run", IF flag THEN "enter" ELSE "init")
    /\ UNCHANGED <<mutexvars, rwvars, spinvars, instvars, tlsvars, history>>

InitLock(t) ==
    /\ Move(t, "init", "initcheck") /\ lock = 0 /\ lock' = 1
    /\ UNCHANGED <<flag, nest, cs, inits, waiting, clobbered>> /\ OnlyMutex

\* InitializeCriticalSection, unless another thread was faster.
InitCs(t) ==
    /\ Move(t, "initcheck", IF flag THEN "initunlock" ELSE "initflag")
    /\ IF flag THEN UNCHANGED <<inits, cs>> ELSE inits' = inits + 1 /\ cs' = Nobody
    /\ UNCHANGED <<lock, flag, nest, waiting, clobbered>> /\ OnlyMutex

InitFlag(t) ==
    /\ Move(t, "initflag", "initnest") /\ flag' = TRUE
    /\ UNCHANGED <<lock, nest, cs, inits, waiting, clobbered>> /\ OnlyMutex

\* The nesting count is zeroed after the flag: by then another thread may have counted.
InitNest(t) ==
    /\ Move(t, "initnest", "initunlock") /\ nest' = 0
    /\ clobbered' = (clobbered \/ cs # Nobody \/ waiting # {} \/ nest # 0)
    /\ UNCHANGED <<lock, flag, cs, inits, waiting>> /\ OnlyMutex

InitUnlock(t) ==
    /\ Move(t, "initunlock", "enter") /\ lock' = 0
    /\ UNCHANGED <<flag, nest, cs, inits, waiting, clobbered>> /\ OnlyMutex

Enter(t) ==
    /\ Move(t, "enter", "count") /\ cs = Nobody /\ cs' = t
    /\ UNCHANGED <<lock, flag, nest, inits, waiting, clobbered>> /\ OnlyMutex
Count(t) ==
    /\ Move(t, "count", "held") /\ nest' = nest + 1
    /\ UNCHANGED <<lock, flag, cs, inits, waiting, clobbered>> /\ OnlyMutex

\* pthread_mutex_trylock that does not get it.
TryFails(t) ==
    /\ Move(t, "enter", "run") /\ cs # Nobody
    /\ UNCHANGED <<mutexvars, clobbered>> /\ OnlyMutex

\* pthread_mutex_unlock
Uncount(t) ==
    /\ Move(t, "held", "leave") /\ nest' = nest - 1
    /\ UNCHANGED <<lock, flag, cs, inits, waiting, clobbered>> /\ OnlyMutex
Leave(t) ==
    /\ Move(t, "leave", "run") /\ cs' = Nobody
    /\ UNCHANGED <<lock, flag, nest, inits, waiting, clobbered>> /\ OnlyMutex

\* pthread_cond_wait: refused unless the mutex is held once.
Wait(t) ==
    /\ nest = 1
    /\ Move(t, "held", "sleep") /\ nest' = nest - 1
    /\ UNCHANGED <<lock, flag, cs, inits, waiting, clobbered>> /\ OnlyMutex
Sleep(t) ==
    /\ Move(t, "sleep", "asleep") /\ cs' = Nobody /\ waiting' = waiting \cup {t}
    /\ UNCHANGED <<lock, flag, nest, inits, clobbered>> /\ OnlyMutex
\* Mutant: the sleeper goes on without the mutex.
WakeUnlocked(t) ==
    /\ Move(t, "asleep", "count") /\ waiting' = waiting \ {t}
    /\ UNCHANGED <<lock, flag, nest, cs, inits, clobbered>> /\ OnlyMutex
\* Woken, timed out or spuriously, with the mutex again.
Wake(t) ==
    /\ Move(t, "asleep", "count") /\ cs = Nobody /\ cs' = t /\ waiting' = waiting \ {t}
    /\ UNCHANGED <<lock, flag, nest, inits, clobbered>> /\ OnlyMutex
-----------------------------------------------------------------------------
(* rwlock.c *)
OnlyRw == UNCHANGED <<mutexvars, spinvars, instvars, tlsvars, history>>

RdLock(t) ==
    /\ uses[t] < MaxUses /\ uses' = [uses EXCEPT ![t] = @ + 1]
    /\ Move(t, "run", "rwheld") /\ writer = Nobody /\ readers' = readers \cup {t}
    /\ UNCHANGED <<writer, owner>> /\ OnlyRw
WrLock(t) ==
    /\ uses[t] < MaxUses /\ uses' = [uses EXCEPT ![t] = @ + 1]
    /\ Move(t, "run", "rwown") /\ writer = Nobody /\ readers = {} /\ writer' = t
    /\ UNCHANGED <<readers, owner>> /\ OnlyRw
SetOwner(t) ==
    /\ Move(t, "rwown", "rwheld") /\ owner' = t
    /\ UNCHANGED <<uses, readers, writer>> /\ OnlyRw

\* pthread_rwlock_unlock: the owner tells whether it is held exclusively.
RwUnlock(t) ==
    /\ Move(t, "rwheld", IF owner # Nobody THEN "rwexcl" ELSE "rwshared")
    /\ owner' = Nobody
    /\ UNCHANGED <<uses, readers, writer>> /\ OnlyRw
ReleaseExclusive(t) ==
    /\ Move(t, "rwexcl", "run") /\ writer' = Nobody
    /\ UNCHANGED <<uses, readers, owner>> /\ OnlyRw
ReleaseShared(t) ==
    /\ Move(t, "rwshared", "run") /\ readers' = readers \ {t}
    /\ UNCHANGED <<uses, writer, owner>> /\ OnlyRw
-----------------------------------------------------------------------------
(* spinlock.c *)
OnlySpin == UNCHANGED <<mutexvars, rwvars, instvars, tlsvars, history>>

SpinLock(t) ==
    /\ uses[t] < MaxUses /\ uses' = [uses EXCEPT ![t] = @ + 1]
    /\ Move(t, "run", "spown") /\ spin = 0 /\ spin' = 1
    /\ UNCHANGED spinner /\ OnlySpin
SpinOwn(t) ==
    /\ Move(t, "spown", "spheld") /\ spinner' = t
    /\ UNCHANGED <<uses, spin>> /\ OnlySpin
\* pthread_spin_unlock is refused (EPERM) to a thread that is not the owner.
SpinDisown(t) ==
    /\ IF spinner = t THEN Move(t, "spheld", "spfree") /\ spinner' = Nobody
                      ELSE Move(t, "spheld", "run") /\ UNCHANGED spinner
    /\ UNCHANGED <<uses, spin>> /\ OnlySpin
SpinFree(t) ==
    /\ Move(t, "spfree", "run") /\ spin' = 0
    /\ UNCHANGED <<uses, spinner>> /\ OnlySpin
-----------------------------------------------------------------------------
(* thread.c *)
OnlyInst == UNCHANGED <<uses, mutexvars, rwvars, spinvars, clobbered, called>>

Touch(w, who) ==
    /\ touched' = IF inst[w] = "freed" THEN touched \cup {<<w, who>>} ELSE touched
    /\ early' = IF who = "looks" /\ jat[w] = "store" THEN early \cup {w} ELSE early

\* pthread_create: the thread runs before its handle is stored.
Create(w) ==
    /\ at[Main] = "run" /\ jat[w] = "none" /\ \A v \in Workers : jat[v] # "store"
    /\ inst' = [inst EXCEPT ![w] = "live"]
    /\ at' = [at EXCEPT ![w] = "run"] /\ jat' = [jat EXCEPT ![w] = "store"]
    /\ UNCHANGED <<handle, joining, result, ended, fate, tlsvars, touched, early, joined>> /\ OnlyInst

Unused == UNCHANGED <<at, inst, result, ended, fate, tlsvars, joined>>

StoreHandle(w) ==
    /\ jat[w] = "store" /\ handle' = [handle EXCEPT ![w] = TRUE]
    /\ jat' = [jat EXCEPT ![w] = IF fate[w] = "attr" THEN "zero" ELSE "created"]
    /\ Touch(w, "creator")
    /\ UNCHANGED joining /\ Unused /\ OnlyInst

\* A thread created detached; or pthread_detach of it by main.
ZeroHandle(w) ==
    /\ jat[w] = "zero" \/ (jat[w] = "created" /\ fate[w] = "detach" /\ handle[w])
    /\ handle' = [handle EXCEPT ![w] = FALSE]
    /\ jat' = [jat EXCEPT ![w] = "done"]
    /\ Touch(w, "creator")
    /\ UNCHANGED joining /\ Unused /\ OnlyInst

\* pthread_detach of itself, if its handle is there; or while it is being joined.
DetachSelf(w) ==
    /\ at[w] = "run" /\ handle[w]
    /\ fate[w] = "self" \/ (fate[w] = "both" /\ jat[w] \in {"locked", "handle", "wait"})
    /\ handle' = [handle EXCEPT ![w] = FALSE]
    /\ Touch(w, "thread")
    /\ UNCHANGED <<jat, joining>> /\ Unused /\ OnlyInst

\* pthread_join by main: the lock on joining first, then the handle, then the wait.
JoinBegin(w) ==
    /\ jat[w] = "created" /\ fate[w] \in {"join", "both"} /\ at[Main] = "run"
    /\ joining' = [joining EXCEPT ![w] = TRUE] /\ jat' = [jat EXCEPT ![w] = "locked"]
    /\ Touch(w, "joiner")
    /\ UNCHANGED handle /\ Unused /\ OnlyInst
JoinHandle(w) ==
    /\ jat[w] = "locked"
    /\ jat' = [jat EXCEPT ![w] = IF handle[w] THEN "handle" ELSE "refused"]
    /\ Touch(w, "joiner")
    /\ UNCHANGED <<handle, joining>> /\ Unused /\ OnlyInst
\* The wait fails when the handle was closed after it was read.
JoinWait(w) ==
    /\ jat[w] = "handle"
    /\ \/ jat' = [jat EXCEPT ![w] = "wait"]
       \/ ~handle[w] /\ jat' = [jat EXCEPT ![w] = "refused"]
    /\ UNCHANGED <<handle, joining, touched, early>> /\ Unused /\ OnlyInst
\* ESRCH: the lock is given back, the instance left to the thread.
JoinRefused(w) ==
    /\ jat[w] = "refused" /\ jat' = [jat EXCEPT ![w] = "failed"]
    /\ joining' = [joining EXCEPT ![w] = FALSE]
    /\ Touch(w, "joiner")
    /\ UNCHANGED handle /\ Unused /\ OnlyInst
\* Mutant: a joiner is not woken once the thread is detached.
JoinEndAttached(w) ==
    /\ jat[w] = "wait" /\ ended[w] /\ handle[w] /\ jat' = [jat EXCEPT ![w] = "done"]
    /\ Touch(w, "joiner") /\ joined' = joined \cup {<<w, result[w]>>}
    /\ inst' = [inst EXCEPT ![w] = "freed"]
    /\ UNCHANGED <<at, handle, joining, result, ended, fate, tlsvars>> /\ OnlyInst
\* Woken by the thread's end: the joiner frees the instance, detached or not.
JoinEnd(w) ==
    /\ jat[w] = "wait" /\ ended[w] /\ jat' = [jat EXCEPT ![w] = "done"]
    /\ Touch(w, "joiner")
    /\ joined' = IF handle[w] THEN joined \cup {<<w, result[w]>>} ELSE joined
    /\ inst' = [inst EXCEPT ![w] = "freed"]
    /\ UNCHANGED <<at, handle, joining, result, ended, fate, tlsvars>> /\ OnlyInst

\* windows_thread once the routine has returned ("cleanup"), or pthread_exit, which
\* looks at the instance first and runs the destructors afterwards ("exit").
Finish(w) ==
    /\ \/ Move(w, "run", "cleanup") /\ result' = [result EXCEPT ![w] = TRUE]
       \/ Move(w, "run", "exit") /\ UNCHANGED result
    /\ Touch(w, "thread")
    /\ UNCHANGED <<inst, handle, joining, ended, fate, jat, tlsvars, joined>> /\ OnlyInst

\* Mutant: an attached thread frees its instance as well.
EndAlways(w) ==
    /\ Move(w, "end", "gone") /\ ended' = [ended EXCEPT ![w] = TRUE]
    /\ inst' = [inst EXCEPT ![w] = "freed"] /\ Touch(w, "looks")
    /\ UNCHANGED <<handle, joining, result, fate, jat, tlsvars, joined>> /\ OnlyInst
\* The thread frees its instance if it finds itself detached and not being joined.
End(w) ==
    /\ \/ Move(w, "end", "endjoin") /\ ~handle[w] /\ UNCHANGED <<ended, inst>>
       \/ Move(w, "end", "gone") /\ handle[w]
          /\ ended' = [ended EXCEPT ![w] = TRUE] /\ UNCHANGED inst
       \/ Move(w, "endjoin", "gone") /\ ended' = [ended EXCEPT ![w] = TRUE]
          /\ inst' = IF joining[w] THEN inst ELSE [inst EXCEPT ![w] = "freed"]
    /\ Touch(w, "looks")
    /\ UNCHANGED <<handle, joining, result, fate, jat, tlsvars, joined>> /\ OnlyInst

Exit(w) ==
    /\ \/ Move(w, "exit", "exitkeys") /\ (joining[w] \/ handle[w])
          /\ result' = [result EXCEPT ![w] = TRUE] /\ UNCHANGED inst
       \/ Move(w, "exit", "exitfree") /\ ~joining[w] /\ ~handle[w] /\ UNCHANGED <<result, inst>>
       \/ Move(w, "exitfree", "exitkeys") /\ inst' = [inst EXCEPT ![w] = "freed"]
          /\ UNCHANGED result
    /\ Touch(w, "looks")
    /\ UNCHANGED <<handle, joining, ended, fate, jat, tlsvars, joined>> /\ OnlyInst
-----------------------------------------------------------------------------
(* tls.c *)
OnlyTls == UNCHANGED <<uses, mutexvars, rwvars, spinvars, instvars, clobbered, touched, early, joined>>

KeyStep(k, from, to) == kat[k] = from /\ kat' = [kat EXCEPT ![k] = to]

\* Mutant: pthread_key_delete leaves the slot active.
ActiveStale == {k \in Keys : kat[k] \notin {"none", "failed"}}
\* The keys whose slot is active, and the indices the system has given out.
Active == {k \in Keys : kat[k] \in {"slot", "live"}}
Taken == {index[k] : k \in {l \in Keys : kat[l] \in {"live", "unslot"}}}

\* pthread_key_create: the slot is taken first, with its destructor, and gets its key,
\* the lowest free index of the process, afterwards.
KeySlot(k) ==
    /\ KeyStep(k, "none", "slot")
    /\ UNCHANGED <<at, index, data, snap, called>> /\ OnlyTls
KeyValue(k) ==
    /\ KeyStep(k, "slot", "live")
    /\ \E i \in Keys \ Taken : /\ \A j \in Keys \ Taken : i <= j
                             /\ index' = [index EXCEPT ![k] = i]
    /\ UNCHANGED <<at, data, snap, called>> /\ OnlyTls
KeyFails(k) ==
    /\ KeyStep(k, "slot", "failed")
    /\ UNCHANGED <<at, index, data, snap, called>> /\ OnlyTls
\* pthread_key_delete: the slot is cleared, then the index freed, in every thread.
KeyDelete(k) ==
    /\ KeyStep(k, "live", "unslot")
    /\ UNCHANGED <<at, index, data, snap, called>> /\ OnlyTls
KeyFree(k) ==
    /\ KeyStep(k, "unslot", "freed")
    /\ data' = [w \in Workers |-> [data[w] EXCEPT ![index[k]] = 0]]
    /\ UNCHANGED <<at, index, snap, called>> /\ OnlyTls
\* pthread_setspecific
SetSpecific(w, k) ==
    /\ at[w] = "run" /\ kat[k] = "live" /\ data[w][index[k]] = 0
    /\ data' = [data EXCEPT ![w][index[k]] = k]
    /\ UNCHANGED <<at, kat, index, snap, called>> /\ OnlyTls

\* _pthread_tls_cleanup: a copy of the table is made under the lock.  A slot without
\* a key has index 0, the first of the process, whoever's it is.
Snapshot(w) ==
    /\ \/ Move(w, "cleanup", "destroy") \/ Move(w, "exitkeys", "exitdestroy")
    /\ snap' = [snap EXCEPT ![w] = {<<k, index[k]>> : k \in Active}]
    /\ UNCHANGED <<kat, index, data, called>> /\ OnlyTls
\* The destructor of one slot of the copy, if there is a value at the slot's index.
\* called has the key and the key of the value, 0 for somebody else's value.
Destructor(w) ==
    /\ at[w] \in {"destroy", "exitdestroy"}
    /\ \E p \in snap[w] :
          /\ snap' = [snap EXCEPT ![w] = @ \ {p}]
          /\ IF p[2] = 0 THEN called' = called \cup {<<p[1], 0>>} /\ UNCHANGED data
             ELSE IF data[w][p[2]] # 0
             THEN /\ called' = called \cup {<<p[1], data[w][p[2]]>>}
                  /\ data' = [data EXCEPT ![w][p[2]] = 0]
             ELSE UNCHANGED <<called, data>>
    /\ UNCHANGED <<at, kat, index>> /\ OnlyTls
Destroyed(w) ==
    /\ snap[w] = {}
    /\ \/ Move(w, "destroy", "end") /\ UNCHANGED ended
       \/ Move(w, "exitdestroy", "gone") /\ ended' = [ended EXCEPT ![w] = TRUE]
    /\ UNCHANGED <<tlsvars, called, uses, mutexvars, rwvars, spinvars, inst, handle, joining,
                   result, fate, jat, clobbered, touched, early, joined>>
-----------------------------------------------------------------------------
Progress(t) ==
    \/ InitLock(t) \/ InitCs(t) \/ InitFlag(t) \/ InitNest(t) \/ InitUnlock(t)
    \/ Enter(t) \/ Count(t) \/ Uncount(t) \/ Leave(t) \/ Sleep(t) \/ Wake(t)
    \/ SetOwner(t) \/ RwUnlock(t) \/ ReleaseExclusive(t) \/ ReleaseShared(t)
    \/ SpinOwn(t) \/ SpinDisown(t) \/ SpinFree(t)
Choice(t) == Lock(t) \/ TryFails(t) \/ Wait(t) \/ RdLock(t) \/ WrLock(t) \/ SpinLock(t)
Life(w) == \/ StoreHandle(w) \/ ZeroHandle(w) \/ JoinHandle(w) \/ JoinWait(w) \/ JoinRefused(w)
           \/ JoinEnd(w) \/ Finish(w) \/ End(w) \/ Exit(w)
           \/ Snapshot(w) \/ Destructor(w) \/ Destroyed(w)
KeyChange(k) == KeySlot(k) \/ KeyValue(k) \/ KeyFails(k) \/ KeyDelete(k) \/ KeyFree(k)
Next ==
    /\ \/ half = "locks" /\ \E w \in Workers : Progress(w) \/ Choice(w)
       \/ half = "lives" /\ \E w \in Created :
            \/ Create(w) \/ Life(w) \/ DetachSelf(w) \/ JoinBegin(w)
            \/ \E k \in Keys : SetSpecific(w, k)
       \/ half = "lives" /\ \E k \in Keys : KeyChange(k)
    /\ UNCHANGED half

Spec == Init /\ [][Next]_vars
FairSpec ==
    Spec /\ \A w \in Created : WF_vars(half = "lives" /\ Life(w) /\ UNCHANGED half)
-----------------------------------------------------------------------------
Steps == {"none", "run", "init", "initcheck", "initflag", "initnest", "initunlock", "enter",
          "count", "held", "leave", "sleep", "asleep", "rwheld", "rwown", "rwexcl", "rwshared",
          "rwlate", "spown", "spheld", "spfree",
          "cleanup", "destroy", "end", "endjoin", "gone", "exit", "exitfree", "exitkeys",
          "exitdestroy"}

TypeOK ==
    /\ at \in [Threads -> Steps] /\ uses \in [Threads -> 0..MaxUses]
    /\ lock \in 0..1 /\ flag \in BOOLEAN /\ nest \in Int
    /\ cs \in Threads \cup {Nobody} /\ inits \in 0..1 /\ waiting \subseteq Threads
    /\ readers \subseteq Threads /\ writer \in Threads \cup {Nobody} /\ owner \in Threads \cup {Nobody}
    /\ spin \in 0..1 /\ spinner \in Threads \cup {Nobody}
    /\ inst \in [Workers -> {"none", "live", "freed"}]

\* However first uses of a mutex race, its critical section is initialised once, before
\* any thread enters it, and one thread at a time holds the mutex (mutex.c:
\* mutex_init_once, condition.c: the sleeper's return).
Inside(t) == at[t] \in {"count", "held", "leave", "sleep"}
MutualExclusion ==
    /\ \A t, u \in Threads : Inside(t) /\ Inside(u) => t = u
    /\ (\E t \in Threads : Inside(t)) => inits = 1 /\ flag

\* The nesting count is the number of holders that have counted themselves; it goes
\* wrong only if the store that follows the flag came after the first use.
NestIsCount ==
    clobbered \/ nest = Cardinality({t \in Threads : at[t] = "held"})

\* A lock is released by the thread that holds it in the way it holds it, although its
\* owner is read without the lock: a reader never releases exclusively, nor a writer
\* shared (rwlock.c: pthread_rwlock_unlock), and the holder of a spin lock is not
\* refused its release (spinlock.c: pthread_spin_unlock).
ReleasedAsHeld ==
    \A t \in Threads : /\ at[t] = "rwexcl" => writer = t
                       /\ at[t] = "rwshared" => t \in readers
                       /\ at[t] = "spheld" => spinner = t

\* The locks of the library exclude as they should, however their first uses, waits and
\* releases interleave.
LocksAreSound == TypeOK /\ MutualExclusion /\ NestIsCount /\ ReleasedAsHeld

\* Nobody touches a freed instance, of whichever of its creator, joiner, detacher and
\* itself comes last, unless the thread looked for its handle before its creator had
\* stored it; and the thread itself never does (thread.c).
FreedIsUntouched == \A p \in touched : p[1] \in early /\ p[2] \in {"creator", "joiner"}

\* A join that succeeds returns the thread's own result, after its end.
JoinReturnsResult == \A p \in joined : p[1] \in early \/ (p[2] /\ ended[p[1]])

\* A join frees the instance of the thread it waited for, detached meanwhile or not; it
\* fails only for a thread that detached itself before the wait began, never for one that
\* was merely to be joined (thread.c: pthread_join).
JoinedIsFreed ==
    \A w \in Created :
        /\ jat[w] = "done" /\ fate[w] \in {"join", "both"} => ended[w] /\ inst[w] = "freed"
        /\ jat[w] = "failed" => fate[w] = "both" /\ ~handle[w]

\* The instance of a thread lives as long as anyone uses it; one that is joined, no longer.
InstancesAreSound == FreedIsUntouched /\ JoinReturnsResult /\ JoinedIsFreed

\* A destructor is never called with the value of another key of the library, however
\* keys are created and deleted, and their indices given out again, while threads end and
\* work from copies of the table (tls.c: pthread_key_delete, _pthread_tls_cleanup).
DestructorsFit == \A p \in called : p[2] \in {0, p[1]}

\* A join that has begun returns, whichever way the thread ends and whoever detaches it
\* meanwhile (thread.c: pthread_join, windows_thread, pthread_exit).
JoinersReturn == \A w \in Created : jat[w] = "locked" ~> jat[w] \in {"done", "failed"}
-----------------------------------------------------------------------------
(* What assertions and comments of the source say, which does not hold. *)

\* A mutex that is held is counted once: pthread_mutex_unlock asserts it (mutex.c:160).
HeldIsCounted == \A t \in Threads : at[t] = "held" => nest = 1

\* The thread a join is given has its instance: pthread_join asserts it (thread.c:218).
JoinFindsInstance == \A w \in Created : jat[w] = "created" /\ fate[w] = "join" => inst[w] = "live"

\* A thread that ended without being joined left its instance to a join in process
\* (thread.c:122).
KeptForJoin ==
    \A w \in Created : at[w] = "gone" /\ ~handle[w] /\ inst[w] = "live" => joining[w]
=============================================================================
