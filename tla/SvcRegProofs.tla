---------------------------- MODULE SvcRegProofs ----------------------------
(***************************************************************************)
(* Proofs about the registration of programs, for every number of threads, *)
(* programs, transports, lost replies and crashes: what the threads share  *)
(* stays sound, rpcbind and the process agree, and a registration that     *)
(* nothing disturbs succeeds whatever an earlier life left behind.         *)
(***************************************************************************)
EXTENDS SvcReg, FiniteSetTheorems, TLAPS

Transports == [net : Netids, port : Ports]
Routines == Dispatchers \cup {"universal"}
Working(t) == pc[t] \in {"unset", "callout", "set", "registered", "failed"}
Registering(t) == pc[t] = "next" \/ Working(t)
Unregistering(t) == pc[t] \in {"unset_all", "remove"}

(* The inductive invariant. *)

ThreadTypes ==
    /\ pc \in [Threads -> {"idle", "next", "unset", "callout", "set", "registered",
                           "failed", "unset_all", "remove"}]
    /\ DOMAIN op = Threads /\ DOMAIN key = Threads /\ DOMAIN disp = Threads
    /\ DOMAIN left = Threads /\ DOMAIN xprt = Threads
    /\ madenow \in [Threads -> BOOLEAN] /\ skip \in [Threads -> BOOLEAN]
    /\ done \in [Threads -> BOOLEAN] /\ spoilt \in [Threads -> BOOLEAN]
    /\ quiet \in [Threads -> BOOLEAN] /\ DOMAIN ret = Threads

\* What a thread has in hand where it is.
TaskOf(t) ==
    /\ Registering(t) => /\ op[t] \in {"create", "rpc_reg"} /\ key[t] \in Keys
                         /\ disp[t] \in Routines /\ left[t] \in Seq(Netids)
    /\ Unregistering(t) => op[t] = "unreg" /\ key[t] \in Keys
    /\ Idle(t) => op[t] = "none"
    /\ Working(t) => xprt[t] \in Transports
TasksInv == \A t \in Threads : TaskOf(t)

LocksInv ==
    /\ \A t \in Threads : op[t] = "create" /\ Working(t) <=> xprtlist_lock = t
    /\ \A t \in Threads : op[t] = "rpc_reg" /\ ~Idle(t) <=> proglst_lock = t

SharedTypes ==
    /\ life \in Nat \ {0} /\ ops \in Nat /\ faults \in Nat
    /\ callouts \in Seq([key : Keys, net : Netids, disp : Routines])
    /\ open \subseteq Transports /\ xprtlist \subseteq Transports
    /\ proglst \subseteq [key : Keys, net : Netids, port : Ports]
    /\ binder \in [Keys \X Netids -> [port : Ports \cup {0}, life : 0 .. life]]
    /\ claims \subseteq [key : Keys, net : Netids, disp : Routines]
    /\ excused \subseteq Keys \X Netids
    /\ unasked \subseteq [key : Keys, net : Netids, disp : Routines]

\* The transports the process keeps are open and one for each netid, and so is the one a
\* thread has in hand: a new one is its own, and will be the only one for its netid.
ProgKept == {[net |-> p.net, port |-> p.port] : p \in proglst}
OneEach(kept) == \A x, y \in kept : x.net = y.net => x = y
InHand(t) ==
    Working(t) =>
        /\ xprt[t] \in open
        /\ madenow[t] => /\ xprt[t] \notin xprtlist \cup ProgKept
                         /\ \A x \in Kept(t) : x.net # Net(t)
                         /\ \A u \in Threads \ {t} : Working(u) => xprt[u] # xprt[t]
        /\ ~madenow[t] => xprt[t] \in Kept(t)
KeptInv ==
    /\ xprtlist \subseteq open /\ ProgKept \subseteq open
    /\ OneEach(xprtlist) /\ OneEach(ProgKept)
    /\ \A t \in Threads : InHand(t)

OneCallout ==
    \A i, j \in DOMAIN callouts :
        callouts[i].key = callouts[j].key /\ callouts[i].net = callouts[j].net => i = j

\* Where rpcbind leads callers of k, and whether that must work.
Leads(k, n) == [net |-> n, port |-> binder[<<k, n>>].port]
Served(k, n) == binder[<<k, n>>].life = life /\ <<k, n>> \notin excused

\* A new transport that is not registered yet leads nowhere; before rpcb_set there is a
\* callout, unless an svc_unreg of the program overlaps; and svc_unreg leaves no claim.
NewXprt(t) ==
    Working(t) /\ madenow[t] /\ pc[t] # "registered" =>
        /\ \A c \in claims : Leads(c.key, c.net) # xprt[t]
        /\ \A k \in Keys, n \in Netids : Served(k, n) => Leads(k, n) # xprt[t]
CalledOut(t) == pc[t] = "set" /\ ~spoilt[t] => Dispatcher(key[t], Net(t)) = disp[t]
UnregOf(u) ==
    /\ Unregistering(u) => /\ \A c \in claims : c.key # key[u]
                           /\ \A t \in Threads : Registering(t) /\ key[t] = key[u] => spoilt[t]
    /\ pc[u] = "remove" => \A n \in Netids : ~Served(key[u], n)
BinderInv ==
    /\ AskedIsInEffect /\ MappingsAreServed
    /\ \A t \in Threads : NewXprt(t) /\ CalledOut(t) /\ UnregOf(t)

\* While nothing disturbs a registration it is alone, and rpcbind has nothing that
\* could make it fail once rpcb_unset was called.
QuietOf(t) ==
    quiet[t] =>
        /\ \A u \in Threads \ {t} : Idle(u)
        /\ done[t] /\ pc[t] # "failed"
        /\ Registering(t) => \A n \in Range(left[t]) : Dispatcher(key[t], n) \in {"none", disp[t]}
        /\ pc[t] \in {"unset", "callout"} => Dispatcher(key[t], Net(t)) \in {"none", disp[t]}
        /\ pc[t] = "set" \/ (pc[t] = "callout" /\ ~skip[t]) => binder[<<key[t], Net(t)>>].port = 0
QuietInv == QuietRegistrationsSucceed /\ \A t \in Threads : QuietOf(t)

\* A registration that does not ask rpcbind has an entry of proglst for its transport;
\* what it registered is dispatched there, and svc_unreg leaves none of it.
SkipOf(t) ==
    /\ pc[t] = "unset" => ~skip[t]
    /\ pc[t] = "callout" /\ skip[t] => \E p \in proglst : p.key = key[t] /\ p.net = Net(t)
Unasked(c) ==
    /\ \E p \in proglst : p.key = c.key /\ p.net = c.net
    /\ Dispatcher(c.key, c.net) = c.disp
UnaskedInv ==
    /\ \A t \in Threads : SkipOf(t)
    /\ \A c \in unasked : Unasked(c)
    /\ \A u \in Threads : Unregistering(u) => \A c \in unasked : c.key # key[u]

IInv == /\ ThreadTypes /\ TasksInv /\ LocksInv /\ SharedTypes /\ KeptInv
        /\ OneCallout /\ BinderInv /\ UnaskedInv /\ QuietInv

-----------------------------------------------------------------------------
(* The steps. *)

Begins(t) ==
    \E k \in Keys :
        \/ \E type \in Types, d \in Dispatchers : BeginCreate(t, k, d, type)
        \/ \E type \in Types : BeginReg(t, k, type)
        \/ BeginUnreg(t, k)
StepOf(t) == Begins(t) \/ Run(t) \/ CannotBind(t)
LEMMA StepCases ==
    ASSUME [Next]_vars
    PROVE  UNCHANGED vars \/ Crash \/ \E t \in Threads : StepOf(t)
BY DEF Next, StepOf, Begins

\* A step of a thread leaves the other threads where they are.
OthersStay(t) ==
    \A u \in Threads \ {t} :
        /\ pc'[u] = pc[u] /\ op'[u] = op[u] /\ key'[u] = key[u] /\ disp'[u] = disp[u]
        /\ left'[u] = left[u] /\ xprt'[u] = xprt[u] /\ ret'[u] = ret[u]
        /\ madenow'[u] = madenow[u] /\ skip'[u] = skip[u] /\ done'[u] = done[u]
        /\ (quiet'[u] => quiet[u]) /\ (spoilt[u] => spoilt'[u])
LEMMA StepLeavesOthers ==
    ASSUME ThreadTypes, NEW t \in Threads, StepOf(t)
    PROVE  OthersStay(t)
<1>0. ThreadTypes
  OBVIOUS
<1> USE DEF ThreadTypes, OthersStay
<1>1. ASSUME NEW k \in Keys, NEW type \in Types, NEW d \in Dispatchers,
             BeginCreate(t, k, d, type) PROVE OthersStay(t)
  BY <1>0, <1>1 DEF BeginCreate, Begin, At, task, step, bounds, hist, lists, locks
<1>2. ASSUME NEW k \in Keys, NEW type \in Types, BeginReg(t, k, type) PROVE OthersStay(t)
  BY <1>0, <1>2 DEF BeginReg, Begin, At, task, step, bounds, hist, lists, locks
<1>3. ASSUME NEW k \in Keys, BeginUnreg(t, k) PROVE OthersStay(t)
  BY <1>0, <1>3 DEF BeginUnreg, Begin, At, task, step, bounds, hist, lists, locks
<1>4. ASSUME NextNetid(t) PROVE OthersStay(t)
  BY <1>0, <1>4 DEF NextNetid, TliCreate, task, step, bounds, hist, lists, locks
<1>5. ASSUME CannotBind(t) PROVE OthersStay(t)
  BY <1>0, <1>5 DEF CannotBind, Fault, task, step, bounds, hist, lists, locks
<1>6. ASSUME Unset(t) PROVE OthersStay(t)
  BY <1>0, <1>6 DEF Unset, Fault, task, step, bounds, hist, lists, locks
<1>7. ASSUME Callout(t) PROVE OthersStay(t)
  BY <1>0, <1>7 DEF Callout, At, task, step, bounds, hist, lists, locks
<1>8. ASSUME Set(t) PROVE OthersStay(t)
  BY <1>0, <1>8 DEF Set, Fault, task, step, bounds, hist, lists, locks
<1>9. ASSUME Keep(t) PROVE OthersStay(t)
  BY <1>0, <1>9 DEF Keep, At, Unlock, task, step, bounds, hist, lists, locks
<1>10. ASSUME Drop(t) PROVE OthersStay(t)
  BY <1>0, <1>10 DEF Drop, At, Unlock, task, step, bounds, hist, lists, locks
<1>11. ASSUME Return(t) PROVE OthersStay(t)
  BY <1>0, <1>11 DEF Return, At, Ended, task, step, bounds, hist, lists, locks
<1>12. ASSUME UnsetAll(t) PROVE OthersStay(t)
  BY <1>0, <1>12 DEF UnsetAll, At, Fault, task, step, bounds, hist, lists, locks
<1>13. ASSUME RemoveCallouts(t) PROVE OthersStay(t)
  BY <1>0, <1>13 DEF RemoveCallouts, At, Ended, task, step, bounds, hist, lists, locks
<1> QED
  BY <1>1, <1>2, <1>3, <1>4, <1>5, <1>6, <1>7, <1>8, <1>9, <1>10, <1>11, <1>12, <1>13 DEF StepOf, Begins, Run

LEMMA ThreadTypesStep ==
    ASSUME ThreadTypes, NEW t \in Threads, StepOf(t)
    PROVE  ThreadTypes'
<1>0. ThreadTypes
  OBVIOUS
<1> USE DEF ThreadTypes
<1>1. ASSUME NEW k \in Keys, NEW type \in Types, NEW d \in Dispatchers,
             BeginCreate(t, k, d, type) PROVE ThreadTypes'
  <2>1. OverlapsUnreg(t, k) \in BOOLEAN
    BY DEF OverlapsUnreg
  <2>2. spoilt' \in [Threads -> BOOLEAN]
    BY <1>0, <1>1, <2>1 DEF BeginCreate, BeginReg
  <2>3. quiet' \in [Threads -> BOOLEAN]
    BY <1>1 DEF BeginCreate, Begin, At
  <2> QED
    BY <1>0, <1>1, <2>2, <2>3 DEF BeginCreate, Begin, At, task, lists
<1>2. ASSUME NEW k \in Keys, NEW type \in Types, BeginReg(t, k, type) PROVE ThreadTypes'
  <2>1. OverlapsUnreg(t, k) \in BOOLEAN
    BY DEF OverlapsUnreg
  <2>2. spoilt' \in [Threads -> BOOLEAN]
    BY <1>0, <1>2, <2>1 DEF BeginCreate, BeginReg
  <2>3. quiet' \in [Threads -> BOOLEAN]
    BY <1>2 DEF BeginReg, Begin, At
  <2> QED
    BY <1>0, <1>2, <2>2, <2>3 DEF BeginReg, Begin, At, task, lists
<1>3. ASSUME NEW k \in Keys, BeginUnreg(t, k) PROVE ThreadTypes'
  BY <1>0, <1>3 DEF BeginUnreg, Begin, At, task, step, bounds, hist, lists, locks
<1>4. ASSUME NextNetid(t) PROVE ThreadTypes'
  <2>1. Registered(t, Head(left[t])) \in BOOLEAN
        /\ ({x \in Kept(t) : x.net = Head(left[t])} = {}) \in BOOLEAN
    BY DEF Registered
  <2>2. \E a, b \in BOOLEAN : skip' = [skip EXCEPT ![t] = a] /\ madenow' = [madenow EXCEPT ![t] = b]
    BY <1>4, <2>1 DEF NextNetid
  <2>3. \E x : xprt' = [xprt EXCEPT ![t] = x]
    BY <1>4 DEF NextNetid, TliCreate
  <2>4. /\ left' = [left EXCEPT ![t] = Tail(left[t])]
        /\ \E p \in {"callout", "unset"} : pc' = [pc EXCEPT ![t] = p]
        /\ UNCHANGED <<op, key, disp, done, spoilt, quiet, ret>>
    BY <1>4 DEF NextNetid, task, hist
  <2> QED
    BY <1>0, <2>2, <2>3, <2>4
<1>5. ASSUME CannotBind(t) PROVE ThreadTypes'
  BY <1>0, <1>5 DEF CannotBind, Fault, task, step, bounds, hist, lists, locks
<1>6. ASSUME Unset(t) PROVE ThreadTypes'
  BY <1>0, <1>6 DEF Unset, Fault, task, step, bounds, hist, lists, locks
<1>7. ASSUME Callout(t) PROVE ThreadTypes'
  BY <1>0, <1>7 DEF Callout, At, task, step, bounds, hist, lists, locks
<1>8. ASSUME Set(t) PROVE ThreadTypes'
  BY <1>0, <1>8 DEF Set, Fault, task, step, bounds, hist, lists, locks
<1>9. ASSUME Keep(t) PROVE ThreadTypes'
  BY <1>0, <1>9 DEF Keep, At, Unlock, task, step, bounds, hist, lists, locks
<1>10. ASSUME Drop(t) PROVE ThreadTypes'
  BY <1>0, <1>10 DEF Drop, At, Unlock, task, step, bounds, hist, lists, locks
<1>11. ASSUME Return(t) PROVE ThreadTypes'
  BY <1>0, <1>11 DEF Return, At, Ended, task, step, bounds, hist, lists, locks
<1>12. ASSUME UnsetAll(t) PROVE ThreadTypes'
  <2>1. /\ pc' = [pc EXCEPT ![t] = "remove"]
        /\ UNCHANGED <<op, key, disp, left, xprt, madenow, skip, done, spoilt, ret>>
        /\ quiet' = quiet \/ quiet' = [u \in Threads |-> FALSE]
    BY <1>12 DEF UnsetAll, At, Fault, task, step
  <2> QED
    BY <1>0, <2>1
<1>13. ASSUME RemoveCallouts(t) PROVE ThreadTypes'
  <2>1. /\ pc' = [pc EXCEPT ![t] = "idle"] /\ ret' = [ret EXCEPT ![t] = "returned"]
        /\ Ended(t)
    BY <1>13 DEF RemoveCallouts, At
  <2> QED
    BY <1>0, <2>1 DEF Ended
<1> QED
  BY <1>1, <1>2, <1>3, <1>4, <1>5, <1>6, <1>7, <1>8, <1>9, <1>10, <1>11, <1>12, <1>13 DEF StepOf, Begins, Run

LEMMA TasksStep ==
    ASSUME ThreadTypes, TasksInv, SharedTypes, NEW t \in Threads, StepOf(t)
    PROVE  TasksInv'
<1>0. /\ ThreadTypes /\ TaskOf(t)
      /\ xprtlist \subseteq Transports /\ proglst \subseteq [key : Keys, net : Netids, port : Ports]
      /\ Types \subseteq Seq(Netids) /\ Dispatchers \subseteq Routines /\ "universal" \in Routines
  BY RegAssumption DEF TasksInv, SharedTypes, Netids, Routines
<1>a. Kept(t) \subseteq Transports
  BY <1>0 DEF Kept, Transports
<1>b. Netids = {"udp", "tcp"} /\ Transports = [net : Netids, port : Ports]
  BY DEF Netids, Transports
<1>p. TaskOf(t)'
  <2>1. ASSUME NEW k \in Keys, NEW type \in Types, NEW d \in Dispatchers,
                 BeginCreate(t, k, d, type) PROVE TaskOf(t)'
    BY <1>0, <1>b, <2>1 DEF BeginCreate, Begin, At, task, step, bounds, hist, lists, locks, TaskOf, ThreadTypes, Idle, Working, Registering, Unregistering
  <2>2. ASSUME NEW k \in Keys, NEW type \in Types, BeginReg(t, k, type) PROVE TaskOf(t)'
    BY <1>0, <1>b, <2>2 DEF BeginReg, Begin, At, task, step, bounds, hist, lists, locks, TaskOf, ThreadTypes, Idle, Working, Registering, Unregistering
  <2>3. ASSUME NEW k \in Keys, BeginUnreg(t, k) PROVE TaskOf(t)'
    BY <1>0, <1>b, <2>3 DEF BeginUnreg, Begin, At, task, step, bounds, hist, lists, locks, TaskOf, ThreadTypes, Idle, Working, Registering, Unregistering
  <2>4. ASSUME NextNetid(t) PROVE TaskOf(t)'
    <3>1. /\ left[t] \in Seq(Netids) /\ left[t] # << >> /\ pc[t] = "next"
          /\ left' = [left EXCEPT ![t] = Tail(left[t])]
          /\ pc' = [pc EXCEPT ![t] = IF Registered(t, Head(left[t])) THEN "callout" ELSE "unset"]
          /\ UNCHANGED <<op, key, disp>>
      BY <1>0, <2>4 DEF NextNetid, TaskOf, Registering, task
    <3>2. Tail(left[t]) \in Seq(Netids) /\ Head(left[t]) \in Netids
      BY <3>1
    <3>3. \E x \in Transports : xprt' = [xprt EXCEPT ![t] = x]
      <4>1. \A p \in Ports : [net |-> Head(left[t]), port |-> p] \in Transports
        BY <3>2, <1>b
      <4> QED
        BY <2>4, <1>a, <4>1 DEF NextNetid, TliCreate
    <3> QED
      BY <1>0, <3>1, <3>2, <3>3 DEF TaskOf, ThreadTypes, Idle, Working, Registering, Unregistering
  <2>5. ASSUME CannotBind(t) PROVE TaskOf(t)'
    <3>1. /\ left[t] \in Seq(Netids) /\ left[t] # << >> /\ pc[t] = "next"
          /\ left' = [left EXCEPT ![t] = Tail(left[t])]
          /\ UNCHANGED <<op, key, disp, xprt, pc>>
      BY <1>0, <2>5 DEF CannotBind, TaskOf, Registering, task
    <3>2. Tail(left[t]) \in Seq(Netids)
      BY <3>1
    <3> QED
      BY <1>0, <3>1, <3>2 DEF TaskOf, ThreadTypes, Idle, Working, Registering, Unregistering
  <2>6. ASSUME Unset(t) PROVE TaskOf(t)'
    BY <1>0, <1>b, <2>6 DEF Unset, Fault, task, step, bounds, hist, lists, locks, TaskOf, ThreadTypes, Idle, Working, Registering, Unregistering
  <2>7. ASSUME Callout(t) PROVE TaskOf(t)'
    BY <1>0, <1>b, <2>7 DEF Callout, At, task, step, bounds, hist, lists, locks, TaskOf, ThreadTypes, Idle, Working, Registering, Unregistering
  <2>8. ASSUME Set(t) PROVE TaskOf(t)'
    BY <1>0, <1>b, <2>8 DEF Set, Fault, task, step, bounds, hist, lists, locks, TaskOf, ThreadTypes, Idle, Working, Registering, Unregistering
  <2>9. ASSUME Keep(t) PROVE TaskOf(t)'
    BY <1>0, <1>b, <2>9 DEF Keep, At, Unlock, task, step, bounds, hist, lists, locks, TaskOf, ThreadTypes, Idle, Working, Registering, Unregistering
  <2>10. ASSUME Drop(t) PROVE TaskOf(t)'
    BY <1>0, <1>b, <2>10 DEF Drop, At, Unlock, task, step, bounds, hist, lists, locks, TaskOf, ThreadTypes, Idle, Working, Registering, Unregistering
  <2>11. ASSUME Return(t) PROVE TaskOf(t)'
    BY <1>0, <1>b, <2>11 DEF Return, At, Ended, task, step, bounds, hist, lists, locks, TaskOf, ThreadTypes, Idle, Working, Registering, Unregistering
  <2>12. ASSUME UnsetAll(t) PROVE TaskOf(t)'
    <3>1. /\ pc[t] = "unset_all" /\ pc' = [pc EXCEPT ![t] = "remove"]
          /\ UNCHANGED <<op, key, disp, left, xprt>>
      BY <2>12 DEF UnsetAll, At, task, step
    <3> QED
      BY <1>0, <3>1 DEF TaskOf, ThreadTypes, Idle, Working, Registering, Unregistering
  <2>13. ASSUME RemoveCallouts(t) PROVE TaskOf(t)'
    BY <1>0, <1>b, <2>13 DEF RemoveCallouts, At, Ended, task, step, bounds, hist, lists, locks, TaskOf, ThreadTypes, Idle, Working, Registering, Unregistering
  <2> QED
    BY <2>1, <2>2, <2>3, <2>4, <2>5, <2>6, <2>7, <2>8, <2>9, <2>10, <2>11, <2>12, <2>13 DEF StepOf, Begins, Run
<1> QED
  BY <1>p, StepLeavesOthers DEF TasksInv, TaskOf, OthersStay, Registering, Working,
     Unregistering, Idle

LEMMA LocksStep ==
    ASSUME ThreadTypes, TasksInv, LocksInv, NEW t \in Threads, StepOf(t)
    PROVE  LocksInv'
<1>0. ThreadTypes /\ TaskOf(t) /\ LocksInv /\ Nobody \notin Threads
  BY RegAssumption DEF TasksInv
<1> DEFINE LockStep ==
      \/ /\ UNCHANGED <<xprtlist_lock, proglst_lock>>
         /\ (op'[t] = "create" /\ Working(t)') = (op[t] = "create" /\ Working(t))
         /\ (op'[t] = "rpc_reg" /\ ~Idle(t)') = (op[t] = "rpc_reg" /\ ~Idle(t))
      \/ /\ xprtlist_lock = Nobody /\ xprtlist_lock' = t /\ UNCHANGED proglst_lock
         /\ op'[t] = "create" /\ Working(t)' /\ op[t] = "create"
      \/ /\ xprtlist_lock = t /\ xprtlist_lock' = Nobody /\ UNCHANGED proglst_lock
         /\ ~Working(t)' /\ op'[t] = "create" /\ op[t] = "create"
      \/ /\ proglst_lock = Nobody /\ proglst_lock' = t /\ UNCHANGED xprtlist_lock
         /\ op'[t] = "rpc_reg" /\ ~Idle(t)' /\ op[t] = "none"
      \/ /\ proglst_lock = t /\ proglst_lock' = Nobody /\ UNCHANGED xprtlist_lock
         /\ op'[t] = "none" /\ op[t] = "rpc_reg"
<1>p. LockStep
  <2>1. ASSUME NEW k \in Keys, NEW type \in Types, NEW d \in Dispatchers,
                 BeginCreate(t, k, d, type) PROVE LockStep
    <3>1. /\ pc[t] = "idle" /\ pc' = [pc EXCEPT ![t] = "next"] /\ op' = [op EXCEPT ![t] = "create"]
          /\ UNCHANGED <<xprtlist_lock, proglst_lock>>
      BY <2>1 DEF BeginCreate, Begin, At, locks
    <3> QED
      BY <1>0, <3>1 DEF ThreadTypes, TaskOf, LocksInv, Working, Registering, Unregistering, Idle
  <2>2. ASSUME NEW k \in Keys, NEW type \in Types, BeginReg(t, k, type) PROVE LockStep
    <3>1. /\ pc[t] = "idle" /\ pc' = [pc EXCEPT ![t] = "next"] /\ op' = [op EXCEPT ![t] = "rpc_reg"]
          /\ proglst_lock = Nobody /\ proglst_lock' = t /\ UNCHANGED xprtlist_lock
      BY <2>2 DEF BeginReg, Begin, At
    <3> QED
      BY <1>0, <3>1 DEF ThreadTypes, TaskOf, LocksInv, Working, Registering, Unregistering, Idle
  <2>3. ASSUME NEW k \in Keys, BeginUnreg(t, k) PROVE LockStep
    <3>1. /\ pc[t] = "idle" /\ pc' = [pc EXCEPT ![t] = "unset_all"] /\ op' = [op EXCEPT ![t] = "unreg"]
          /\ UNCHANGED <<xprtlist_lock, proglst_lock>>
      BY <2>3 DEF BeginUnreg, Begin, At, locks
    <3> QED
      BY <1>0, <3>1 DEF ThreadTypes, TaskOf, LocksInv, Working, Registering, Unregistering, Idle
  <2>4. ASSUME NextNetid(t) PROVE LockStep
    <3>1. /\ pc[t] = "next" /\ pc' \in {[pc EXCEPT ![t] = p] : p \in {"callout", "unset"}}
          /\ UNCHANGED <<op, proglst_lock>>
          /\ \/ op[t] = "create" /\ xprtlist_lock = Nobody /\ xprtlist_lock' = t
             \/ op[t] = "rpc_reg" /\ UNCHANGED xprtlist_lock
      BY <2>4 DEF NextNetid, task
    <3> QED
      BY <1>0, <3>1 DEF ThreadTypes, TaskOf, LocksInv, Working, Registering, Unregistering, Idle
  <2>5. ASSUME CannotBind(t) PROVE LockStep
    <3>1. /\ pc[t] = "next" /\ pc' = pc
          /\ UNCHANGED <<op, xprtlist_lock, proglst_lock>>
      BY <2>5 DEF CannotBind, locks, task
    <3> QED
      BY <1>0, <3>1 DEF ThreadTypes, TaskOf, LocksInv, Working, Registering, Unregistering, Idle
  <2>6. ASSUME Unset(t) PROVE LockStep
    <3>1. /\ pc[t] = "unset" /\ pc' = [pc EXCEPT ![t] = "callout"]
          /\ UNCHANGED <<op, xprtlist_lock, proglst_lock>>
      BY <2>6 DEF Unset, locks, task
    <3> QED
      BY <1>0, <3>1 DEF ThreadTypes, TaskOf, LocksInv, Working, Registering, Unregistering, Idle
  <2>7. ASSUME Callout(t) PROVE LockStep
    <3>1. /\ pc[t] = "callout" /\ pc' \in {[pc EXCEPT ![t] = p] : p \in {"set", "registered", "failed"}}
          /\ UNCHANGED <<op, xprtlist_lock, proglst_lock>>
      BY <2>7 DEF Callout, At, locks, task
    <3> QED
      BY <1>0, <3>1 DEF ThreadTypes, TaskOf, LocksInv, Working, Registering, Unregistering, Idle
  <2>8. ASSUME Set(t) PROVE LockStep
    <3>1. /\ pc[t] = "set" /\ pc' \in {[pc EXCEPT ![t] = p] : p \in {"registered", "failed"}}
          /\ UNCHANGED <<op, xprtlist_lock, proglst_lock>>
      BY <2>8 DEF Set, locks, task
    <3> QED
      BY <1>0, <3>1 DEF ThreadTypes, TaskOf, LocksInv, Working, Registering, Unregistering, Idle
  <2>9. ASSUME Keep(t) PROVE LockStep
    BY <1>0, <2>9 DEF Keep, At, Unlock, task, step, bounds, hist, lists, locks, LocksInv, TaskOf, ThreadTypes, Idle, Working, Registering, Unregistering
  <2>10. ASSUME Drop(t) PROVE LockStep
    BY <1>0, <2>10 DEF Drop, At, Unlock, task, step, bounds, hist, lists, locks, LocksInv, TaskOf, ThreadTypes, Idle, Working, Registering, Unregistering
  <2>11. ASSUME Return(t) PROVE LockStep
    BY <1>0, <2>11 DEF Return, At, Ended, task, step, bounds, hist, lists, locks, LocksInv, TaskOf, ThreadTypes, Idle, Working, Registering, Unregistering
  <2>12. ASSUME UnsetAll(t) PROVE LockStep
    <3>1. /\ pc[t] = "unset_all" /\ pc' = [pc EXCEPT ![t] = "remove"]
          /\ UNCHANGED <<op, xprtlist_lock, proglst_lock>>
      BY <2>12 DEF UnsetAll, At, locks, task
    <3> QED
      BY <1>0, <3>1 DEF ThreadTypes, TaskOf, LocksInv, Working, Registering, Unregistering, Idle
  <2>13. ASSUME RemoveCallouts(t) PROVE LockStep
    <3>1. /\ pc[t] = "remove" /\ pc' = [pc EXCEPT ![t] = "idle"] /\ op' = [op EXCEPT ![t] = "none"]
          /\ UNCHANGED <<xprtlist_lock, proglst_lock>>
      BY <2>13 DEF RemoveCallouts, At, Ended, locks
    <3> QED
      BY <1>0, <3>1 DEF ThreadTypes, TaskOf, LocksInv, Working, Registering, Unregistering, Idle
  <2> QED
    BY <2>1, <2>2, <2>3, <2>4, <2>5, <2>6, <2>7, <2>8, <2>9, <2>10, <2>11, <2>12, <2>13 DEF StepOf, Begins, Run
<1>o. \A u \in Threads \ {t} : pc'[u] = pc[u] /\ op'[u] = op[u]
  BY StepLeavesOthers DEF OthersStay
<1> QED
  BY <1>0, <1>p, <1>o DEF LocksInv, Working, Idle
-----------------------------------------------------------------------------
(* The list of callouts. *)

Callouts == [key : Keys, net : Netids, disp : Routines]

\* A callout is linked in at the head.
LEMMA LinkFacts ==
    ASSUME NEW S, NEW c \in Seq(S), NEW x \in S
    PROVE  /\ <<x>> \o c \in Seq(S) /\ Range(<<x>> \o c) = Range(c) \cup {x}
           /\ \A i \in DOMAIN (<<x>> \o c) : \/ i = 1 /\ (<<x>> \o c)[i] = x
                                             \/ i - 1 \in DOMAIN c /\ (<<x>> \o c)[i] = c[i - 1]
<1> DEFINE new == <<x>> \o c
<1>1. /\ new \in Seq(S) /\ Len(c) \in Nat /\ Len(new) = Len(c) + 1
      /\ DOMAIN new = 1 .. (Len(c) + 1) /\ DOMAIN c = 1 .. Len(c)
      /\ new[1] = x /\ \A i \in 1 .. Len(c) : new[i + 1] = c[i]
  OBVIOUS
<1> HIDE DEF new
<1>2. ASSUME NEW i \in DOMAIN new, i # 1 PROVE i - 1 \in DOMAIN c /\ new[i] = c[i - 1]
  <2>1. i - 1 \in 1 .. Len(c) /\ (i - 1) + 1 = i
    BY <1>1, <1>2
  <2> QED
    BY <1>1, <2>1
<1>3. Range(new) = Range(c) \cup {x}
  <2>1. ASSUME NEW y \in Range(new) PROVE y \in Range(c) \cup {x}
    <3>1. PICK i \in DOMAIN new : new[i] = y
      BY DEF Range
    <3> QED
      BY <1>1, <1>2, <3>1 DEF Range
  <2>2. ASSUME NEW y \in Range(c) PROVE y \in Range(new)
    <3>1. PICK i \in DOMAIN c : c[i] = y
      BY DEF Range
    <3>2. i + 1 \in DOMAIN new /\ new[i + 1] = y
      BY <1>1, <3>1
    <3> QED
      BY <3>2 DEF Range
  <2>3. x \in Range(new)
    <3>1. 1 \in DOMAIN new
      BY <1>1
    <3> QED
      BY <1>1, <3>1 DEF Range
  <2> QED
    BY <2>1, <2>2, <2>3
<1> QED
  BY <1>1, <1>2, <1>3 DEF new

\* svc_unreg takes out the callouts of its program and no others.
LEMMA WithoutFacts ==
    ASSUME NEW S, callouts \in Seq(S), NEW k, NEW c \in Without(k)
    PROVE  /\ c \in Seq(S) /\ Range(c) = {x \in Range(callouts) : x.key # k}
           /\ OneCallout => \A i, j \in DOMAIN c :
                               c[i].key = c[j].key /\ c[i].net = c[j].net => i = j
<1> DEFINE rest == {i \in DOMAIN callouts : callouts[i].key # k}
           n == Cardinality(rest)
<1>1. PICK f \in Surjection(1 .. n, rest) :
         /\ \A i, j \in DOMAIN f : i < j => f[i] < f[j]
         /\ c = [i \in DOMAIN f |-> callouts[f[i]]]
  BY DEF Without
<1>2. n \in Nat
  <2>1. DOMAIN callouts = 1 .. Len(callouts) /\ Len(callouts) \in Nat
    OBVIOUS
  <2>2. IsFiniteSet(1 .. Len(callouts)) /\ rest \in SUBSET (1 .. Len(callouts))
    BY <2>1, FS_Interval
  <2>3. IsFiniteSet(rest)
    BY <2>2, FS_Subset
  <2> QED
    BY <2>3, FS_CardinalityType
<1> HIDE DEF n
<1>3. /\ f \in [1 .. n -> rest] /\ DOMAIN f = 1 .. n
      /\ \A i \in rest : \E j \in 1 .. n : f[j] = i
  BY <1>1 DEF Surjection
<1>4. /\ DOMAIN c = 1 .. n
      /\ \A i \in 1 .. n : f[i] \in rest /\ c[i] = callouts[f[i]]
  BY <1>1, <1>3
<1>5. \A i \in DOMAIN callouts : callouts[i] \in S
  OBVIOUS
<1>6. c \in [1 .. n -> S]
  BY <1>1, <1>3, <1>5
<1>7. c \in Seq(S)
  BY <1>2, <1>6
<1>8. Range(c) = {x \in Range(callouts) : x.key # k}
  BY <1>3, <1>4 DEF Range
<1>9. \A i, j \in 1 .. n : f[i] = f[j] => i = j
  <2>1. \A i \in 1 .. n : f[i] \in Int
    <3>1. rest \subseteq Int
      OBVIOUS
    <3> QED
      BY <3>1, <1>3
  <2> QED
    BY <1>1, <1>3, <2>1
<1>10. OneCallout => \A i, j \in DOMAIN c : c[i].key = c[j].key /\ c[i].net = c[j].net => i = j
  BY <1>4, <1>9 DEF OneCallout
<1> QED
  BY <1>7, <1>8, <1>10

\* What svc_find answers.
DispatcherIsListed ==
    \A k \in Keys, n \in Netids :
        /\ Dispatcher(k, n) \in Routines \cup {"none"}
        /\ \A d \in Routines :
              Dispatcher(k, n) = d <=> [key |-> k, net |-> n, disp |-> d] \in Range(callouts)
LEMMA ListedDispatcher == callouts \in Seq(Callouts) /\ OneCallout => DispatcherIsListed
<1> SUFFICES ASSUME callouts \in Seq(Callouts), OneCallout, NEW k \in Keys, NEW n \in Netids
             PROVE  /\ Dispatcher(k, n) \in Routines \cup {"none"}
                    /\ \A d \in Routines : Dispatcher(k, n) = d
                          <=> [key |-> k, net |-> n, disp |-> d] \in Range(callouts)
  BY DEF DispatcherIsListed
<1>0. "none" \notin Routines
  BY RegAssumption DEF Routines
<1>1. ASSUME NEW i \in DOMAIN callouts
      PROVE  /\ callouts[i].disp \in Routines /\ callouts[i] \in Range(callouts)
             /\ callouts[i] = [key |-> callouts[i].key, net |-> callouts[i].net,
                               disp |-> callouts[i].disp]
  <2>1. callouts[i] \in Callouts
    OBVIOUS
  <2> QED
    BY <2>1 DEF Callouts, Range
<1>2. CASE Matches(k, n) = {}
  <2>1. Dispatcher(k, n) = "none"
    BY <1>2 DEF Dispatcher
  <2>2. ASSUME NEW d \in Routines, [key |-> k, net |-> n, disp |-> d] \in Range(callouts) PROVE FALSE
    <3>1. PICK i \in DOMAIN callouts : callouts[i] = [key |-> k, net |-> n, disp |-> d]
      BY <2>2 DEF Range
    <3>2. i \in Matches(k, n)
      BY <3>1 DEF Matches
    <3> QED
      BY <1>2, <3>2
  <2> QED
    BY <1>0, <2>1, <2>2
<1>3. ASSUME NEW m \in Matches(k, n)
      PROVE  /\ Dispatcher(k, n) \in Routines
             /\ \A d \in Routines : Dispatcher(k, n) = d
                   <=> [key |-> k, net |-> n, disp |-> d] \in Range(callouts)
  <2>1. m \in DOMAIN callouts /\ callouts[m].key = k /\ callouts[m].net = n
    BY DEF Matches
  <2>2. \A i \in Matches(k, n) : i = m
    BY <2>1 DEF Matches, OneCallout
  <2>3. (CHOOSE i \in Matches(k, n) : \A j \in Matches(k, n) : i <= j) = m
    <3>1. m \in Int
      BY <2>1
    <3>2. \E i \in Matches(k, n) : \A j \in Matches(k, n) : i <= j
      BY <2>2, <3>1
    <3> QED
      BY <2>2, <3>2
  <2>4. Dispatcher(k, n) = callouts[m].disp
    BY <2>3 DEF Dispatcher
  <2>5. ASSUME NEW d \in Routines, [key |-> k, net |-> n, disp |-> d] \in Range(callouts)
        PROVE  d = callouts[m].disp
    <3>1. PICK i \in DOMAIN callouts : callouts[i] = [key |-> k, net |-> n, disp |-> d]
      BY <2>5 DEF Range
    <3>2. i \in Matches(k, n)
      BY <3>1 DEF Matches
    <3> QED
      BY <2>2, <3>1, <3>2
  <2> QED
    BY <1>1, <2>1, <2>4, <2>5
<1> QED
  BY <1>2, <1>3

LEMMA CalloutsStep ==
    ASSUME TasksInv, callouts \in Seq(Callouts), OneCallout, NEW t \in Threads, StepOf(t)
    PROVE  /\ callouts' \in Seq(Callouts) /\ OneCallout'
           /\ \/ callouts' = callouts
              \/ /\ pc[t] = "callout" /\ Dispatcher(key[t], Net(t)) = "none"
                 /\ Range(callouts') = Range(callouts) \cup {NewCallout(t)}
              \/ pc[t] = "remove" /\ Range(callouts') = {c \in Range(callouts) : c.key # key[t]}
<1>1. \/ callouts' = callouts
      \/ /\ pc[t] = "callout" /\ Dispatcher(key[t], Net(t)) = "none"
         /\ callouts' = <<NewCallout(t)>> \o callouts
      \/ pc[t] = "remove" /\ callouts' \in Without(key[t])
  <2> DEFINE Change == \/ callouts' = callouts
                       \/ /\ pc[t] = "callout" /\ Dispatcher(key[t], Net(t)) = "none"
                          /\ callouts' = <<NewCallout(t)>> \o callouts
                       \/ pc[t] = "remove" /\ callouts' \in Without(key[t])
  <2> SUFFICES Change
    OBVIOUS
  <2>1. ASSUME NEW k \in Keys, NEW type \in Types, NEW d \in Dispatchers,
                 BeginCreate(t, k, d, type) PROVE Change
    BY <2>1 DEF BeginCreate, Begin, At, task, step, bounds, hist, lists, locks
  <2>2. ASSUME NEW k \in Keys, NEW type \in Types, BeginReg(t, k, type) PROVE Change
    BY <2>2 DEF BeginReg, Begin, At, task, step, bounds, hist, lists, locks
  <2>3. ASSUME NEW k \in Keys, BeginUnreg(t, k) PROVE Change
    BY <2>3 DEF BeginUnreg, Begin, At, task, step, bounds, hist, lists, locks
  <2>4. ASSUME NextNetid(t) PROVE Change
    BY <2>4 DEF NextNetid, TliCreate, task, step, bounds, hist, lists, locks
  <2>5. ASSUME CannotBind(t) PROVE Change
    BY <2>5 DEF CannotBind, Fault, task, step, bounds, hist, lists, locks
  <2>6. ASSUME Unset(t) PROVE Change
    BY <2>6 DEF Unset, Fault, task, step, bounds, hist, lists, locks
  <2>7. ASSUME Callout(t) PROVE Change
    <3>1. Change
      BY <2>7 DEF Callout, At, NewCallout
    <3> QED
      BY <3>1
  <2>8. ASSUME Set(t) PROVE Change
    BY <2>8 DEF Set, Fault, task, step, bounds, hist, lists, locks
  <2>9. ASSUME Keep(t) PROVE Change
    BY <2>9 DEF Keep, At, Unlock, task, step, bounds, hist, lists, locks
  <2>10. ASSUME Drop(t) PROVE Change
    BY <2>10 DEF Drop, At, Unlock, task, step, bounds, hist, lists, locks
  <2>11. ASSUME Return(t) PROVE Change
    BY <2>11 DEF Return, At, Ended, task, step, bounds, hist, lists, locks
  <2>12. ASSUME UnsetAll(t) PROVE Change
    BY <2>12 DEF UnsetAll, At, Fault, task, step, bounds, hist, lists, locks
  <2>13. ASSUME RemoveCallouts(t) PROVE Change
    BY <2>13 DEF RemoveCallouts, At, Ended, task, step, bounds, hist, lists, locks
  <2> QED
    BY <2>1, <2>2, <2>3, <2>4, <2>5, <2>6, <2>7, <2>8, <2>9, <2>10, <2>11, <2>12, <2>13 DEF StepOf, Begins, Run
<1>2. CASE callouts' = callouts
  BY <1>2 DEF OneCallout
<1>3. CASE /\ pc[t] = "callout" /\ Dispatcher(key[t], Net(t)) = "none"
           /\ callouts' = <<NewCallout(t)>> \o callouts
  <2>1. /\ key[t] \in Keys /\ Net(t) \in Netids /\ disp[t] \in Routines
    BY <1>3 DEF TasksInv, TaskOf, Registering, Working, Transports, Net
  <2>2. NewCallout(t) \in Callouts
    BY <2>1 DEF NewCallout, Callouts
  <2>3. \A i \in DOMAIN callouts : ~(callouts[i].key = key[t] /\ callouts[i].net = Net(t))
    <3> SUFFICES ASSUME NEW i \in DOMAIN callouts, callouts[i].key = key[t],
                        callouts[i].net = Net(t)
                 PROVE  FALSE
      OBVIOUS
    <3>1. callouts[i] \in Callouts /\ callouts[i] \in Range(callouts)
      BY DEF Range
    <3>2. /\ callouts[i].disp \in Routines
          /\ callouts[i] = [key |-> key[t], net |-> Net(t), disp |-> callouts[i].disp]
      BY <3>1 DEF Callouts
    <3>3. Dispatcher(key[t], Net(t)) = callouts[i].disp
      BY <2>1, <3>1, <3>2, ListedDispatcher DEF DispatcherIsListed
    <3> QED
      BY <1>3, <3>2, <3>3, RegAssumption DEF Routines
  <2>4. /\ callouts' \in Seq(Callouts) /\ Range(callouts') = Range(callouts) \cup {NewCallout(t)}
        /\ \A i \in DOMAIN callouts' : \/ i = 1 /\ callouts'[i] = NewCallout(t)
                                       \/ i - 1 \in DOMAIN callouts /\ callouts'[i] = callouts[i - 1]
    BY <1>3, <2>2, LinkFacts
  <2>5. NewCallout(t).key = key[t] /\ NewCallout(t).net = Net(t)
    BY DEF NewCallout
  <2>6. DOMAIN callouts' \subseteq Int
    BY <2>4
  <2>7. ASSUME NEW i \in DOMAIN callouts', NEW j \in DOMAIN callouts',
               callouts'[i].key = callouts'[j].key, callouts'[i].net = callouts'[j].net
        PROVE  i = j
    <3>1. CASE i = 1 /\ j = 1
      BY <3>1
    <3>2. CASE i = 1 /\ j # 1
      BY <2>3, <2>4, <2>5, <2>7, <3>2
    <3>3. CASE i # 1 /\ j = 1
      <4>1. /\ i - 1 \in DOMAIN callouts /\ callouts'[i] = callouts[i - 1]
            /\ callouts'[j] = NewCallout(t)
        BY <2>4, <3>3
      <4> QED
        BY <2>3, <2>5, <2>7, <4>1
    <3>4. CASE i # 1 /\ j # 1
      <4>1. i - 1 \in DOMAIN callouts /\ j - 1 \in DOMAIN callouts
            /\ callouts'[i] = callouts[i - 1] /\ callouts'[j] = callouts[j - 1]
        BY <2>4, <3>4
      <4>2. i - 1 = j - 1
        BY <2>7, <4>1 DEF OneCallout
      <4> QED
        BY <2>6, <4>2
    <3> QED
      BY <3>1, <3>2, <3>3, <3>4
  <2> QED
    BY <1>3, <2>4, <2>7 DEF OneCallout
<1>4. CASE pc[t] = "remove" /\ callouts' \in Without(key[t])
  <2>1. /\ callouts' \in Seq(Callouts)
        /\ Range(callouts') = {c \in Range(callouts) : c.key # key[t]}
        /\ \A i, j \in DOMAIN callouts' :
              callouts'[i].key = callouts'[j].key /\ callouts'[i].net = callouts'[j].net => i = j
    BY <1>4, WithoutFacts
  <2> QED
    BY <1>4, <2>1 DEF OneCallout
<1> QED
  BY <1>1, <1>2, <1>3, <1>4

LEMMA SharedTypesStep ==
    ASSUME ThreadTypes, TasksInv, SharedTypes, OneCallout, NEW t \in Threads, StepOf(t)
    PROVE  SharedTypes'
<1>0. ThreadTypes /\ TaskOf(t) /\ SharedTypes
  BY DEF TasksInv
<1>1. callouts' \in Seq(Callouts)
  BY CalloutsStep DEF SharedTypes, Callouts
<1>2. Registering(t) => key[t] \in Keys /\ disp[t] \in Routines
  BY <1>0 DEF TaskOf
<1>3. Unregistering(t) => key[t] \in Keys
  BY <1>0 DEF TaskOf
<1>4. Working(t) => xprt[t] \in Transports /\ Net(t) \in Netids /\ xprt[t].port \in Ports
                    /\ key[t] \in Keys /\ disp[t] \in Routines
  BY <1>0 DEF TaskOf, Transports, Net, Registering
<1>5. NoMapping \in [port : Ports \cup {0}, life : 0 .. life] /\ life \in Nat
  BY DEF NoMapping, SharedTypes
<1> DEFINE Rest == /\ life' = life /\ ops' \in Nat /\ faults' \in Nat
                   /\ open' \subseteq Transports /\ xprtlist' \subseteq Transports
                   /\ proglst' \subseteq [key : Keys, net : Netids, port : Ports]
                   /\ binder' \in [Keys \X Netids -> [port : Ports \cup {0}, life : 0 .. life]]
                   /\ claims' \subseteq Callouts /\ excused' \subseteq Keys \X Netids
                   /\ unasked' \subseteq Callouts
<1>p. Rest
  <2>1. ASSUME NEW k \in Keys, NEW type \in Types, NEW d \in Dispatchers,
                 BeginCreate(t, k, d, type) PROVE Rest
    <3>1. UNCHANGED <<life, faults, open, lists, binder, excused>> /\ ops' = ops + 1 /\ claims' \subseteq claims
          /\ unasked' \subseteq unasked
      BY <2>1 DEF BeginCreate, Begin, At
    <3> QED
      BY <1>0, <3>1 DEF SharedTypes, lists, Callouts
  <2>2. ASSUME NEW k \in Keys, NEW type \in Types, BeginReg(t, k, type) PROVE Rest
    <3>1. UNCHANGED <<life, faults, open, lists, binder, excused>> /\ ops' = ops + 1 /\ claims' \subseteq claims
          /\ unasked' \subseteq unasked
      BY <2>2 DEF BeginReg, Begin, At
    <3> QED
      BY <1>0, <3>1 DEF SharedTypes, lists, Callouts
  <2>3. ASSUME NEW k \in Keys, BeginUnreg(t, k) PROVE Rest
    <3>1. UNCHANGED <<life, faults, open, lists, binder, excused>> /\ ops' = ops + 1 /\ claims' \subseteq claims
          /\ unasked' \subseteq unasked
      BY <2>3 DEF BeginUnreg, Begin, At
    <3> QED
      BY <1>0, <3>1 DEF SharedTypes, lists, Callouts
  <2>4. ASSUME NextNetid(t) PROVE Rest
    <3>1. UNCHANGED <<bounds, lists, binder, claims, unasked, excused>>
          /\ (open' = open \/ \E p \in Ports : open' = open \cup {[net |-> Head(left[t]), port |-> p]})
      <4>1. UNCHANGED <<bounds, lists, binder, claims, unasked, excused>> /\ DOMAIN xprt = Threads
        BY <1>0, <2>4 DEF NextNetid, hist, ThreadTypes
      <4>2. open' = open \/ TliCreate(t, Head(left[t]))
        BY <2>4 DEF NextNetid
      <4> QED
        BY <4>1, <4>2 DEF TliCreate
    <3>2. Head(left[t]) \in Netids
      <4>1. left[t] \in Seq(Netids) /\ left[t] # << >>
        BY <1>0, <2>4 DEF NextNetid, TaskOf, Registering
      <4> QED
        BY <4>1
    <3> QED
      BY <1>0, <3>1, <3>2 DEF SharedTypes, lists, bounds, Callouts, Transports
  <2>5. ASSUME CannotBind(t) PROVE Rest
    <3>1. UNCHANGED <<ops, life, open, lists, binder, claims, unasked, excused>> /\ faults' = faults + 1
      BY <2>5 DEF CannotBind, Fault
    <3> QED
      BY <1>0, <3>1 DEF SharedTypes, lists, Callouts
  <2>6. ASSUME Unset(t) PROVE Rest
    <3>1. /\ pc[t] = "unset" /\ UNCHANGED <<ops, life, open, lists, unasked>>
          /\ faults' = faults \/ faults' = faults + 1
          /\ claims' \subseteq claims /\ excused' \subseteq excused
          /\ binder' = binder \/ binder' = [binder EXCEPT ![<<key[t], Net(t)>>] = NoMapping]
      BY <2>6 DEF Unset, Fault
    <3>2. binder' \in [Keys \X Netids -> [port : Ports \cup {0}, life : 0 .. life]]
      BY <1>0, <1>5, <3>1 DEF SharedTypes
    <3> QED
      BY <1>0, <1>4, <3>1, <3>2 DEF SharedTypes, lists, Callouts, Working
  <2>7. ASSUME Callout(t) PROVE Rest
    <3>1. /\ pc[t] = "callout" /\ UNCHANGED <<bounds, open, lists, binder, claims, excused>>
          /\ unasked' \subseteq unasked \cup {NewCallout(t)}
      BY <2>7 DEF Callout, At, hist, step
    <3>2. NewCallout(t) \in Callouts
      BY <1>4, <3>1 DEF NewCallout, Callouts, Working
    <3> QED
      BY <1>0, <3>1, <3>2 DEF SharedTypes, lists, bounds, Callouts
  <2>8. ASSUME Set(t) PROVE Rest
    <3>1. /\ pc[t] = "set" /\ UNCHANGED <<ops, life, open, lists, unasked>>
          /\ faults' = faults \/ faults' = faults + 1
          /\ claims' \subseteq claims \cup {NewCallout(t)}
          /\ excused' \subseteq excused \cup {<<key[t], Net(t)>>}
          /\ binder' = binder \/ MapIt(t)
      BY <2>8 DEF Set, Fault, NewCallout
    <3>2. NewCallout(t) \in Callouts /\ <<key[t], Net(t)>> \in Keys \X Netids
      BY <1>4, <3>1 DEF NewCallout, Callouts, Working
    <3>3. [port |-> xprt[t].port, life |-> life] \in [port : Ports \cup {0}, life : 0 .. life]
      BY <1>4, <1>5, <3>1 DEF Working
    <3>4. binder' \in [Keys \X Netids -> [port : Ports \cup {0}, life : 0 .. life]]
      BY <1>0, <3>1, <3>2, <3>3 DEF MapIt, SharedTypes
    <3> QED
      BY <1>0, <3>1, <3>2, <3>4 DEF SharedTypes, lists, Callouts
  <2>9. ASSUME Keep(t) PROVE Rest
    <3>1. /\ pc[t] = "registered" /\ UNCHANGED <<bounds, open, binder, claims, unasked, excused>>
          /\ xprtlist' = xprtlist \/ xprtlist' = xprtlist \cup {xprt[t]}
          /\ proglst' = proglst
                \/ proglst' = proglst \cup {[key |-> key[t], net |-> Net(t), port |-> xprt[t].port]}
      BY <2>9 DEF Keep, At, hist
    <3> QED
      BY <1>0, <1>4, <3>1 DEF SharedTypes, bounds, Callouts, Working
  <2>10. ASSUME Drop(t) PROVE Rest
    <3>1. UNCHANGED <<bounds, lists, binder, claims, unasked, excused>> /\ open' \subseteq open
      BY <2>10 DEF Drop, hist
    <3> QED
      BY <1>0, <3>1 DEF SharedTypes, lists, bounds, Callouts
  <2>11. ASSUME Return(t) PROVE Rest
    <3>1. UNCHANGED <<bounds, open, lists, binder, claims, unasked, excused>>
      BY <2>11 DEF Return, hist, step
    <3> QED
      BY <1>0, <3>1 DEF SharedTypes, lists, bounds, Callouts
  <2>12. ASSUME UnsetAll(t) PROVE Rest
    <3>1. /\ pc[t] = "unset_all" /\ UNCHANGED <<ops, life, open, lists, claims, unasked>>
          /\ faults' = faults \/ faults' = faults + 1
          /\ excused' \subseteq excused \cup ({key[t]} \X Netids)
          /\ \/ binder' = binder
             \/ binder' = [m \in Keys \X Netids |-> IF m[1] = key[t] THEN NoMapping ELSE binder[m]]
      BY <2>12 DEF UnsetAll, At, Fault
    <3>2. key[t] \in Keys
      BY <1>3, <3>1 DEF Unregistering
    <3>3. binder' \in [Keys \X Netids -> [port : Ports \cup {0}, life : 0 .. life]]
      BY <1>0, <1>5, <3>1 DEF SharedTypes
    <3> QED
      BY <1>0, <3>1, <3>2, <3>3 DEF SharedTypes, lists, Callouts
  <2>13. ASSUME RemoveCallouts(t) PROVE Rest
    <3>1. UNCHANGED <<bounds, open, lists, binder, claims, unasked, excused>>
      BY <2>13 DEF RemoveCallouts, hist, step
    <3> QED
      BY <1>0, <3>1 DEF SharedTypes, lists, bounds, Callouts
  <2> QED
    BY <2>1, <2>2, <2>3, <2>4, <2>5, <2>6, <2>7, <2>8, <2>9, <2>10, <2>11, <2>12, <2>13 DEF StepOf, Begins, Run
<1> QED
  BY <1>0, <1>1, <1>p DEF SharedTypes, Callouts

-----------------------------------------------------------------------------
(* The transports. *)

\* What a step does with them: nothing, the next one is taken in hand, kept, or given up.
Stays(t) ==
    /\ UNCHANGED <<open, xprtlist, proglst>>
    /\ Working(t)' => Working(t) /\ op'[t] = op[t] /\ xprt'[t] = xprt[t] /\ madenow'[t] = madenow[t]
Takes(t) ==
    /\ pc[t] = "next" /\ Working(t)' /\ op'[t] = op[t] /\ UNCHANGED <<xprtlist, proglst>>
    /\ \/ /\ madenow'[t] /\ xprt'[t] \notin open /\ open' = open \cup {xprt'[t]}
          /\ \A x \in Kept(t) : x.net # xprt'[t].net
       \/ ~madenow'[t] /\ xprt'[t] \in Kept(t) /\ UNCHANGED open
Keeps(t) ==
    /\ pc[t] = "registered" /\ ~Working(t)' /\ UNCHANGED open
    /\ \/ /\ op[t] = "create" /\ xprtlist' = xprtlist \cup {xprt[t]} /\ UNCHANGED proglst
       \/ /\ op[t] = "rpc_reg" /\ ProgKept' = ProgKept \cup {xprt[t]} /\ UNCHANGED xprtlist
GivesUp(t) ==
    /\ pc[t] = "failed" /\ ~Working(t)' /\ UNCHANGED <<xprtlist, proglst>>
    /\ open' = IF madenow[t] THEN open \ {xprt[t]} ELSE open
LEMMA TransportSteps ==
    ASSUME ThreadTypes, TasksInv, NEW t \in Threads, StepOf(t)
    PROVE  Stays(t) \/ Takes(t) \/ Keeps(t) \/ GivesUp(t)
<1>0. ThreadTypes /\ TaskOf(t)
  BY DEF TasksInv
<1> DEFINE Shape == Stays(t) \/ Takes(t) \/ Keeps(t) \/ GivesUp(t)
<1>p. Shape
  <2>1. ASSUME NEW k \in Keys, NEW type \in Types, NEW d \in Dispatchers,
                 BeginCreate(t, k, d, type) PROVE Shape
    <3>1. Stays(t)
      BY <1>0, <2>1 DEF BeginCreate, Begin, At, task, step, bounds, hist, lists, locks, Stays, Working, ThreadTypes, TaskOf
    <3> QED
      BY <3>1
  <2>2. ASSUME NEW k \in Keys, NEW type \in Types, BeginReg(t, k, type) PROVE Shape
    <3>1. Stays(t)
      BY <1>0, <2>2 DEF BeginReg, Begin, At, task, step, bounds, hist, lists, locks, Stays, Working, ThreadTypes, TaskOf
    <3> QED
      BY <3>1
  <2>3. ASSUME NEW k \in Keys, BeginUnreg(t, k) PROVE Shape
    <3>1. Stays(t)
      BY <1>0, <2>3 DEF BeginUnreg, Begin, At, task, step, bounds, hist, lists, locks, Stays, Working, ThreadTypes, TaskOf
    <3> QED
      BY <3>1
  <2>4. ASSUME NextNetid(t) PROVE Shape
    <3>1. /\ pc[t] = "next" /\ Working(t)' /\ op'[t] = op[t] /\ UNCHANGED <<xprtlist, proglst>>
      BY <1>0, <2>4 DEF NextNetid, lists, task, Working, ThreadTypes
    <3> DEFINE n == Head(left[t])
    <3>2. CASE {x \in Kept(t) : x.net = n} = {} /\ TliCreate(t, n)
      <4>1. madenow'[t]
        BY <1>0, <2>4, <3>2 DEF NextNetid, ThreadTypes
      <4>2. xprt'[t] \notin open /\ open' = open \cup {xprt'[t]} /\ xprt'[t].net = n
        BY <1>0, <3>2 DEF TliCreate, ThreadTypes
      <4>3. \A x \in Kept(t) : x.net # xprt'[t].net
        BY <3>2, <4>2
      <4>4. Takes(t)
        BY <3>1, <4>1, <4>2, <4>3 DEF Takes
      <4> QED
        BY <4>4
    <3>3. CASE \E x \in {x \in Kept(t) : x.net = n} : xprt' = [xprt EXCEPT ![t] = x] /\ UNCHANGED open
      <4>1. ~madenow'[t]
        BY <1>0, <2>4, <3>3 DEF NextNetid, ThreadTypes
      <4>2. xprt'[t] \in Kept(t) /\ UNCHANGED open
        BY <1>0, <3>3 DEF ThreadTypes
      <4>4. Takes(t)
        BY <3>1, <4>1, <4>2 DEF Takes
      <4> QED
        BY <4>4
    <3> QED
      BY <2>4, <3>2, <3>3 DEF NextNetid
  <2>5. ASSUME CannotBind(t) PROVE Shape
    <3>1. Stays(t)
      BY <1>0, <2>5 DEF CannotBind, Fault, task, step, bounds, hist, lists, locks, Stays, Working, ThreadTypes, TaskOf
    <3> QED
      BY <3>1
  <2>6. ASSUME Unset(t) PROVE Shape
    <3>1. Stays(t)
      BY <1>0, <2>6 DEF Unset, Fault, task, step, bounds, hist, lists, locks, Stays, Working, ThreadTypes, TaskOf
    <3> QED
      BY <3>1
  <2>7. ASSUME Callout(t) PROVE Shape
    <3>1. Stays(t)
      BY <1>0, <2>7 DEF Callout, At, task, step, bounds, hist, lists, locks, Stays, Working, ThreadTypes, TaskOf
    <3> QED
      BY <3>1
  <2>8. ASSUME Set(t) PROVE Shape
    <3>1. Stays(t)
      BY <1>0, <2>8 DEF Set, Fault, task, step, bounds, hist, lists, locks, Stays, Working, ThreadTypes, TaskOf
    <3> QED
      BY <3>1
  <2>9. ASSUME Keep(t) PROVE Shape
    <3>1. /\ pc[t] = "registered" /\ ~Working(t)' /\ UNCHANGED open
          /\ op[t] \in {"create", "rpc_reg"} /\ xprt[t] \in Transports
      BY <1>0, <2>9 DEF Keep, At, ThreadTypes, TaskOf, Working, Registering
    <3>2. CASE op[t] = "create"
      <4>1. Keeps(t)
        BY <2>9, <3>1, <3>2 DEF Keep, Keeps
      <4> QED
        BY <4>1
    <3>3. CASE op[t] = "rpc_reg"
      <4>1. /\ proglst' = proglst \cup {[key |-> key[t], net |-> Net(t), port |-> xprt[t].port]}
            /\ UNCHANGED xprtlist
        BY <2>9, <3>3 DEF Keep
      <4>2. ProgKept' = ProgKept \cup {[net |-> Net(t), port |-> xprt[t].port]}
        <5> DEFINE p0 == [key |-> key[t], net |-> Net(t), port |-> xprt[t].port]
        <5>1. p0.net = Net(t) /\ p0.port = xprt[t].port /\ proglst' = proglst \cup {p0}
          BY <4>1
        <5> HIDE DEF p0
        <5>2. \A x : x \in ProgKept' <=> \E p \in proglst' : x = [net |-> p.net, port |-> p.port]
          BY DEF ProgKept
        <5>3. \A x : x \in ProgKept <=> \E p \in proglst : x = [net |-> p.net, port |-> p.port]
          BY DEF ProgKept
        <5>4. \A x : x \in ProgKept' <=> x \in ProgKept \cup {[net |-> p0.net, port |-> p0.port]}
          BY <5>1, <5>2, <5>3
        <5> QED
          BY <5>1, <5>4
      <4>3. xprt[t] = [net |-> Net(t), port |-> xprt[t].port]
        BY <3>1 DEF Transports, Net
      <4>4. Keeps(t)
        BY <3>1, <3>3, <4>1, <4>2, <4>3 DEF Keeps
      <4> QED
        BY <4>4
    <3> QED
      BY <3>1, <3>2, <3>3
  <2>10. ASSUME Drop(t) PROVE Shape
    <3>1. GivesUp(t)
      BY <1>0, <2>10 DEF Drop, At, GivesUp, Working, ThreadTypes, lists
    <3> QED
      BY <3>1
  <2>11. ASSUME Return(t) PROVE Shape
    <3>1. Stays(t)
      BY <1>0, <2>11 DEF Return, At, Ended, task, step, bounds, hist, lists, locks, Stays, Working, ThreadTypes, TaskOf
    <3> QED
      BY <3>1
  <2>12. ASSUME UnsetAll(t) PROVE Shape
    <3>1. Stays(t)
      BY <1>0, <2>12 DEF UnsetAll, At, Fault, task, step, bounds, hist, lists, locks, Stays, Working, ThreadTypes, TaskOf
    <3> QED
      BY <3>1
  <2>13. ASSUME RemoveCallouts(t) PROVE Shape
    <3>1. Stays(t)
      BY <1>0, <2>13 DEF RemoveCallouts, At, Ended, task, step, bounds, hist, lists, locks, Stays, Working, ThreadTypes, TaskOf
    <3> QED
      BY <3>1
  <2> QED
    BY <2>1, <2>2, <2>3, <2>4, <2>5, <2>6, <2>7, <2>8, <2>9, <2>10, <2>11, <2>12, <2>13 DEF StepOf, Begins, Run
<1> QED
  BY <1>p

LEMMA KeptStep ==
    ASSUME ThreadTypes, TasksInv, LocksInv, SharedTypes, KeptInv, NEW t \in Threads, StepOf(t)
    PROVE  KeptInv'
<1>0. ThreadTypes /\ TasksInv /\ LocksInv /\ KeptInv
  OBVIOUS
<1>1. \A u \in Threads \ {t} :
         pc'[u] = pc[u] /\ op'[u] = op[u] /\ xprt'[u] = xprt[u] /\ madenow'[u] = madenow[u]
  BY StepLeavesOthers DEF OthersStay
<1>2. \A u \in Threads : Kept(u) = IF op[u] = "create" THEN xprtlist ELSE ProgKept
  BY DEF Kept, ProgKept
<1>3. \A u \in Threads : (Kept(u) = IF op[u] = "create" THEN xprtlist ELSE ProgKept)'
  BY DEF Kept, ProgKept
<1>4. \A u \in Threads : Working(u) => op[u] \in {"create", "rpc_reg"} /\ ~Idle(u)
  BY <1>0 DEF TasksInv, TaskOf, Registering, Working, Idle
<1>5. \A u \in Threads \ {t} : Working(u) /\ Working(t) => op[u] # op[t]
  BY <1>0, <1>4 DEF LocksInv
<1>6. /\ xprtlist \subseteq open /\ ProgKept \subseteq open
      /\ OneEach(xprtlist) /\ OneEach(ProgKept)
      /\ \A u \in Threads : InHand(u)
  BY DEF KeptInv
<1>7. UNCHANGED proglst => UNCHANGED ProgKept
  BY DEF ProgKept
<1>a. CASE Stays(t)
  <2>1. UNCHANGED <<open, xprtlist, ProgKept>>
    BY <1>7, <1>a DEF Stays
  <2>2. \A u \in Threads : Working(u)' => /\ Working(u) /\ op'[u] = op[u] /\ xprt'[u] = xprt[u]
                                          /\ madenow'[u] = madenow[u]
    BY <1>1, <1>a DEF Stays, Working
  <2>3. \A u \in Threads : Working(u)' => Kept(u)' = Kept(u)
    BY <1>2, <1>3, <2>1, <2>2
  <2>4. ASSUME NEW u \in Threads PROVE InHand(u)'
    BY <1>6, <2>1, <2>2, <2>3 DEF InHand, Net
  <2> QED
    BY <1>6, <2>1, <2>4 DEF KeptInv, OneEach
<1>b. CASE Takes(t)
  <2>1. UNCHANGED <<xprtlist, ProgKept>> /\ open \subseteq open' /\ op'[t] = op[t]
    BY <1>7, <1>b DEF Takes
  <2>2. \A u \in Threads : Kept(u)' = Kept(u)
    BY <1>1, <1>2, <1>3, <2>1
  <2>3. Kept(t) \subseteq xprtlist \cup ProgKept
    BY <1>2
  <2>4. \A u \in Threads \ {t} : Working(u)' => Working(u)
    BY <1>1 DEF Working
  <2>5. InHand(t)'
    <3>1. xprt'[t] \in open'
      BY <1>6, <1>b, <2>3 DEF Takes
    <3>2. ASSUME madenow'[t]
          PROVE  /\ xprt'[t] \notin xprtlist' \cup ProgKept'
                 /\ \A x \in Kept(t)' : x.net # Net(t)'
                 /\ \A u \in Threads \ {t} : Working(u)' => xprt'[u] # xprt'[t]
      <4>1. xprt'[t] \notin open /\ \A x \in Kept(t) : x.net # xprt'[t].net
        BY <1>b, <3>2 DEF Takes
      <4>2. \A u \in Threads \ {t} : Working(u)' => xprt'[u] \in open
        BY <1>1, <1>6, <2>4 DEF InHand
      <4> QED
        BY <1>6, <2>1, <2>2, <4>1, <4>2 DEF Net
    <3>3. ~madenow'[t] => xprt'[t] \in Kept(t)'
      BY <1>b, <2>2 DEF Takes
    <3> QED
      BY <3>1, <3>2, <3>3 DEF InHand
  <2>6. ASSUME NEW u \in Threads \ {t} PROVE InHand(u)'
    <3>1. ASSUME Working(u), madenow[u] PROVE xprt'[t] # xprt[u]
      <4>1. xprt[u] \in open /\ xprt[u] \notin xprtlist \cup ProgKept
        BY <1>6, <3>1 DEF InHand
      <4> QED
        BY <1>b, <2>3, <4>1 DEF Takes
    <3>2. \A v \in Threads \ {t} : Working(v)' <=> Working(v)
      BY <1>1 DEF Working
    <3>3. ASSUME Working(u) PROVE InHand(u)'
      <4>1. /\ xprt[u] \in open
            /\ madenow[u] => /\ xprt[u] \notin xprtlist \cup ProgKept
                             /\ \A x \in Kept(u) : x.net # Net(u)
                             /\ \A v \in Threads \ {u} : Working(v) => xprt[v] # xprt[u]
            /\ ~madenow[u] => xprt[u] \in Kept(u)
        BY <1>6, <3>3 DEF InHand
      <4>2. Net(u)' = Net(u)
        BY <1>1 DEF Net
      <4>3. ASSUME madenow[u] PROVE \A v \in Threads \ {u} : Working(v)' => xprt'[v] # xprt'[u]
        BY <1>1, <3>1, <3>2, <3>3, <4>1, <4>3
      <4> QED
        BY <1>1, <2>1, <2>2, <4>1, <4>2, <4>3 DEF InHand
    <3> QED
      BY <3>2, <3>3 DEF InHand
  <2>7. \A u \in Threads : InHand(u)'
    BY <2>5, <2>6
  <2> QED
    BY <1>6, <2>1, <2>7 DEF KeptInv, OneEach
<1>c. CASE Keeps(t)
  <2>1. Working(t) /\ ~Working(t)' /\ open' = open /\ xprt[t] \in open /\ InHand(t)
    BY <1>6, <1>c DEF Keeps, Working, InHand
  <2>2. /\ op[t] = "create" => OneEach(xprtlist \cup {xprt[t]})
        /\ op[t] = "rpc_reg" => OneEach(ProgKept \cup {xprt[t]})
    <3>1. \/ xprt[t] \in Kept(t)
          \/ \A x \in Kept(t) : x.net # xprt[t].net
      BY <2>1, <1>0 DEF InHand, Net, ThreadTypes
    <3> QED
      BY <1>2, <1>6, <3>1 DEF OneEach
  <2>3. /\ xprtlist \cup ProgKept \subseteq xprtlist' \cup ProgKept'
        /\ xprtlist' \cup ProgKept' \subseteq xprtlist \cup ProgKept \cup {xprt[t]}
        /\ xprtlist' \subseteq open /\ ProgKept' \subseteq open
    BY <1>6, <1>7, <1>c, <2>1 DEF Keeps
  <2>4. OneEach(xprtlist') /\ OneEach(ProgKept')
    BY <1>6, <1>7, <1>c, <2>2 DEF Keeps
  <2>5. ASSUME NEW u \in Threads, Working(u)' PROVE InHand(u)'
    <3>1. u # t /\ Working(u) /\ op[u] # op[t] /\ op[u] \in {"create", "rpc_reg"}
      BY <1>1, <1>4, <1>5, <2>1, <2>5 DEF Working
    <3>2. Kept(u)' = Kept(u)
      BY <1>1, <1>2, <1>3, <1>7, <1>c, <3>1 DEF Keeps
    <3>3. /\ xprt[u] \in open
          /\ madenow[u] => /\ xprt[u] \notin xprtlist \cup ProgKept
                           /\ \A x \in Kept(u) : x.net # Net(u)
                           /\ \A v \in Threads \ {u} : Working(v) => xprt[v] # xprt[u]
          /\ ~madenow[u] => xprt[u] \in Kept(u)
      BY <1>6, <3>1 DEF InHand
    <3>4. Net(u)' = Net(u) /\ xprt'[u] = xprt[u] /\ madenow'[u] = madenow[u]
      BY <1>1, <3>1 DEF Net
    <3>5. ASSUME madenow[u]
          PROVE  /\ xprt'[u] \notin xprtlist' \cup ProgKept'
                 /\ \A v \in Threads \ {u} : Working(v)' => xprt'[v] # xprt'[u]
      <4>1. xprt[u] # xprt[t]
        BY <2>1, <3>1, <3>3, <3>5
      <4>2. \A v \in Threads \ {t} : Working(v)' => Working(v)
        BY <1>1 DEF Working
      <4>3. xprt'[u] \notin xprtlist' \cup ProgKept'
        BY <2>3, <3>3, <3>4, <3>5, <4>1
      <4>4. \A v \in Threads \ {u} : Working(v)' => xprt'[v] # xprt'[u]
        BY <1>1, <2>1, <3>3, <3>4, <3>5, <4>2
      <4> QED
        BY <4>3, <4>4
    <3> QED
      BY <2>1, <3>2, <3>3, <3>4, <3>5 DEF InHand
  <2>6. \A u \in Threads : InHand(u)'
    BY <2>5 DEF InHand
  <2> QED
    BY <2>1, <2>3, <2>4, <2>6 DEF KeptInv, OneEach
<1>d. CASE GivesUp(t)
  <2>1. Working(t) /\ ~Working(t)' /\ UNCHANGED <<xprtlist, ProgKept>>
    BY <1>7, <1>d DEF GivesUp, Working
  <2>2. \A x \in open : x # xprt[t] \/ ~madenow[t] => x \in open'
    BY <1>d DEF GivesUp
  <2>3. madenow[t] => /\ xprt[t] \notin xprtlist \cup ProgKept
                      /\ \A u \in Threads \ {t} : Working(u) => xprt[u] # xprt[t]
    BY <1>6, <2>1 DEF InHand
  <2>4. ASSUME NEW u \in Threads, Working(u)' PROVE InHand(u)'
    <3>1. u # t /\ Working(u)
      BY <1>1, <2>1, <2>4 DEF Working
    <3>2. Kept(u)' = Kept(u) /\ Net(u)' = Net(u) /\ xprt'[u] = xprt[u] /\ madenow'[u] = madenow[u]
      BY <1>1, <1>2, <1>3, <2>1, <3>1 DEF Net
    <3>3. /\ xprt[u] \in open
          /\ madenow[u] => /\ xprt[u] \notin xprtlist \cup ProgKept
                           /\ \A x \in Kept(u) : x.net # Net(u)
                           /\ \A v \in Threads \ {u} : Working(v) => xprt[v] # xprt[u]
          /\ ~madenow[u] => xprt[u] \in Kept(u)
      BY <1>6, <3>1 DEF InHand
    <3>4. xprt[u] \in open'
      BY <2>2, <2>3, <3>1, <3>3
    <3>5. \A v \in Threads : Working(v)' => Working(v) /\ xprt'[v] = xprt[v]
      BY <1>1, <2>1 DEF Working
    <3> QED
      BY <2>1, <3>2, <3>3, <3>4, <3>5 DEF InHand
  <2>5. \A u \in Threads : InHand(u)'
    BY <2>4 DEF InHand
  <2>6. xprtlist' \subseteq open' /\ ProgKept' \subseteq open'
    BY <1>6, <2>1, <2>2, <2>3
  <2> QED
    BY <1>6, <2>1, <2>5, <2>6 DEF KeptInv, OneEach
<1> QED
  BY <1>0, <1>a, <1>b, <1>c, <1>d, TransportSteps

-----------------------------------------------------------------------------
(* rpcbind and the process. *)

\* Every step but a mapping leaves rpcbind with no more than it had.
Frame ==
    /\ \A k \in Keys, n \in Netids : Served(k, n)' => Served(k, n) /\ Leads(k, n)' = Leads(k, n)
    /\ claims' \subseteq claims
    /\ \A c \in claims' : Leads(c.key, c.net)' = Leads(c.key, c.net)
Maps(t) ==
    /\ pc[t] = "set" /\ Granted(t) /\ MapIt(t) /\ UNCHANGED <<open, callouts, xprt, key, disp, life>>
    /\ spoilt'[t] = spoilt[t]
    /\ \/ /\ pc'[t] \in {"registered", "failed"}
          /\ excused' = excused \cup {<<key[t], Net(t)>>} /\ UNCHANGED claims
       \/ /\ pc'[t] = "registered" /\ ~spoilt[t]
          /\ excused' = excused \ {<<key[t], Net(t)>>} /\ claims' = claims \cup {NewCallout(t)}
LEMMA BinderSteps ==
    ASSUME ThreadTypes, TasksInv, SharedTypes, BinderInv, NEW t \in Threads, StepOf(t)
    PROVE  Frame \/ Maps(t)
<1>0. ThreadTypes /\ TaskOf(t) /\ UnregOf(t) /\ life # 0 /\ claims \subseteq Callouts
      /\ binder \in [Keys \X Netids -> [port : Ports \cup {0}, life : 0 .. life]]
  BY DEF TasksInv, SharedTypes, BinderInv, Callouts
<1>1. ASSUME UNCHANGED <<binder, excused, life>>, claims' \subseteq claims PROVE Frame
  BY <1>1 DEF Frame, Served, Leads
<1>2. Working(t) => <<key[t], Net(t)>> \in Keys \X Netids
  BY <1>0 DEF TaskOf, Registering, Transports, Net
<1>3. Unregistering(t) => key[t] \in Keys
  BY <1>0 DEF TaskOf
<1>4. \A c \in claims : c.key \in Keys /\ c.net \in Netids
  BY <1>0 DEF Callouts
<1> DEFINE Goal == Frame \/ Maps(t)
<1>p. Goal
  <2>1. ASSUME NEW k \in Keys, NEW type \in Types, NEW d \in Dispatchers,
                 BeginCreate(t, k, d, type) PROVE Goal
    <3>1. UNCHANGED <<binder, excused, life>> /\ claims' \subseteq claims
      BY <2>1 DEF BeginCreate, Begin, At
    <3> QED
      BY <1>1, <3>1
  <2>2. ASSUME NEW k \in Keys, NEW type \in Types, BeginReg(t, k, type) PROVE Goal
    <3>1. UNCHANGED <<binder, excused, life>> /\ claims' \subseteq claims
      BY <2>2 DEF BeginReg, Begin, At
    <3> QED
      BY <1>1, <3>1
  <2>3. ASSUME NEW k \in Keys, BeginUnreg(t, k) PROVE Goal
    <3>1. UNCHANGED <<binder, excused, life>> /\ claims' \subseteq claims
      BY <2>3 DEF BeginUnreg, Begin, At
    <3> QED
      BY <1>1, <3>1
  <2>4. ASSUME NextNetid(t) PROVE Goal
    <3>1. UNCHANGED <<binder, excused, life>> /\ claims' \subseteq claims
      BY <2>4 DEF NextNetid, TliCreate, hist, bounds
    <3> QED
      BY <1>1, <3>1
  <2>5. ASSUME CannotBind(t) PROVE Goal
    <3>1. UNCHANGED <<binder, excused, life>> /\ claims' \subseteq claims
      BY <2>5 DEF CannotBind, Fault, hist, bounds
    <3> QED
      BY <1>1, <3>1
  <2>6. ASSUME Unset(t) PROVE Goal
    <3>1. pc[t] = "unset" /\ UNCHANGED life
      BY <2>6 DEF Unset
    <3>2. CASE UNCHANGED <<binder, claims, excused>>
      BY <1>1, <3>1, <3>2
    <3>3. CASE /\ binder' = [binder EXCEPT ![<<key[t], Net(t)>>] = NoMapping]
               /\ claims' = {c \in claims : c.key # key[t] \/ c.net # Net(t)}
               /\ excused' = excused \ {<<key[t], Net(t)>>}
      <4>1. <<key[t], Net(t)>> \in Keys \X Netids
        BY <1>2, <3>1 DEF Working
      <4>2. \A k \in Keys, n \in Netids : binder'[<<k, n>>] =
               IF <<k, n>> = <<key[t], Net(t)>> THEN NoMapping ELSE binder[<<k, n>>]
        BY <1>0, <3>3, <4>1
      <4>3. \A k \in Keys, n \in Netids : Served(k, n)' => Served(k, n) /\ Leads(k, n)' = Leads(k, n)
        BY <1>0, <3>1, <3>3, <4>2 DEF Served, Leads, NoMapping
      <4>4. \A c \in claims' : Leads(c.key, c.net)' = Leads(c.key, c.net)
        BY <1>4, <3>3, <4>2 DEF Leads
      <4>5. Frame
        BY <3>3, <4>3, <4>4 DEF Frame
      <4> QED
        BY <4>5
    <3> QED
      BY <2>6, <3>2, <3>3 DEF Unset
  <2>7. ASSUME Callout(t) PROVE Goal
    <3>1. UNCHANGED <<binder, excused, life>> /\ claims' \subseteq claims
      BY <2>7 DEF Callout, At, hist, bounds
    <3> QED
      BY <1>1, <3>1
  <2>8. ASSUME Set(t) PROVE Goal
    <3>1. /\ pc[t] = "set" /\ UNCHANGED <<open, callouts, xprt, key, disp, life>>
          /\ spoilt'[t] = spoilt[t]
      BY <2>8 DEF Set, step, task
    <3>2. CASE UNCHANGED <<binder, claims, excused>>
      BY <1>1, <3>1, <3>2
    <3>3. CASE /\ Granted(t) /\ pc' = [pc EXCEPT ![t] = "registered"] /\ MapIt(t)
               /\ IF spoilt[t] THEN excused' = excused \cup {<<key[t], Net(t)>>} /\ UNCHANGED claims
                  ELSE /\ claims' = claims \cup {NewCallout(t)}
                       /\ excused' = excused \ {<<key[t], Net(t)>>}
      <4>1. pc'[t] = "registered"
        BY <1>0, <3>3 DEF ThreadTypes
      <4>2. Maps(t)
        BY <3>1, <3>3, <4>1 DEF Maps, NewCallout
      <4> QED
        BY <4>2
    <3>4. CASE /\ pc' = [pc EXCEPT ![t] = "failed"] /\ UNCHANGED claims
               /\ Granted(t) /\ MapIt(t) /\ excused' = excused \cup {<<key[t], Net(t)>>}
      <4>1. pc'[t] = "failed"
        BY <1>0, <3>4 DEF ThreadTypes
      <4>2. Maps(t)
        BY <3>1, <3>4, <4>1 DEF Maps
      <4> QED
        BY <4>2
    <3> QED
      BY <2>8, <3>2, <3>3, <3>4 DEF Set
  <2>9. ASSUME Keep(t) PROVE Goal
    <3>1. UNCHANGED <<binder, excused, life>> /\ claims' \subseteq claims
      BY <2>9 DEF Keep, At, Unlock, hist, bounds
    <3> QED
      BY <1>1, <3>1
  <2>10. ASSUME Drop(t) PROVE Goal
    <3>1. UNCHANGED <<binder, excused, life>> /\ claims' \subseteq claims
      BY <2>10 DEF Drop, At, Unlock, hist, bounds
    <3> QED
      BY <1>1, <3>1
  <2>11. ASSUME Return(t) PROVE Goal
    <3>1. UNCHANGED <<binder, excused, life>> /\ claims' \subseteq claims
      BY <2>11 DEF Return, At, Ended, hist, bounds
    <3> QED
      BY <1>1, <3>1
  <2>12. ASSUME UnsetAll(t) PROVE Goal
    <3>1. pc[t] = "unset_all" /\ UNCHANGED <<life, claims>>
      BY <2>12 DEF UnsetAll, At
    <3>2. CASE UNCHANGED binder /\ excused' = excused \cup ({key[t]} \X Netids)
      <4>1. Frame
        BY <3>1, <3>2 DEF Frame, Served, Leads
      <4> QED
        BY <4>1
    <3>3. CASE /\ binder' = [m \in Keys \X Netids |-> IF m[1] = key[t] THEN NoMapping ELSE binder[m]]
               /\ excused' = {e \in excused : e[1] # key[t]}
      <4>2. \A k \in Keys, n \in Netids : binder'[<<k, n>>] = IF k = key[t] THEN NoMapping ELSE binder[<<k, n>>]
        BY <3>3
      <4>3. \A k \in Keys, n \in Netids : Served(k, n)' => Served(k, n) /\ Leads(k, n)' = Leads(k, n)
        BY <1>0, <3>1, <3>3, <4>2 DEF Served, Leads, NoMapping
      <4>4. \A c \in claims' : Leads(c.key, c.net)' = Leads(c.key, c.net)
        <5>1. \A c \in claims : c.key # key[t]
          BY <1>0, <3>1 DEF UnregOf, Unregistering
        <5> QED
          BY <1>4, <3>1, <4>2, <5>1 DEF Leads
      <4>5. Frame
        BY <3>1, <4>3, <4>4 DEF Frame
      <4> QED
        BY <4>5
    <3> QED
      BY <2>12, <3>2, <3>3 DEF UnsetAll
  <2>13. ASSUME RemoveCallouts(t) PROVE Goal
    <3>1. UNCHANGED <<binder, excused, life>> /\ claims' \subseteq claims
      BY <2>13 DEF RemoveCallouts, At, Ended, hist, bounds
    <3> QED
      BY <1>1, <3>1
  <2> QED
    BY <2>1, <2>2, <2>3, <2>4, <2>5, <2>6, <2>7, <2>8, <2>9, <2>10, <2>11, <2>12, <2>13 DEF StepOf, Begins, Run
<1> QED
  BY <1>p

\* What a step does to the dispatching of programs.
LEMMA DispatcherStep ==
    ASSUME TasksInv, SharedTypes, OneCallout, NEW t \in Threads, StepOf(t)
    PROVE  \A k \in Keys, n \in Netids :
              /\ Dispatcher(k, n) \in Routines \cup {"none"}
              /\ Dispatcher(k, n)' \in Routines \cup {"none"}
              /\ Dispatcher(k, n) # "none" /\ (pc[t] = "remove" => k # key[t]) =>
                    Dispatcher(k, n)' = Dispatcher(k, n)
              /\ Dispatcher(k, n)' # Dispatcher(k, n) /\ Dispatcher(k, n)' # "none" =>
                    /\ pc[t] = "callout" /\ k = key[t] /\ n = Net(t)
                    /\ Dispatcher(k, n) = "none" /\ Dispatcher(k, n)' = disp[t]
<1>1. /\ callouts \in Seq(Callouts) /\ callouts' \in Seq(Callouts) /\ OneCallout'
      /\ \/ callouts' = callouts
         \/ /\ pc[t] = "callout" /\ Dispatcher(key[t], Net(t)) = "none"
            /\ Range(callouts') = Range(callouts) \cup {NewCallout(t)}
         \/ pc[t] = "remove" /\ Range(callouts') = {c \in Range(callouts) : c.key # key[t]}
  BY CalloutsStep DEF SharedTypes, Callouts
<1>2. DispatcherIsListed
  BY <1>1, ListedDispatcher
<1>3. DispatcherIsListed'
  <2>1. (callouts \in Seq(Callouts))' /\ OneCallout'
    BY <1>1 DEF Callouts
  <2> QED
    BY <2>1, ListedDispatcher, PTL
<1>4. "none" \notin Routines
  BY RegAssumption DEF Routines
<1> SUFFICES ASSUME NEW k \in Keys, NEW n \in Netids
             PROVE  /\ Dispatcher(k, n) \in Routines \cup {"none"}
                    /\ Dispatcher(k, n)' \in Routines \cup {"none"}
                    /\ Dispatcher(k, n) # "none" /\ (pc[t] = "remove" => k # key[t]) =>
                          Dispatcher(k, n)' = Dispatcher(k, n)
                    /\ Dispatcher(k, n)' # Dispatcher(k, n) /\ Dispatcher(k, n)' # "none" =>
                          /\ pc[t] = "callout" /\ k = key[t] /\ n = Net(t)
                          /\ Dispatcher(k, n) = "none" /\ Dispatcher(k, n)' = disp[t]
  OBVIOUS
<1> DEFINE now == Dispatcher(k, n)
           then == Dispatcher(k, n)'
           c(d) == [key |-> k, net |-> n, disp |-> d]
<1>5. /\ now \in Routines \cup {"none"} /\ then \in Routines \cup {"none"}
      /\ \A d \in Routines : now = d <=> c(d) \in Range(callouts)
      /\ \A d \in Routines : then = d <=> c(d) \in Range(callouts')
  <2>1. /\ Dispatcher(k, n)' \in Routines \cup {"none"}
        /\ \A d \in Routines :
              Dispatcher(k, n)' = d <=> [key |-> k, net |-> n, disp |-> d] \in Range(callouts')
    BY <1>3 DEF DispatcherIsListed, Routines, Netids
  <2> QED
    BY <1>2, <2>1 DEF DispatcherIsListed
<1>6. CASE callouts' = callouts
  BY <1>5, <1>6
<1>7. CASE /\ pc[t] = "callout" /\ Dispatcher(key[t], Net(t)) = "none"
           /\ Range(callouts') = Range(callouts) \cup {NewCallout(t)}
  <2>1. \A d \in Routines : c(d) = NewCallout(t) => k = key[t] /\ n = Net(t) /\ d = disp[t]
    BY DEF NewCallout
  <2>2. now # "none" => then = now
    BY <1>5, <1>7
  <2>3. ASSUME then # now, then # "none"
        PROVE  k = key[t] /\ n = Net(t) /\ then = disp[t] /\ now = "none"
    <3>1. then \in Routines /\ c(then) \in Range(callouts') /\ c(then) \notin Range(callouts)
      BY <1>5, <2>3
    <3>2. c(then) = NewCallout(t)
      BY <1>7, <3>1
    <3> QED
      BY <1>7, <2>1, <2>2, <2>3, <3>1, <3>2
  <2> QED
    BY <1>5, <1>7, <2>2, <2>3
<1>8. CASE pc[t] = "remove" /\ Range(callouts') = {e \in Range(callouts) : e.key # key[t]}
  <2>1. \A d \in Routines : c(d).key = k
    OBVIOUS
  <2>2. k # key[t] => \A d \in Routines : c(d) \in Range(callouts') <=> c(d) \in Range(callouts)
    BY <1>8, <2>1
  <2>3. \A d \in Routines : c(d) \in Range(callouts') => c(d) \in Range(callouts)
    BY <1>8
  <2> HIDE DEF now, then, c
  <2>4. now # "none" /\ k # key[t] => then = now
    BY <1>5, <2>2
  <2>5. then # now => then = "none"
    BY <1>5, <2>3
  <2> QED
    BY <1>5, <1>8, <2>4, <2>5 DEF now, then
<1> QED
  BY <1>1, <1>6, <1>7, <1>8

LEMMA CalloutRegisters ==
    ASSUME ThreadTypes, TasksInv, SharedTypes, OneCallout, NEW t \in Threads, Callout(t),
           pc'[t] # "failed"
    PROVE  \A k \in Keys, n \in Netids : k = key[t] /\ n = Net(t) => Dispatcher(k, n)' = disp[t]
<1> SUFFICES ASSUME NEW k \in Keys, NEW n \in Netids, k = key[t], n = Net(t)
             PROVE  Dispatcher(k, n)' = disp[t]
  OBVIOUS
<1>0. StepOf(t)
  BY DEF StepOf, Run
<1>1. pc[t] = "callout" /\ disp[t] \in Routines /\ key[t] \in Keys /\ Net(t) \in Netids
  <2>1. pc[t] = "callout"
    BY DEF Callout, At
  <2> QED
    BY <2>1 DEF TasksInv, TaskOf, Registering, Working, Transports, Net
<1>2. "none" \notin Routines
  BY RegAssumption DEF Routines
<1>3. CASE Dispatcher(k, n) = disp[t]
  BY <1>0, <1>1, <1>2, <1>3, DispatcherStep
<1>4. CASE callouts' = <<NewCallout(t)>> \o callouts
  <2>1. callouts \in Seq(Callouts) /\ NewCallout(t) \in Callouts
    BY <1>1 DEF SharedTypes, Callouts, NewCallout
  <2>2. Range(callouts') = Range(callouts) \cup {NewCallout(t)}
    BY <1>4, <2>1, LinkFacts
  <2>3. (callouts \in Seq(Callouts))' /\ OneCallout'
    <3>1. callouts \in Seq(Callouts)
      BY <2>1
    <3>2. callouts' \in Seq(Callouts) /\ OneCallout'
      BY <1>0, <3>1, CalloutsStep
    <3> QED
      BY <3>2 DEF Callouts, Routines, Netids
  <2>4. DispatcherIsListed'
    BY <2>3, ListedDispatcher, PTL
  <2>5. [key |-> k, net |-> n, disp |-> disp[t]] \in Range(callouts')
    BY <2>2 DEF NewCallout
  <2> QED
    BY <1>1, <2>4, <2>5 DEF DispatcherIsListed, Routines, Netids
<1>5. Dispatcher(k, n) = disp[t] \/ callouts' = <<NewCallout(t)>> \o callouts
  <2> DEFINE d == Dispatcher(key[t], Net(t))
  <2>1. \/ callouts' = <<NewCallout(t)>> \o callouts
        \/ d = disp[t]
        \/ pc' = [pc EXCEPT ![t] = "failed"]
    BY DEF Callout, At, NewCallout
  <2> QED
    BY <2>1 DEF ThreadTypes
<1> QED
  BY <1>3, <1>4, <1>5

\* Where a step leaves the thread, as far as the mappings are concerned.
Follows(t) ==
    /\ pc[t] = "registered" => ~Working(t)'
    /\ pc'[t] = "set" =>
          /\ pc[t] = "callout" /\ key'[t] = key[t] /\ xprt'[t] = xprt[t] /\ disp'[t] = disp[t]
          /\ \A k \in Keys, n \in Netids : k = key[t] /\ n = Net(t) => Dispatcher(k, n)' = disp[t]
    /\ Registering(t)' =>
          \/ Registering(t) /\ key'[t] = key[t] /\ spoilt'[t] = spoilt[t]
          \/ \A u \in Threads \ {t} : Unregistering(u) /\ key[u] = key'[t] => spoilt'[t]
    /\ Unregistering(t)' =>
          \/ /\ pc[t] = "unset_all" /\ key'[t] = key[t] /\ claims' = claims
             /\ \A n \in Netids : ~Served(key[t], n)'
          \/ /\ pc'[t] = "unset_all" /\ \A c \in claims' : c.key # key'[t]
             /\ \A u \in Threads \ {t} : Registering(u) /\ key[u] = key'[t] => spoilt'[u]
LEMMA ThreadFollows ==
    ASSUME ThreadTypes, TasksInv, SharedTypes, OneCallout, NEW t \in Threads, StepOf(t)
    PROVE  Follows(t)
<1>0. /\ ThreadTypes /\ TaskOf(t) /\ life # 0
      /\ binder \in [Keys \X Netids -> [port : Ports \cup {0}, life : 0 .. life]]
      /\ \A u \in Threads : Unregistering(u) => op[u] = "unreg" /\ ~Idle(u)
      /\ \A u \in Threads : Registering(u) => ~Idle(u)
  BY DEF TasksInv, TaskOf, SharedTypes, Registering, Unregistering, Working, Idle
<1>p. Follows(t)
  <2>1. ASSUME NEW k \in Keys, NEW type \in Types, NEW d \in Dispatchers,
                 BeginCreate(t, k, d, type) PROVE Follows(t)
    <3>1. /\ pc'[t] = "next" /\ key'[t] = k /\ pc[t] = "idle"
      BY <1>0, <2>1 DEF BeginCreate, Begin, At, ThreadTypes
    <3>2. spoilt'[t] = OverlapsUnreg(t, k)
      BY <1>0, <2>1 DEF BeginCreate, Begin, At, ThreadTypes
    <3>3. \A u \in Threads \ {t} : Unregistering(u) /\ key[u] = k => spoilt'[t]
      BY <1>0, <3>2 DEF OverlapsUnreg
    <3> QED
      BY <3>1, <3>3 DEF Follows, Registering, Unregistering, Working
  <2>2. ASSUME NEW k \in Keys, NEW type \in Types, BeginReg(t, k, type) PROVE Follows(t)
    <3>1. /\ pc'[t] = "next" /\ key'[t] = k /\ pc[t] = "idle"
      BY <1>0, <2>2 DEF BeginReg, Begin, At, ThreadTypes
    <3>2. spoilt'[t] = OverlapsUnreg(t, k)
      BY <1>0, <2>2 DEF BeginReg, Begin, At, ThreadTypes
    <3>3. \A u \in Threads \ {t} : Unregistering(u) /\ key[u] = k => spoilt'[t]
      BY <1>0, <3>2 DEF OverlapsUnreg
    <3> QED
      BY <3>1, <3>3 DEF Follows, Registering, Unregistering, Working
  <2>3. ASSUME NEW k \in Keys, BeginUnreg(t, k) PROVE Follows(t)
    <3>1. /\ pc'[t] = "unset_all" /\ key'[t] = k /\ pc[t] = "idle"
          /\ claims' = {c \in claims : c.key # k}
          /\ spoilt' = [u \in Threads |-> spoilt[u] \/ (~Idle(u) /\ key[u] = k)]
      BY <1>0, <2>3 DEF BeginUnreg, Begin, At, ThreadTypes
    <3>2. \A u \in Threads \ {t} : Registering(u) /\ key[u] = k => spoilt'[u]
      BY <1>0, <3>1
    <3> QED
      BY <3>1, <3>2 DEF Follows, Registering, Unregistering, Working
  <2>4. ASSUME NextNetid(t) PROVE Follows(t)
    <3>1. /\ pc[t] = "next" /\ pc'[t] \in {"callout", "unset"}
          /\ UNCHANGED <<op, key, disp, spoilt>>
      BY <1>0, <2>4 DEF NextNetid, task, step, hist, bounds, ThreadTypes
    <3> QED
      BY <3>1 DEF Follows, Registering, Unregistering, Working
  <2>5. ASSUME CannotBind(t) PROVE Follows(t)
    <3>1. /\ pc[t] = "next" /\ pc'[t] = "next"
          /\ UNCHANGED <<op, key, disp, spoilt>>
      BY <1>0, <2>5 DEF CannotBind, task, step, hist, bounds, ThreadTypes
    <3> QED
      BY <3>1 DEF Follows, Registering, Unregistering, Working
  <2>6. ASSUME Unset(t) PROVE Follows(t)
    <3>1. /\ pc[t] = "unset" /\ pc'[t] = "callout"
          /\ UNCHANGED <<op, key, disp, spoilt>>
      BY <1>0, <2>6 DEF Unset, task, step, hist, bounds, ThreadTypes
    <3> QED
      BY <3>1 DEF Follows, Registering, Unregistering, Working
  <2>7. ASSUME Callout(t) PROVE Follows(t)
    <3>1. /\ pc[t] = "callout" /\ pc'[t] \in {"registered", "set", "failed"}
          /\ UNCHANGED <<op, key, disp, spoilt, xprt>>
      BY <1>0, <2>7 DEF Callout, At, task, step, hist, ThreadTypes
    <3>2. pc'[t] = "set" =>
             \A k \in Keys, n \in Netids : k = key[t] /\ n = Net(t) => Dispatcher(k, n)' = disp[t]
      BY <2>7, CalloutRegisters
    <3> QED
      BY <3>1, <3>2 DEF Follows, Registering, Unregistering, Working
  <2>8. ASSUME Set(t) PROVE Follows(t)
    <3>1. /\ pc[t] = "set" /\ pc'[t] \in {"registered", "failed"}
          /\ UNCHANGED <<op, key, disp, spoilt>>
      BY <1>0, <2>8 DEF Set, task, step, hist, bounds, ThreadTypes
    <3> QED
      BY <3>1 DEF Follows, Registering, Unregistering, Working
  <2>9. ASSUME Keep(t) PROVE Follows(t)
    <3>1. /\ pc[t] = "registered" /\ pc'[t] = "next"
          /\ UNCHANGED <<op, key, disp, spoilt>>
      BY <1>0, <2>9 DEF Keep, At, task, step, hist, bounds, ThreadTypes
    <3> QED
      BY <3>1 DEF Follows, Registering, Unregistering, Working
  <2>10. ASSUME Drop(t) PROVE Follows(t)
    <3>1. /\ pc[t] = "failed" /\ pc'[t] = "next"
          /\ UNCHANGED <<op, key, disp, spoilt>>
      BY <1>0, <2>10 DEF Drop, At, task, step, hist, bounds, ThreadTypes
    <3> QED
      BY <3>1 DEF Follows, Registering, Unregistering, Working
  <2>11. ASSUME Return(t) PROVE Follows(t)
    <3>1. pc[t] \in {"next", "remove"} /\ pc'[t] = "idle"
      BY <1>0, <2>11 DEF Return, At, ThreadTypes
    <3> QED
      BY <3>1 DEF Follows, Registering, Unregistering, Working
  <2>12. ASSUME UnsetAll(t) PROVE Follows(t)
    <3>1. /\ pc[t] = "unset_all" /\ pc'[t] = "remove" /\ key[t] \in Keys
          /\ UNCHANGED <<op, key, disp, spoilt, claims, life>>
      BY <1>0, <2>12 DEF UnsetAll, At, task, step, ThreadTypes, TaskOf, Unregistering
    <3>2. \A n \in Netids : ~Served(key[t], n)'
      <4>1. CASE excused' = excused \cup ({key[t]} \X Netids)
        BY <3>1, <4>1 DEF Served
      <4>2. CASE binder' = [m \in Keys \X Netids |-> IF m[1] = key[t] THEN NoMapping ELSE binder[m]]
        <5>1. \A n \in Netids : binder'[<<key[t], n>>] = NoMapping
          BY <3>1, <4>2
        <5> QED
          BY <1>0, <3>1, <5>1 DEF Served, NoMapping
      <4> QED
        BY <2>12, <4>1, <4>2 DEF UnsetAll
    <3> QED
      BY <3>1, <3>2 DEF Follows, Registering, Unregistering, Working
  <2>13. ASSUME RemoveCallouts(t) PROVE Follows(t)
    <3>1. pc[t] \in {"next", "remove"} /\ pc'[t] = "idle"
      BY <1>0, <2>13 DEF RemoveCallouts, At, ThreadTypes
    <3> QED
      BY <3>1 DEF Follows, Registering, Unregistering, Working
  <2> QED
    BY <2>1, <2>2, <2>3, <2>4, <2>5, <2>6, <2>7, <2>8, <2>9, <2>10, <2>11, <2>12, <2>13 DEF StepOf, Begins, Run
<1> QED
  BY <1>p

LEMMA FrameBinder ==
    ASSUME ThreadTypes, TasksInv, LocksInv, SharedTypes, KeptInv, OneCallout, BinderInv,
           NEW t \in Threads, StepOf(t), Frame
    PROVE  BinderInv'
<1>0. /\ ThreadTypes /\ AskedIsInEffect /\ MappingsAreServed /\ claims \subseteq Callouts
      /\ \A u \in Threads : NewXprt(u) /\ CalledOut(u) /\ UnregOf(u)
      /\ \A u \in Threads : TaskOf(u)
  BY DEF BinderInv, SharedTypes, Callouts, TasksInv
<1>1. /\ \A k \in Keys, n \in Netids : Served(k, n)' => Served(k, n) /\ Leads(k, n)' = Leads(k, n)
      /\ claims' \subseteq claims
      /\ \A c \in claims' : Leads(c.key, c.net)' = Leads(c.key, c.net)
  BY DEF Frame
<1>2. \A c \in claims : c.key \in Keys /\ c.net \in Netids /\ c.disp \in Routines
  BY <1>0 DEF Callouts
<1>3. OthersStay(t) /\ Follows(t)
  BY StepLeavesOthers, ThreadFollows
<1>4. \A k \in Keys, n \in Netids :
         Dispatcher(k, n) # "none" /\ (pc[t] = "remove" => k # key[t]) =>
            Dispatcher(k, n)' = Dispatcher(k, n)
  BY DispatcherStep
<1>5. "none" \notin Routines
  BY RegAssumption DEF Routines
<1>6. \A x \in open : x \in open' \/ (pc[t] = "failed" /\ madenow[t] /\ x = xprt[t])
  BY TransportSteps DEF Stays, Takes, Keeps, GivesUp
<1>7. pc[t] = "failed" /\ madenow[t] =>
         /\ \A c \in claims : Leads(c.key, c.net) # xprt[t]
         /\ \A k \in Keys, n \in Netids : Served(k, n) => Leads(k, n) # xprt[t]
  BY <1>0 DEF NewXprt, Working
<1>8. pc[t] = "remove" => /\ \A c \in claims : c.key # key[t]
                          /\ \A n \in Netids : ~Served(key[t], n)
                          /\ \A u \in Threads : Registering(u) /\ key[u] = key[t] => spoilt[u]
  BY <1>0 DEF UnregOf, Unregistering
<1>9. \A c \in claims : Leads(c.key, c.net) \in open /\ Dispatcher(c.key, c.net) = c.disp
  BY <1>0 DEF AskedIsInEffect, Leads
<1>10. \A k \in Keys, n \in Netids : Served(k, n) => Leads(k, n) \in open /\ Dispatcher(k, n) # "none"
  BY <1>0 DEF MappingsAreServed, Served, Leads
<1>a. AskedIsInEffect'
  <2>1. ASSUME NEW c \in claims'
        PROVE  Leads(c.key, c.net)' \in open' /\ Dispatcher(c.key, c.net)' = c.disp
    <3>1. c \in claims /\ Leads(c.key, c.net)' = Leads(c.key, c.net)
      BY <1>1
    <3>2. Leads(c.key, c.net) \in open' /\ c.key \in Keys /\ c.net \in Netids /\ c.disp \in Routines
      BY <1>2, <1>6, <1>7, <1>9, <3>1
    <3>3. Dispatcher(c.key, c.net) = c.disp /\ (pc[t] = "remove" => c.key # key[t])
      BY <1>8, <1>9, <3>1
    <3>4. Dispatcher(c.key, c.net)' = Dispatcher(c.key, c.net)
      BY <1>4, <1>5, <3>2, <3>3
    <3> QED
      BY <3>1, <3>2, <3>3, <3>4
  <2> QED
    BY <2>1 DEF AskedIsInEffect, Leads
<1>b. MappingsAreServed'
  <2>1. ASSUME NEW k \in Keys, NEW n \in Netids, Served(k, n)'
        PROVE  Leads(k, n)' \in open' /\ Dispatcher(k, n)' # "none"
    <3>1. Served(k, n) /\ Leads(k, n)' = Leads(k, n)
      BY <1>1, <2>1
    <3>2. Leads(k, n) \in open'
      BY <1>6, <1>7, <1>10, <3>1
    <3>3. pc[t] = "remove" => k # key[t]
      BY <1>8, <3>1
    <3> QED
      BY <1>4, <1>10, <3>1, <3>2, <3>3
  <2> QED
    BY <2>1 DEF MappingsAreServed, Served, Leads
<1>c. ASSUME NEW u \in Threads PROVE NewXprt(u)'
  <2> SUFFICES ASSUME Working(u)', madenow'[u], pc'[u] # "registered"
               PROVE  /\ \A c \in claims' : Leads(c.key, c.net)' # xprt'[u]
                      /\ \A k \in Keys, n \in Netids : Served(k, n)' => Leads(k, n)' # xprt'[u]
    BY DEF NewXprt
  <2>1. CASE Working(u) /\ madenow[u] /\ pc[u] # "registered" /\ xprt'[u] = xprt[u]
    <3>1. /\ \A c \in claims : Leads(c.key, c.net) # xprt[u]
          /\ \A k \in Keys, n \in Netids : Served(k, n) => Leads(k, n) # xprt[u]
      BY <1>0, <2>1 DEF NewXprt
    <3> QED
      BY <1>1, <2>1, <3>1
  <2>2. CASE xprt'[u] \notin open
    BY <1>1, <1>9, <1>10, <2>2
  <2>3. CASE u # t
    <3>1. pc'[u] = pc[u] /\ madenow'[u] = madenow[u] /\ xprt'[u] = xprt[u]
      BY <1>3, <2>3 DEF OthersStay
    <3> QED
      BY <2>1, <3>1 DEF Working
  <2>4. CASE u = t
    <3>1. Stays(t) \/ Takes(t)
      BY <2>4, TransportSteps DEF Keeps, GivesUp
    <3>2. CASE Stays(t)
      BY <1>3, <2>1, <2>4, <3>2 DEF Stays, Follows
    <3>3. CASE Takes(t)
      BY <2>2, <2>4, <3>3 DEF Takes
    <3> QED
      BY <3>1, <3>2, <3>3
  <2> QED
    BY <2>3, <2>4
<1>d. ASSUME NEW u \in Threads PROVE CalledOut(u)'
  <2> SUFFICES ASSUME pc'[u] = "set", ~spoilt'[u]
               PROVE  (Dispatcher(key[u], Net(u)) = disp[u])'
    BY DEF CalledOut
  <2>1. CASE u # t
    <3>1. /\ pc'[u] = pc[u] /\ key'[u] = key[u] /\ xprt'[u] = xprt[u] /\ disp'[u] = disp[u]
          /\ spoilt[u] => spoilt'[u]
      BY <1>3, <2>1 DEF OthersStay
    <3>2. pc[u] = "set" /\ ~spoilt[u]
      BY <3>1
    <3>3. key[u] \in Keys /\ Net(u) \in Netids /\ disp[u] \in Routines /\ Registering(u)
      BY <1>0, <3>2 DEF TaskOf, Registering, Working, Transports, Net
    <3>4. Dispatcher(key[u], Net(u)) = disp[u]
      BY <1>0, <3>2 DEF CalledOut
    <3>5. pc[t] = "remove" => key[u] # key[t]
      BY <1>8, <3>2, <3>3
    <3>6. \A k \in Keys, n \in Netids : k = key[u] /\ n = Net(u) => Dispatcher(k, n)' = disp[u]
      BY <1>4, <1>5, <3>3, <3>4, <3>5
    <3>7. PICK k \in Keys, n \in Netids : k = key[u] /\ n = Net(u)
      BY <3>3
    <3>8. Dispatcher(k, n)' = disp[u]
      BY <3>6, <3>7
    <3>9. k = key'[u] /\ n = Net(u)'
      BY <3>1, <3>7 DEF Net
    <3> QED
      BY <3>1, <3>8, <3>9
  <2>2. CASE u = t
    <3>1. /\ pc[t] = "callout" /\ key'[t] = key[t] /\ xprt'[t] = xprt[t] /\ disp'[t] = disp[t]
          /\ \A k \in Keys, n \in Netids : k = key[t] /\ n = Net(t) => Dispatcher(k, n)' = disp[t]
      BY <1>3, <2>2 DEF Follows
    <3>2. key[t] \in Keys /\ Net(t) \in Netids
      BY <1>0, <3>1 DEF TaskOf, Registering, Working, Transports, Net
    <3>3. PICK k \in Keys, n \in Netids : k = key[t] /\ n = Net(t)
      BY <3>2
    <3>4. Dispatcher(k, n)' = disp[t]
      BY <3>1, <3>3
    <3>5. k = key'[t] /\ n = Net(t)'
      BY <3>1, <3>3 DEF Net
    <3> QED
      BY <2>2, <3>1, <3>4, <3>5
  <2> QED
    BY <2>1, <2>2
<1>e. ASSUME NEW u \in Threads PROVE UnregOf(u)'
  <2>1. \A v \in Threads \ {t} :
           /\ pc'[v] = pc[v] /\ key'[v] = key[v] /\ (spoilt[v] => spoilt'[v])
           /\ (Unregistering(v)' <=> Unregistering(v)) /\ (Registering(v)' <=> Registering(v))
    BY <1>3 DEF OthersStay, Registering, Unregistering, Working
  <2>2. CASE u # t
    <3> SUFFICES ASSUME Unregistering(u)
                 PROVE  /\ \A c \in claims' : c.key # key[u]
                        /\ \A v \in Threads : Registering(v)' /\ key'[v] = key[u] => spoilt'[v]
                        /\ pc[u] = "remove" => \A n \in Netids : ~Served(key[u], n)'
      <4>1. Unregistering(u)' <=> Unregistering(u)
        BY <2>1, <2>2
      <4>2. pc'[u] = pc[u] /\ key'[u] = key[u]
        BY <2>1, <2>2
      <4>3. ASSUME \A n \in Netids : ~Served(key[u], n)'
            PROVE  \A n \in Netids : (~Served(key[u], n))'
        BY <4>2, <4>3 DEF Served
      <4> QED
        BY <2>2, <4>1, <4>2, <4>3 DEF UnregOf, Unregistering
    <3>1. /\ \A c \in claims : c.key # key[u]
          /\ \A v \in Threads : Registering(v) /\ key[v] = key[u] => spoilt[v]
          /\ pc[u] = "remove" => \A n \in Netids : ~Served(key[u], n)
      BY <1>0 DEF UnregOf
    <3>2. key[u] \in Keys
      BY <1>0 DEF TaskOf
    <3>3. ASSUME Registering(t)', key'[t] = key[u] PROVE spoilt'[t]
      <4>1. \/ Registering(t) /\ key'[t] = key[t] /\ spoilt'[t] = spoilt[t]
            \/ \A v \in Threads \ {t} : Unregistering(v) /\ key[v] = key'[t] => spoilt'[t]
        BY <1>3, <3>3 DEF Follows
      <4> QED
        BY <2>2, <3>1, <3>3, <4>1
    <3>4. \A v \in Threads : Registering(v)' /\ key'[v] = key[u] => spoilt'[v]
      BY <2>1, <3>1, <3>3
    <3>5. PICK k \in Keys : k = key[u]
      BY <3>2
    <3>6. pc[u] = "remove" => \A n \in Netids : ~Served(k, n)'
      BY <1>1, <3>1, <3>5
    <3>7. key'[u] = k
      BY <2>1, <2>2, <3>5
    <3>8. pc[u] = "remove" => \A n \in Netids : ~Served(key[u], n)'
      BY <3>6, <3>7 DEF Served
    <3> QED
      BY <1>1, <3>1, <3>4, <3>8
  <2>3. CASE u = t
    <3>1. ASSUME Unregistering(t)'
          PROVE  \/ /\ pc[t] = "unset_all" /\ key'[t] = key[t] /\ claims' = claims
                    /\ \A n \in Netids : ~Served(key[t], n)'
                 \/ /\ pc'[t] = "unset_all" /\ \A c \in claims' : c.key # key'[t]
                    /\ \A v \in Threads \ {t} : Registering(v) /\ key[v] = key'[t] => spoilt'[v]
      BY <1>3, <3>1 DEF Follows
    <3>2. Unregistering(t)' => ~Registering(t)'
      BY DEF Unregistering, Registering, Working
    <3>3. CASE /\ pc[t] = "unset_all" /\ key'[t] = key[t] /\ claims' = claims
               /\ \A n \in Netids : ~Served(key[t], n)'
      <4>1. /\ \A c \in claims : c.key # key[t]
            /\ \A v \in Threads : Registering(v) /\ key[v] = key[t] => spoilt[v]
        BY <1>0, <3>3 DEF UnregOf, Unregistering
      <4>2. \A n \in Netids : (~Served(key[t], n))'
        BY <3>3 DEF Served
      <4>3. Unregistering(t)' =>
               \A v \in Threads : Registering(v)' /\ key'[v] = key'[t] => spoilt'[v]
        BY <2>1, <3>2, <3>3, <4>1
      <4> QED
        BY <2>3, <3>3, <4>1, <4>2, <4>3 DEF UnregOf
    <3>4. CASE /\ pc'[t] = "unset_all" /\ \A c \in claims' : c.key # key'[t]
               /\ \A v \in Threads \ {t} : Registering(v) /\ key[v] = key'[t] => spoilt'[v]
      <4>1. Unregistering(t)' =>
               \A v \in Threads : Registering(v)' /\ key'[v] = key'[t] => spoilt'[v]
        BY <2>1, <3>2, <3>4
      <4> QED
        BY <2>3, <3>4, <4>1 DEF UnregOf
    <3>5. CASE ~Unregistering(t)'
      BY <2>3, <3>5 DEF UnregOf, Unregistering
    <3> QED
      BY <3>1, <3>3, <3>4, <3>5
  <2> QED
    BY <2>2, <2>3
<1> QED
  BY <1>a, <1>b, <1>c, <1>d, <1>e DEF BinderInv

LEMMA MapsBinder ==
    ASSUME ThreadTypes, TasksInv, LocksInv, SharedTypes, KeptInv, OneCallout, BinderInv,
           NEW t \in Threads, StepOf(t), Maps(t)
    PROVE  BinderInv'
<1>0. /\ ThreadTypes /\ AskedIsInEffect /\ MappingsAreServed /\ claims \subseteq Callouts
      /\ \A u \in Threads : NewXprt(u) /\ CalledOut(u) /\ UnregOf(u)
      /\ \A u \in Threads : TaskOf(u) /\ InHand(u)
      /\ open \subseteq Transports
      /\ binder \in [Keys \X Netids -> [port : Ports \cup {0}, life : 0 .. life]]
  BY DEF BinderInv, SharedTypes, Callouts, TasksInv, KeptInv
<1>1. /\ pc[t] = "set" /\ Granted(t) /\ MapIt(t) /\ UNCHANGED <<open, callouts, xprt, key, disp, life>>
      /\ spoilt'[t] = spoilt[t]
      /\ \/ /\ pc'[t] \in {"registered", "failed"}
            /\ excused' = excused \cup {<<key[t], Net(t)>>} /\ UNCHANGED claims
         \/ /\ pc'[t] = "registered" /\ ~spoilt[t]
            /\ excused' = excused \ {<<key[t], Net(t)>>} /\ claims' = claims \cup {NewCallout(t)}
  BY DEF Maps
<1>2. \A c \in claims : c.key \in Keys /\ c.net \in Netids /\ c.disp \in Routines
  BY <1>0 DEF Callouts
<1>3. OthersStay(t)
  BY StepLeavesOthers
<1>4. /\ key[t] \in Keys /\ Net(t) \in Netids /\ disp[t] \in Routines
      /\ xprt[t] = [net |-> Net(t), port |-> xprt[t].port] /\ xprt[t] \in open
      /\ Registering(t) /\ Working(t) /\ ~Unregistering(t) /\ ~Unregistering(t)'
  BY <1>0, <1>1 DEF TaskOf, InHand, Registering, Working, Unregistering, Transports, Net
<1>5. PICK k0 \in Keys, n0 \in Netids : k0 = key[t] /\ n0 = Net(t)
  BY <1>4
<1>6. \A k \in Keys, n \in Netids :
         /\ Leads(k, n)' = IF k = k0 /\ n = n0 THEN xprt[t] ELSE Leads(k, n)
         /\ (k # k0 \/ n # n0) /\ Served(k, n)' => Served(k, n)
         /\ Dispatcher(k, n)' = Dispatcher(k, n)
  <2>1. \A k \in Keys, n \in Netids :
           binder'[<<k, n>>] = IF k = k0 /\ n = n0 THEN [port |-> xprt[t].port, life |-> life]
                               ELSE binder[<<k, n>>]
    BY <1>0, <1>1, <1>5 DEF MapIt
  <2>2. \A k \in Keys, n \in Netids : Leads(k, n)' = IF k = k0 /\ n = n0 THEN xprt[t] ELSE Leads(k, n)
    BY <1>4, <1>5, <2>1 DEF Leads
  <2>3. \A k \in Keys, n \in Netids : (k # k0 \/ n # n0) /\ Served(k, n)' => Served(k, n)
    BY <1>1, <1>5, <2>1 DEF Served
  <2>4. \A k \in Keys, n \in Netids : Dispatcher(k, n)' = Dispatcher(k, n)
    BY <1>1 DEF Dispatcher, Matches
  <2> QED
    BY <2>2, <2>3, <2>4
<1>7. \A c \in claims' : \/ c \in claims
                         \/ /\ c.key = k0 /\ c.net = n0 /\ c.disp = disp[t] /\ ~spoilt[t]
                            /\ pc'[t] = "registered"
  BY <1>1, <1>5 DEF NewCallout
<1>8. Served(k0, n0)' => ~spoilt[t] /\ pc'[t] = "registered"
  BY <1>1, <1>5 DEF Served
<1>9. /\ \A c \in claims : Leads(c.key, c.net) \in open /\ Dispatcher(c.key, c.net) = c.disp
      /\ \A k \in Keys, n \in Netids :
            Served(k, n) => Leads(k, n) \in open /\ Dispatcher(k, n) # "none"
  BY <1>0 DEF AskedIsInEffect, MappingsAreServed, Served, Leads
<1>10. /\ ~spoilt[t] => Dispatcher(k0, n0) = disp[t]
       /\ "none" # disp[t]
  BY <1>0, <1>1, <1>4, <1>5, RegAssumption DEF CalledOut, Routines
<1>11. \A c \in claims' : c.key \in Keys /\ c.net \in Netids
  BY <1>2, <1>5, <1>7
<1>a. AskedIsInEffect'
  <2>1. ASSUME NEW c \in claims'
        PROVE  Leads(c.key, c.net)' \in open' /\ Dispatcher(c.key, c.net)' = c.disp
    BY <1>1, <1>4, <1>6, <1>7, <1>9, <1>10, <1>11
  <2> QED
    BY <2>1 DEF AskedIsInEffect, Leads
<1>b. MappingsAreServed'
  <2>1. ASSUME NEW k \in Keys, NEW n \in Netids, Served(k, n)'
        PROVE  Leads(k, n)' \in open' /\ Dispatcher(k, n)' # "none"
    BY <1>1, <1>4, <1>6, <1>8, <1>9, <1>10, <2>1
  <2> QED
    BY <2>1 DEF MappingsAreServed, Served, Leads
<1>c. ASSUME NEW u \in Threads PROVE NewXprt(u)'
  <2> SUFFICES ASSUME Working(u)', madenow'[u], pc'[u] # "registered"
               PROVE  /\ \A c \in claims' : Leads(c.key, c.net)' # xprt'[u]
                      /\ \A k \in Keys, n \in Netids : Served(k, n)' => Leads(k, n)' # xprt'[u]
    BY DEF NewXprt
  <2>1. CASE u # t
    <3>1. /\ Working(u) /\ madenow[u] /\ pc[u] # "registered" /\ xprt'[u] = xprt[u]
      BY <1>3, <2>1 DEF OthersStay, Working
    <3>2. /\ \A c \in claims : Leads(c.key, c.net) # xprt[u]
          /\ \A k \in Keys, n \in Netids : Served(k, n) => Leads(k, n) # xprt[u]
      BY <1>0, <3>1 DEF NewXprt
    <3>3. xprt[t] # xprt[u]
      BY <1>0, <1>4, <2>1, <3>1 DEF InHand
    <3>4. \A c \in claims' : Leads(c.key, c.net)' # xprt[u]
      BY <1>6, <1>7, <1>11, <3>2, <3>3
    <3>5. \A k \in Keys, n \in Netids : Served(k, n)' => Leads(k, n)' # xprt[u]
      BY <1>6, <3>2, <3>3
    <3> QED
      BY <3>1, <3>4, <3>5
  <2>2. CASE u = t
    <3>1. pc'[t] = "failed" /\ UNCHANGED claims
      BY <1>1, <2>2
    <3>2. madenow[t] /\ xprt'[t] = xprt[t]
      <4>1. Stays(t)
        BY <1>1, <1>4, <2>2, TransportSteps DEF Takes, Keeps, GivesUp
      <4> QED
        BY <2>2, <4>1 DEF Stays
    <3>3. /\ \A c \in claims : Leads(c.key, c.net) # xprt[t]
          /\ \A k \in Keys, n \in Netids : Served(k, n) => Leads(k, n) # xprt[t]
      BY <1>0, <1>1, <3>2 DEF NewXprt, Working
    <3>4. \A k \in Keys, n \in Netids : Served(k, n)' => (k # k0 \/ n # n0)
      BY <1>8, <3>1
    <3>5. \A c \in claims : c.key # k0 \/ c.net # n0
      <4> SUFFICES ASSUME NEW c \in claims, c.key = k0, c.net = n0 PROVE FALSE
        OBVIOUS
      <4>1. Leads(k0, n0) \in open /\ Leads(k0, n0) # xprt[t]
        BY <1>9, <3>3
      <4>2. binder[<<k0, n0>>].port \in Ports
        BY <1>0, <4>1 DEF Leads, Transports
      <4>3. binder[<<k0, n0>>].port = xprt[t].port
        BY <1>1, <1>5, <4>2, RegAssumption DEF Granted
      <4> QED
        BY <1>4, <1>5, <4>1, <4>3 DEF Leads
    <3>6. \A c \in claims' : Leads(c.key, c.net)' # xprt[t]
      BY <1>6, <1>11, <3>1, <3>3, <3>5
    <3>7. \A k \in Keys, n \in Netids : Served(k, n)' => Leads(k, n)' # xprt[t]
      BY <1>6, <3>3, <3>4
    <3> QED
      BY <2>2, <3>2, <3>6, <3>7
  <2> QED
    BY <2>1, <2>2
<1>d. ASSUME NEW u \in Threads PROVE CalledOut(u)'
  <2> SUFFICES ASSUME pc'[u] = "set", ~spoilt'[u]
               PROVE  (Dispatcher(key[u], Net(u)) = disp[u])'
    BY DEF CalledOut
  <2>1. u # t /\ pc[u] = "set" /\ ~spoilt[u]
    BY <1>1, <1>3 DEF OthersStay
  <2>2. key[u] \in Keys /\ Net(u) \in Netids /\ Dispatcher(key[u], Net(u)) = disp[u]
    BY <1>0, <2>1 DEF CalledOut, TaskOf, Registering, Working, Transports, Net
  <2>3. PICK k \in Keys, n \in Netids : k = key[u] /\ n = Net(u)
    BY <2>2
  <2>4. k = key'[u] /\ n = Net(u)' /\ disp'[u] = disp[u]
    BY <1>1, <2>3 DEF Net
  <2>5. Dispatcher(k, n)' = disp[u]
    BY <1>6, <2>2, <2>3
  <2> QED
    BY <2>4, <2>5
<1>e. ASSUME NEW u \in Threads PROVE UnregOf(u)'
  <2> SUFFICES ASSUME Unregistering(u)' PROVE UnregOf(u)'
    BY DEF UnregOf, Unregistering
  <2>1. u # t /\ Unregistering(u) /\ pc'[u] = pc[u] /\ key'[u] = key[u]
    BY <1>3, <1>4 DEF OthersStay, Unregistering
  <2>2. \A v \in Threads \ {t} :
           /\ key'[v] = key[v] /\ (spoilt[v] => spoilt'[v])
           /\ (Registering(v)' <=> Registering(v))
    BY <1>3 DEF OthersStay, Registering, Working
  <2>3. /\ \A c \in claims : c.key # key[u]
        /\ \A v \in Threads : Registering(v) /\ key[v] = key[u] => spoilt[v]
        /\ pc[u] = "remove" => \A n \in Netids : ~Served(key[u], n)
    BY <1>0, <2>1 DEF UnregOf
  <2>4. k0 = key[u] => spoilt[t]
    BY <1>4, <1>5, <2>3
  <2>5. \A c \in claims' : c.key # key'[u]
    BY <1>7, <2>1, <2>3, <2>4
  <2>6. \A v \in Threads : Registering(v)' /\ key'[v] = key'[u] => spoilt'[v]
    BY <1>1, <1>4, <2>1, <2>2, <2>3
  <2>7. pc[u] = "remove" => \A n \in Netids : (~Served(key[u], n))'
    <3> SUFFICES ASSUME pc[u] = "remove", NEW n \in Netids, Served(key[u], n)' PROVE FALSE
      OBVIOUS
    <3>1. key[u] \in Keys
      BY <1>0, <2>1 DEF TaskOf
    <3>2. PICK k \in Keys : k = key[u]
      BY <3>1
    <3>3. Served(k, n)'
      BY <1>1, <3>2 DEF Served
    <3> QED
      BY <1>6, <1>8, <2>3, <2>4, <3>2, <3>3
  <2> QED
    BY <2>1, <2>5, <2>6, <2>7 DEF UnregOf
<1> QED
  BY <1>a, <1>b, <1>c, <1>d, <1>e DEF BinderInv

LEMMA BinderStep ==
    ASSUME ThreadTypes, TasksInv, LocksInv, SharedTypes, KeptInv, OneCallout, BinderInv,
           NEW t \in Threads, StepOf(t)
    PROVE  BinderInv'
BY BinderSteps, FrameBinder, MapsBinder

-----------------------------------------------------------------------------
(* The registrations that do not ask rpcbind. *)

\* What a step of a thread does with proglst, with what it skips, and with unasked.
SkipStep(t) ==
    /\ proglst \subseteq proglst'
    /\ pc'[t] = "unset" => ~skip'[t]
    /\ pc'[t] = "callout" /\ skip'[t] =>
          \/ pc[t] = "unset" /\ skip[t]
          \/ \E p \in proglst : p.key = key'[t] /\ p.net = xprt'[t].net
    /\ pc'[t] = "remove" => pc[t] = "unset_all" /\ key'[t] = key[t]
    /\ \/ /\ unasked' \subseteq unasked
          /\ pc'[t] = "unset_all" => \A c \in unasked' : c.key # key'[t]
       \/ /\ Callout(t) /\ pc'[t] = "registered" /\ skip[t] /\ ~spoilt[t]
          /\ unasked' = unasked \cup {NewCallout(t)}
LEMMA SkipSteps ==
    ASSUME ThreadTypes, NEW t \in Threads, StepOf(t)
    PROVE  SkipStep(t)
<1>0. ThreadTypes
  OBVIOUS
<1>1. ASSUME NEW k \in Keys, NEW type \in Types, NEW d \in Dispatchers,
             BeginCreate(t, k, d, type) PROVE SkipStep(t)
  <2>1. pc'[t] = "next" /\ UNCHANGED <<proglst, unasked>>
    BY <1>0, <1>1 DEF BeginCreate, Begin, At, lists, ThreadTypes
  <2> QED
    BY <2>1 DEF SkipStep
<1>2. ASSUME NEW k \in Keys, NEW type \in Types, BeginReg(t, k, type) PROVE SkipStep(t)
  <2>1. pc'[t] = "next" /\ UNCHANGED <<proglst, unasked>>
    BY <1>0, <1>2 DEF BeginReg, Begin, At, lists, ThreadTypes
  <2> QED
    BY <2>1 DEF SkipStep
<1>3. ASSUME NEW k \in Keys, BeginUnreg(t, k) PROVE SkipStep(t)
  <2>1. pc'[t] = "unset_all" /\ key'[t] = k /\ UNCHANGED proglst
        /\ unasked' = {c \in unasked : c.key # k}
    BY <1>0, <1>3 DEF BeginUnreg, Begin, At, lists, ThreadTypes
  <2> QED
    BY <2>1 DEF SkipStep
<1>4. ASSUME NextNetid(t) PROVE SkipStep(t)
  <2> DEFINE n == Head(left[t])
  <2>1. /\ UNCHANGED <<proglst, unasked, key>>
        /\ pc'[t] = (IF Registered(t, n) THEN "callout" ELSE "unset")
        /\ skip'[t] = Registered(t, n)
    BY <1>0, <1>4 DEF NextNetid, lists, hist, task, ThreadTypes
  <2>2. xprt'[t].net = n
    <3>1. \/ \E p \in Ports : xprt' = [xprt EXCEPT ![t] = [net |-> n, port |-> p]]
          \/ \E x \in Kept(t) : x.net = n /\ xprt' = [xprt EXCEPT ![t] = x]
      BY <1>4 DEF NextNetid, TliCreate
    <3>2. DOMAIN xprt = Threads
      BY <1>0 DEF ThreadTypes
    <3> HIDE DEF n
    <3> QED
      BY <3>1, <3>2
  <2>3. Registered(t, n) => \E p \in proglst : p.key = key'[t] /\ p.net = xprt'[t].net
    BY <2>1, <2>2 DEF Registered
  <2> QED
    BY <2>1, <2>3 DEF SkipStep
<1>5. ASSUME CannotBind(t) PROVE SkipStep(t)
  <2>1. pc'[t] = "next" /\ UNCHANGED <<proglst, unasked>>
    BY <1>5 DEF CannotBind, lists
  <2> QED
    BY <2>1 DEF SkipStep
<1>6. ASSUME Unset(t) PROVE SkipStep(t)
  <2>1. pc[t] = "unset" /\ pc'[t] = "callout" /\ skip'[t] = skip[t] /\ UNCHANGED <<proglst, unasked>>
    BY <1>0, <1>6 DEF Unset, lists, step, ThreadTypes
  <2> QED
    BY <2>1 DEF SkipStep
<1>7. ASSUME Callout(t) PROVE SkipStep(t)
  <2>1. UNCHANGED proglst /\ pc'[t] \in {"registered", "set", "failed"}
        /\ (pc'[t] = "registered" => skip[t])
    BY <1>0, <1>7 DEF Callout, At, lists, ThreadTypes
  <2>2. \/ unasked' = unasked
        \/ pc'[t] = "registered" /\ ~spoilt[t] /\ unasked' = unasked \cup {NewCallout(t)}
    BY <1>7 DEF Callout
  <2> QED
    BY <1>7, <2>1, <2>2 DEF SkipStep
<1>8. ASSUME Set(t) PROVE SkipStep(t)
  <2>1. pc'[t] \in {"registered", "failed"} /\ UNCHANGED <<proglst, unasked>>
    BY <1>0, <1>8 DEF Set, lists, ThreadTypes
  <2> QED
    BY <2>1 DEF SkipStep
<1>9. ASSUME Keep(t) PROVE SkipStep(t)
  <2>1. pc'[t] = "next" /\ proglst \subseteq proglst' /\ UNCHANGED unasked
    BY <1>0, <1>9 DEF Keep, At, hist, ThreadTypes
  <2> QED
    BY <2>1 DEF SkipStep
<1>10. ASSUME Drop(t) PROVE SkipStep(t)
  <2>1. pc'[t] = "next" /\ UNCHANGED <<proglst, unasked>>
    BY <1>0, <1>10 DEF Drop, At, lists, hist, ThreadTypes
  <2> QED
    BY <2>1 DEF SkipStep
<1>11. ASSUME Return(t) PROVE SkipStep(t)
  <2>1. pc'[t] = "idle" /\ UNCHANGED <<proglst, unasked>>
    BY <1>0, <1>11 DEF Return, At, lists, ThreadTypes
  <2> QED
    BY <2>1 DEF SkipStep
<1>12. ASSUME UnsetAll(t) PROVE SkipStep(t)
  <2>1. pc[t] = "unset_all" /\ pc'[t] = "remove" /\ key'[t] = key[t] /\ UNCHANGED <<proglst, unasked>>
    BY <1>0, <1>12 DEF UnsetAll, At, lists, task, ThreadTypes
  <2> QED
    BY <2>1 DEF SkipStep
<1>13. ASSUME RemoveCallouts(t) PROVE SkipStep(t)
  <2>1. pc'[t] = "idle" /\ UNCHANGED <<proglst, unasked>>
    BY <1>0, <1>13 DEF RemoveCallouts, At, lists, ThreadTypes
  <2> QED
    BY <2>1 DEF SkipStep
<1> QED
  BY <1>1, <1>2, <1>3, <1>4, <1>5, <1>6, <1>7, <1>8, <1>9, <1>10, <1>11, <1>12, <1>13
     DEF StepOf, Begins, Run

LEMMA UnaskedStep ==
    ASSUME ThreadTypes, TasksInv, SharedTypes, OneCallout, BinderInv, UnaskedInv,
           NEW t \in Threads, StepOf(t)
    PROVE  UnaskedInv'
<1>0. /\ \A u \in Threads : SkipOf(u) /\ UnregOf(u)
      /\ \A c \in unasked : Unasked(c)
      /\ \A u \in Threads : Unregistering(u) => \A c \in unasked : c.key # key[u]
      /\ unasked \subseteq Callouts
  BY DEF UnaskedInv, BinderInv, SharedTypes, Callouts
<1>1. SkipStep(t) /\ OthersStay(t)
  BY SkipSteps, StepLeavesOthers
<1>2. \A c \in unasked : c.key \in Keys /\ c.net \in Netids /\ c.disp \in Routines
  BY <1>0 DEF Callouts
<1>3. \A k \in Keys, n \in Netids :
         Dispatcher(k, n) # "none" /\ (pc[t] = "remove" => k # key[t]) =>
            Dispatcher(k, n)' = Dispatcher(k, n)
  BY DispatcherStep
<1>4. "none" \notin Routines
  BY RegAssumption DEF Routines
<1>a. \A u \in Threads : SkipOf(u)'
  <2> SUFFICES ASSUME NEW u \in Threads PROVE SkipOf(u)'
    OBVIOUS
  <2>1. CASE u = t
    BY <1>0, <1>1, <2>1 DEF SkipStep, SkipOf, Net
  <2>2. CASE u # t
    <3>1. pc'[u] = pc[u] /\ skip'[u] = skip[u] /\ key'[u] = key[u] /\ xprt'[u] = xprt[u]
          /\ proglst \subseteq proglst'
      BY <1>1, <2>2 DEF OthersStay, SkipStep
    <3> QED
      BY <1>0, <3>1 DEF SkipOf, Net
  <2> QED
    BY <2>1, <2>2
<1>b. \A c \in unasked : Unasked(c)'
  <2> SUFFICES ASSUME NEW c \in unasked PROVE Unasked(c)'
    OBVIOUS
  <2>1. pc[t] = "remove" => c.key # key[t]
    BY <1>0 DEF Unregistering
  <2>2. Dispatcher(c.key, c.net)' = Dispatcher(c.key, c.net)
    <3>1. Dispatcher(c.key, c.net) # "none"
      BY <1>0, <1>2, <1>4 DEF Unasked
    <3>2. \A k \in Keys, n \in Netids : k = c.key /\ n = c.net => Dispatcher(k, n)' = Dispatcher(k, n)
      BY <1>3, <2>1, <3>1
    <3> QED
      BY <1>2, <3>2
  <2>3. \E p \in proglst' : p.key = c.key /\ p.net = c.net
    BY <1>0, <1>1 DEF SkipStep, Unasked
  <2> QED
    BY <1>0, <2>2, <2>3 DEF Unasked
<1>c. /\ \A c \in unasked' : Unasked(c)'
      /\ \A u \in Threads : Unregistering(u)' => \A c \in unasked' : c.key # key'[u]
  <2>1. CASE /\ unasked' \subseteq unasked
             /\ pc'[t] = "unset_all" => \A c \in unasked' : c.key # key'[t]
    <3>1. \A u \in Threads : Unregistering(u)' => \A c \in unasked' : c.key # key'[u]
      <4> SUFFICES ASSUME NEW u \in Threads, Unregistering(u)' PROVE \A c \in unasked' : c.key # key'[u]
        OBVIOUS
      <4>1. CASE u = t /\ pc'[t] = "unset_all"
        BY <2>1, <4>1
      <4>2. CASE u = t /\ pc'[t] = "remove"
        <5>1. Unregistering(t) /\ key'[t] = key[t]
          BY <1>1, <4>2 DEF SkipStep, Unregistering
        <5> QED
          BY <1>0, <2>1, <4>2, <5>1
      <4>3. CASE u # t
        <5>1. Unregistering(u) /\ key'[u] = key[u]
          BY <1>1, <4>3 DEF OthersStay, Unregistering
        <5> QED
          BY <1>0, <2>1, <5>1
      <4> QED
        BY <4>1, <4>2, <4>3 DEF Unregistering
    <3> QED
      BY <1>b, <2>1, <3>1
  <2>2. CASE /\ Callout(t) /\ pc'[t] = "registered" /\ skip[t] /\ ~spoilt[t]
             /\ unasked' = unasked \cup {NewCallout(t)}
    <3>1. pc[t] = "callout" /\ Registering(t)
      BY <2>2 DEF Callout, At, Registering, Working
    <3>2. key[t] \in Keys /\ Net(t) \in Netids
      BY <3>1 DEF TasksInv, TaskOf, Registering, Working, Transports, Net
    <3>3. \A c \in unasked' : c \in unasked \/ (c.key = key[t] /\ c.net = Net(t) /\ c.disp = disp[t])
      BY <2>2 DEF NewCallout
    <3>4. \A k \in Keys, n \in Netids : k = key[t] /\ n = Net(t) => Dispatcher(k, n)' = disp[t]
      BY <2>2, CalloutRegisters
    <3>5. \E p \in proglst' : p.key = key[t] /\ p.net = Net(t)
      BY <1>0, <1>1, <2>2, <3>1 DEF SkipStep, SkipOf
    <3>6. ASSUME NEW c, c \in unasked' PROVE Unasked(c)'
      <4>1. CASE c \in unasked
        BY <1>b, <4>1
      <4>2. CASE c.key = key[t] /\ c.net = Net(t) /\ c.disp = disp[t]
        <5>1. PICK k \in Keys, n \in Netids : k = c.key /\ n = c.net
          BY <3>2, <4>2
        <5>2. Dispatcher(k, n)' = c.disp
          BY <3>4, <4>2, <5>1
        <5> QED
          BY <3>5, <4>2, <5>1, <5>2 DEF Unasked
      <4> QED
        BY <3>3, <3>6, <4>1, <4>2
    <3>7. \A u \in Threads : Unregistering(u)' => /\ Unregistering(u) /\ key'[u] = key[u]
                                                  /\ key[u] # key[t]
      <4> SUFFICES ASSUME NEW u \in Threads, Unregistering(u)'
                   PROVE  Unregistering(u) /\ key'[u] = key[u] /\ key[u] # key[t]
        OBVIOUS
      <4>1. u # t
        BY <2>2 DEF Unregistering
      <4>2. Unregistering(u) /\ key'[u] = key[u]
        BY <1>1, <4>1 DEF OthersStay, Unregistering
      <4> QED
        BY <1>0, <2>2, <3>1, <4>2 DEF UnregOf
    <3> QED
      BY <1>0, <3>3, <3>6, <3>7
  <2> QED
    BY <1>1, <2>1, <2>2 DEF SkipStep
<1> QED
  BY <1>a, <1>c DEF UnaskedInv

-----------------------------------------------------------------------------
(* The registrations that nothing disturbs. *)

LEMMA TailFacts ==
    ASSUME NEW S, NEW q \in Seq(S), q # << >>
    PROVE  Head(q) \in Range(q) /\ Range(Tail(q)) \subseteq Range(q)
<1>1. Len(q) \in Nat \ {0} /\ DOMAIN q = 1 .. Len(q)
  OBVIOUS
<1>2. Head(q) = q[1] /\ 1 \in DOMAIN q
  BY <1>1
<1>3. \A i \in DOMAIN Tail(q) : i + 1 \in DOMAIN q /\ Tail(q)[i] = q[i + 1]
  BY <1>1
<1> QED
  BY <1>2, <1>3 DEF Range

\* What keeps a registration quiet on its way.
GoesOn(t) ==
    /\ key'[t] = key[t] /\ disp'[t] = disp[t] /\ done'[t] = done[t] /\ pc'[t] # "failed"
    /\ Registering(t)' => Registering(t) /\ Range(left'[t]) \subseteq Range(left[t])
    /\ pc'[t] \in {"unset", "callout"} =>
          \/ pc[t] \in {"unset", "callout"} /\ Net(t)' = Net(t)
          \/ pc[t] = "next" /\ Net(t)' \in Range(left[t])
    /\ pc'[t] = "set" \/ (pc'[t] = "callout" /\ ~skip'[t]) =>
          (binder[<<key[t], Net(t)>>].port = 0)'
LEMMA QuietSteps ==
    ASSUME ThreadTypes, TasksInv, SharedTypes, OneCallout, QuietInv, NEW t \in Threads, StepOf(t)
    PROVE  /\ ret'[t] # "refused"
           /\ \A u \in Threads \ {t} : ~quiet'[u]
           /\ QuietOf(t)' \/ (quiet[t] /\ GoesOn(t))
<1>0. /\ ThreadTypes /\ TaskOf(t) /\ QuietOf(t) /\ ret[t] # "refused"
      /\ binder \in [Keys \X Netids -> [port : Ports \cup {0}, life : 0 .. life]]
      /\ xprtlist \subseteq Transports /\ proglst \subseteq [key : Keys, net : Netids, port : Ports]
  BY DEF TasksInv, SharedTypes, QuietInv, QuietRegistrationsSucceed
<1>1. \A u \in Threads \ {t} : quiet'[u] => Idle(t)
  <2>1. \A u \in Threads \ {t} : quiet[u] => Idle(t)
    BY DEF QuietInv, QuietOf
  <2> QED
    BY <2>1, StepLeavesOthers DEF OthersStay
<1>2. Working(t) => key[t] \in Keys /\ Net(t) \in Netids
  BY <1>0 DEF TaskOf, Registering, Transports, Net
<1>3. quiet'[t] = FALSE => QuietOf(t)'
  BY DEF QuietOf
<1> DEFINE Goal == /\ ret'[t] # "refused"
                   /\ \A u \in Threads \ {t} : ~quiet'[u]
                   /\ QuietOf(t)' \/ (quiet[t] /\ GoesOn(t))
<1>p. Goal
  <2>1. ASSUME NEW k \in Keys, NEW type \in Types, NEW d \in Dispatchers,
                 BeginCreate(t, k, d, type) PROVE Goal
    <3>1. /\ pc'[t] = "next" /\ key'[t] = k /\ disp'[t] = d /\ left'[t] = type /\ done'[t]
          /\ ret'[t] = "none" /\ UNCHANGED callouts
      BY <1>0, <2>1 DEF BeginCreate, Begin, At, ThreadTypes
    <3>2. quiet' = [s \in Threads |-> /\ s = t /\ \A u \in Threads \ {t} : Idle(u)
                                      /\ \A n \in Range(type) : Dispatcher(k, n) \in {"none", d}]
      BY <2>1 DEF BeginCreate, Begin, At
    <3>3. \A u \in Threads \ {t} : Idle(u) => Idle(u)'
      BY StepLeavesOthers DEF OthersStay, Idle
    <3>4. \A n : Dispatcher(k, n)' = Dispatcher(k, n)
      BY <3>1 DEF Dispatcher, Matches
    <3>5. QuietOf(t)'
      <4> SUFFICES ASSUME quiet'[t] PROVE QuietOf(t)'
        BY DEF QuietOf
      <4>1. /\ \A u \in Threads \ {t} : Idle(u)
            /\ \A n \in Range(type) : Dispatcher(k, n) \in {"none", d}
        BY <3>2
      <4>2. \A n \in Range(left'[t]) : (Dispatcher(key[t], n) \in {"none", disp[t]})'
        BY <3>1, <3>4, <4>1
      <4> QED
        BY <3>1, <3>3, <4>1, <4>2 DEF QuietOf, Registering, Working
    <3>6. \A u \in Threads \ {t} : ~quiet'[u]
      BY <3>2
    <3> QED
      BY <3>1, <3>5, <3>6
  <2>2. ASSUME NEW k \in Keys, NEW type \in Types, BeginReg(t, k, type) PROVE Goal
    <3>1. /\ pc'[t] = "next" /\ key'[t] = k /\ disp'[t] = "universal" /\ left'[t] = type /\ done'[t]
          /\ ret'[t] = "none" /\ UNCHANGED callouts
      BY <1>0, <2>2 DEF BeginReg, Begin, At, ThreadTypes
    <3>2. quiet' = [s \in Threads |-> /\ s = t /\ \A u \in Threads \ {t} : Idle(u)
                                      /\ \A n \in Range(type) : Dispatcher(k, n) \in {"none", "universal"}]
      BY <2>2 DEF BeginReg, Begin, At
    <3>3. \A u \in Threads \ {t} : Idle(u) => Idle(u)'
      BY StepLeavesOthers DEF OthersStay, Idle
    <3>4. \A n : Dispatcher(k, n)' = Dispatcher(k, n)
      BY <3>1 DEF Dispatcher, Matches
    <3>5. QuietOf(t)'
      <4> SUFFICES ASSUME quiet'[t] PROVE QuietOf(t)'
        BY DEF QuietOf
      <4>1. /\ \A u \in Threads \ {t} : Idle(u)
            /\ \A n \in Range(type) : Dispatcher(k, n) \in {"none", "universal"}
        BY <3>2
      <4>2. \A n \in Range(left'[t]) : (Dispatcher(key[t], n) \in {"none", disp[t]})'
        BY <3>1, <3>4, <4>1
      <4> QED
        BY <3>1, <3>3, <4>1, <4>2 DEF QuietOf, Registering, Working
    <3>6. \A u \in Threads \ {t} : ~quiet'[u]
      BY <3>2
    <3> QED
      BY <3>1, <3>5, <3>6
  <2>3. ASSUME NEW k \in Keys, BeginUnreg(t, k) PROVE Goal
    <3>1. /\ pc'[t] = "unset_all" /\ key'[t] = k /\ disp'[t] = "none" /\ left'[t] = << >> /\ done'[t]
          /\ ret'[t] = "none" /\ UNCHANGED callouts
      BY <1>0, <2>3 DEF BeginUnreg, Begin, At, ThreadTypes
    <3>2. quiet' = [s \in Threads |-> /\ s = t /\ \A u \in Threads \ {t} : Idle(u)
                                      /\ \A n \in Range(<< >>) : Dispatcher(k, n) \in {"none", "none"}]
      BY <2>3 DEF BeginUnreg, Begin, At
    <3>3. \A u \in Threads \ {t} : Idle(u) => Idle(u)'
      BY StepLeavesOthers DEF OthersStay, Idle
    <3>4. \A n : Dispatcher(k, n)' = Dispatcher(k, n)
      BY <3>1 DEF Dispatcher, Matches
    <3>5. QuietOf(t)'
      <4> SUFFICES ASSUME quiet'[t] PROVE QuietOf(t)'
        BY DEF QuietOf
      <4>1. /\ \A u \in Threads \ {t} : Idle(u)
            /\ \A n \in Range(<< >>) : Dispatcher(k, n) \in {"none", "none"}
        BY <3>2
      <4> QED
        BY <3>1, <3>3, <4>1 DEF QuietOf, Registering, Working
    <3>6. \A u \in Threads \ {t} : ~quiet'[u]
      BY <3>2
    <3> QED
      BY <3>1, <3>5, <3>6
  <2>4. ASSUME NextNetid(t) PROVE Goal
    <3>1. /\ pc[t] = "next" /\ left[t] # << >> /\ left'[t] = Tail(left[t])
          /\ UNCHANGED <<op, key, disp, done, ret, quiet, binder>>
      BY <1>0, <2>4 DEF NextNetid, hist, task, ThreadTypes
    <3>2. /\ pc'[t] = IF Registered(t, Head(left[t])) THEN "callout" ELSE "unset"
          /\ skip'[t] = Registered(t, Head(left[t]))
      BY <1>0, <2>4 DEF NextNetid, ThreadTypes
    <3>3. Net(t)' = Head(left[t])
      <4>1. \/ TliCreate(t, Head(left[t]))
            \/ \E x \in {x \in Kept(t) : x.net = Head(left[t])} : xprt' = [xprt EXCEPT ![t] = x]
        BY <2>4 DEF NextNetid
      <4>2. \E x : x.net = Head(left[t]) /\ xprt' = [xprt EXCEPT ![t] = x]
        BY <4>1 DEF TliCreate
      <4> QED
        BY <1>0, <4>2 DEF ThreadTypes, Net
    <3>4. Head(left[t]) \in Range(left[t]) /\ Range(Tail(left[t])) \subseteq Range(left[t])
      <4>1. left[t] \in Seq(Netids)
        BY <1>0, <3>1 DEF TaskOf, Registering
      <4> QED
        BY <3>1, <4>1, TailFacts
    <3>5. quiet[t] => GoesOn(t)
      BY <3>1, <3>2, <3>3, <3>4 DEF GoesOn, Registering
    <3>6. QuietOf(t)' \/ (quiet[t] /\ GoesOn(t))
      BY <3>1, <3>5 DEF QuietOf
    <3> QED
      BY <1>0, <1>1, <3>1, <3>6 DEF Idle
  <2>5. ASSUME CannotBind(t) PROVE Goal
    <3>1. pc[t] # "idle" /\ ret'[t] = ret[t] /\ quiet' = [u \in Threads |-> FALSE]
      BY <2>5 DEF CannotBind, Fault
    <3> QED
      BY <1>0, <1>1, <1>3, <3>1 DEF Idle
  <2>6. ASSUME Unset(t) PROVE Goal
    <3>1. /\ pc[t] = "unset" /\ pc'[t] = "callout"
          /\ UNCHANGED <<op, key, disp, left, xprt, done, skip, ret>>
      BY <1>0, <2>6 DEF Unset, step, task, ThreadTypes
    <3>2. CASE quiet' = [u \in Threads |-> FALSE]
      BY <1>0, <1>1, <1>3, <3>1, <3>2 DEF Idle
    <3>3. CASE binder' = [binder EXCEPT ![<<key[t], Net(t)>>] = NoMapping] /\ UNCHANGED quiet
      <4>1. <<key[t], Net(t)>> \in Keys \X Netids
        BY <1>2, <3>1 DEF Working
      <4>2. binder'[<<key[t], Net(t)>>].port = 0
        BY <1>0, <3>3, <4>1 DEF NoMapping
      <4>3. quiet[t] => GoesOn(t)
        BY <3>1, <4>2 DEF GoesOn, Registering, Working, Net
      <4>4. QuietOf(t)' \/ (quiet[t] /\ GoesOn(t))
        BY <3>3, <4>3 DEF QuietOf
      <4> QED
        BY <1>0, <1>1, <3>1, <4>4 DEF Idle
    <3> QED
      BY <2>6, <3>2, <3>3 DEF Unset, Fault
  <2>7. ASSUME Callout(t) PROVE Goal
    <3>1. /\ pc[t] = "callout"
          /\ UNCHANGED <<op, key, disp, left, xprt, done, skip, ret, quiet, binder>>
      BY <2>7 DEF Callout, step, task, hist, At
    <3>2. quiet[t] => GoesOn(t)
      <4> SUFFICES ASSUME quiet[t] PROVE GoesOn(t)
        OBVIOUS
      <4>1. Dispatcher(key[t], Net(t)) \in {"none", disp[t]}
            /\ (~skip[t] => binder[<<key[t], Net(t)>>].port = 0)
        BY <1>0, <3>1 DEF QuietOf
      <4>2. pc'[t] = IF skip[t] THEN "registered" ELSE "set"
        BY <1>0, <2>7, <4>1 DEF Callout, At, ThreadTypes
      <4> QED
        BY <3>1, <4>1, <4>2 DEF GoesOn, Registering, Working, Net
    <3>3. QuietOf(t)' \/ (quiet[t] /\ GoesOn(t))
      BY <3>1, <3>2 DEF QuietOf
    <3> QED
      BY <1>0, <1>1, <3>1, <3>3 DEF Idle
  <2>8. ASSUME Set(t) PROVE Goal
    <3>1. /\ pc[t] = "set"
          /\ UNCHANGED <<op, key, disp, left, xprt, done, skip, ret>>
      BY <2>8 DEF Set, step, task
    <3>2. CASE quiet' = [u \in Threads |-> FALSE]
      BY <1>0, <1>1, <1>3, <3>1, <3>2 DEF Idle
    <3>3. CASE UNCHANGED quiet /\ pc' = [pc EXCEPT ![t] = "registered"]
      <4>1. GoesOn(t)
        BY <1>0, <3>1, <3>3 DEF GoesOn, Registering, Working, ThreadTypes
      <4>2. QuietOf(t)' \/ (quiet[t] /\ GoesOn(t))
        BY <3>3, <4>1 DEF QuietOf
      <4> QED
        BY <1>0, <1>1, <3>1, <4>2 DEF Idle
    <3>4. CASE UNCHANGED quiet /\ ~Granted(t)
      <4>1. ~quiet[t]
        BY <1>0, <3>1, <3>4 DEF QuietOf, Granted
      <4>2. QuietOf(t)'
        BY <3>4, <4>1 DEF QuietOf
      <4> QED
        BY <1>0, <1>1, <3>1, <4>2 DEF Idle
    <3> QED
      BY <2>8, <3>2, <3>3, <3>4 DEF Set, Fault
  <2>9. ASSUME Keep(t) PROVE Goal
    <3>1. /\ pc[t] = "registered" /\ pc'[t] = "next"
          /\ UNCHANGED <<op, key, disp, left, done, ret, quiet>>
      BY <1>0, <2>9 DEF Keep, At, task, hist, ThreadTypes
    <3>2. GoesOn(t)
      BY <3>1 DEF GoesOn, Registering, Working
    <3>3. QuietOf(t)' \/ (quiet[t] /\ GoesOn(t))
      BY <3>1, <3>2 DEF QuietOf
    <3> QED
      BY <1>0, <1>1, <3>1, <3>3 DEF Idle
  <2>10. ASSUME Drop(t) PROVE Goal
    <3>1. pc[t] = "failed" /\ UNCHANGED <<ret, quiet>>
      BY <2>10 DEF Drop, At, hist
    <3>2. QuietOf(t)'
      BY <1>0, <3>1 DEF QuietOf
    <3> QED
      BY <1>0, <1>1, <3>1, <3>2 DEF Idle
  <2>11. ASSUME Return(t) PROVE Goal
    <3>1. /\ pc[t] = "next" /\ quiet' = [quiet EXCEPT ![t] = FALSE]
          /\ ret' = [ret EXCEPT ![t] = IF ~done[t] /\ quiet[t] THEN "refused" ELSE "returned"]
      BY <2>11 DEF Return, At, Ended
    <3>2. ret'[t] # "refused" /\ quiet'[t] = FALSE
      BY <1>0, <3>1 DEF QuietOf, ThreadTypes
    <3> QED
      BY <1>1, <1>3, <3>1, <3>2 DEF Idle
  <2>12. ASSUME UnsetAll(t) PROVE Goal
    <3>1. /\ pc[t] = "unset_all" /\ pc'[t] = "remove"
          /\ UNCHANGED <<op, key, disp, left, done, ret>>
          /\ UNCHANGED quiet \/ quiet' = [u \in Threads |-> FALSE]
      BY <1>0, <2>12 DEF UnsetAll, Fault, At, task, step, ThreadTypes
    <3>2. GoesOn(t)
      BY <3>1 DEF GoesOn, Registering, Working
    <3>3. QuietOf(t)' \/ (quiet[t] /\ GoesOn(t))
      BY <3>1, <3>2 DEF QuietOf
    <3> QED
      BY <1>0, <1>1, <3>1, <3>3 DEF Idle
  <2>13. ASSUME RemoveCallouts(t) PROVE Goal
    <3>1. /\ pc[t] = "remove" /\ quiet' = [quiet EXCEPT ![t] = FALSE]
          /\ ret' = [ret EXCEPT ![t] = "returned"]
      BY <2>13 DEF RemoveCallouts, At, Ended
    <3>2. ret'[t] # "refused" /\ quiet'[t] = FALSE
      BY <1>0, <3>1 DEF ThreadTypes
    <3> QED
      BY <1>1, <1>3, <3>1, <3>2 DEF Idle
  <2> QED
    BY <2>1, <2>2, <2>3, <2>4, <2>5, <2>6, <2>7, <2>8, <2>9, <2>10, <2>11, <2>12, <2>13 DEF StepOf, Begins, Run
<1> QED
  BY <1>p

LEMMA QuietStep ==
    ASSUME ThreadTypes, TasksInv, SharedTypes, OneCallout, QuietInv, NEW t \in Threads, StepOf(t)
    PROVE  QuietInv'
<1>1. /\ ret'[t] # "refused"
      /\ \A u \in Threads \ {t} : ~quiet'[u]
      /\ QuietOf(t)' \/ (quiet[t] /\ GoesOn(t))
  BY QuietSteps
<1>2. OthersStay(t)
  BY StepLeavesOthers
<1>3. QuietRegistrationsSucceed'
  BY <1>1, <1>2 DEF QuietRegistrationsSucceed, OthersStay, QuietInv
<1>4. \A u \in Threads \ {t} : QuietOf(u)'
  BY <1>1 DEF QuietOf
<1>5. ASSUME quiet[t], GoesOn(t) PROVE QuietOf(t)'
  <2>1. /\ QuietOf(t) /\ TaskOf(t)
    BY DEF QuietInv, TasksInv
  <2>2. /\ \A u \in Threads \ {t} : Idle(u)
        /\ done[t] /\ pc[t] # "failed"
        /\ Registering(t) => \A n \in Range(left[t]) : Dispatcher(key[t], n) \in {"none", disp[t]}
        /\ pc[t] \in {"unset", "callout"} => Dispatcher(key[t], Net(t)) \in {"none", disp[t]}
    BY <1>5, <2>1 DEF QuietOf
  <2>3. Registering(t) => key[t] \in Keys /\ Range(left[t]) \subseteq Netids
    <3>1. Registering(t) => key[t] \in Keys /\ left[t] \in Seq(Netids)
      BY <2>1 DEF TaskOf
    <3>2. \A q \in Seq(Netids) : Range(q) \subseteq Netids
      BY DEF Range
    <3> QED
      BY <3>1, <3>2
  <2>4. pc[t] \in {"unset", "callout"} => Registering(t) /\ Net(t) \in Netids
    BY <2>1 DEF TaskOf, Registering, Working, Transports, Net
  <2>5. \A k \in Keys, n \in Netids :
           Dispatcher(k, n) \in {"none", disp[t]} => Dispatcher(k, n)' \in {"none", disp[t]}
    BY DispatcherStep
  <2>6. /\ key'[t] = key[t] /\ disp'[t] = disp[t] /\ done'[t] = done[t] /\ pc'[t] # "failed"
        /\ Registering(t)' => Registering(t) /\ Range(left'[t]) \subseteq Range(left[t])
        /\ pc'[t] \in {"unset", "callout"} =>
              \/ pc[t] \in {"unset", "callout"} /\ Net(t)' = Net(t)
              \/ pc[t] = "next" /\ Net(t)' \in Range(left[t])
        /\ pc'[t] = "set" \/ (pc'[t] = "callout" /\ ~skip'[t]) =>
              (binder[<<key[t], Net(t)>>].port = 0)'
    BY <1>5 DEF GoesOn
  <2>7. Registering(t)' =>
           \A n \in Range(left'[t]) : (Dispatcher(key[t], n) \in {"none", disp[t]})'
    <3> SUFFICES ASSUME Registering(t)', NEW n \in Range(left'[t])
                 PROVE  (Dispatcher(key[t], n) \in {"none", disp[t]})'
      OBVIOUS
    <3>1. PICK k \in Keys, m \in Netids : k = key[t] /\ m = n
      BY <2>3, <2>6
    <3>2. Dispatcher(k, m) \in {"none", disp[t]}
      BY <2>2, <2>6, <3>1
    <3>3. Dispatcher(k, m)' \in {"none", disp[t]} /\ k = key'[t]
      BY <2>5, <2>6, <3>1, <3>2
    <3> QED
      BY <2>6, <3>1, <3>3
  <2>8. pc'[t] \in {"unset", "callout"} => (Dispatcher(key[t], Net(t)) \in {"none", disp[t]})'
    <3> SUFFICES ASSUME pc'[t] \in {"unset", "callout"}
                 PROVE  (Dispatcher(key[t], Net(t)) \in {"none", disp[t]})'
      OBVIOUS
    <3>1. \/ pc[t] \in {"unset", "callout"} /\ Net(t)' = Net(t)
          \/ pc[t] = "next" /\ Net(t)' \in Range(left[t])
      BY <2>6
    <3>2. Registering(t)
      BY <3>1 DEF Registering, Working
    <3>3. Net(t)' \in Netids /\ key[t] \in Keys
      BY <2>3, <2>4, <3>1, <3>2
    <3>4. PICK k \in Keys, n \in Netids : k = key[t] /\ n = Net(t)'
      BY <3>3
    <3>5. Dispatcher(k, n) \in {"none", disp[t]}
      BY <2>2, <3>1, <3>2, <3>4
    <3>6. Dispatcher(k, n)' \in {"none", disp[t]} /\ k = key'[t]
      BY <2>5, <2>6, <3>4, <3>5
    <3> QED
      BY <2>6, <3>4, <3>6
  <2>9. \A u \in Threads \ {t} : Idle(u)'
    BY <1>2, <2>2 DEF OthersStay, Idle
  <2> QED
    BY <2>2, <2>6, <2>7, <2>8, <2>9 DEF QuietOf
<1> QED
  BY <1>1, <1>3, <1>4, <1>5 DEF QuietInv

-----------------------------------------------------------------------------
(* A process that starts. *)

\* It has nothing, and what rpcbind has is of earlier lives.
Blank ==
    /\ open = {} /\ callouts = << >> /\ xprtlist = {} /\ proglst = {}
    /\ xprtlist_lock = Nobody /\ proglst_lock = Nobody
    /\ pc = [t \in Threads |-> "idle"] /\ op = [t \in Threads |-> "none"]
    /\ key = [t \in Threads |-> "none"] /\ disp = [t \in Threads |-> "none"]
    /\ left = [t \in Threads |-> << >>] /\ xprt = [t \in Threads |-> NoXprt]
    /\ madenow = [t \in Threads |-> FALSE] /\ skip = [t \in Threads |-> FALSE]
    /\ done = [t \in Threads |-> TRUE]
    /\ claims = {} /\ unasked = {} /\ excused = {} /\ spoilt = [t \in Threads |-> FALSE]
    /\ quiet = [t \in Threads |-> FALSE] /\ ret = [t \in Threads |-> "none"]
    /\ life \in Nat \ {0} /\ ops \in Nat /\ faults \in Nat
    /\ binder \in [Keys \X Netids -> [port : Ports \cup {0}, life : 0 .. life]]
    /\ \A k \in Keys, n \in Netids : binder[<<k, n>>].life # life
LEMMA BlankIsSound == Blank => IInv
<1> SUFFICES ASSUME Blank PROVE IInv
  OBVIOUS
<1> USE DEF Blank
<1>0. /\ \A t \in Threads : Idle(t) /\ ~Working(t) /\ ~Registering(t) /\ ~Unregistering(t)
      /\ \A t \in Threads : pc[t] = "idle"
  BY DEF Idle, Working, Registering, Unregistering
<1>1. ThreadTypes
  BY DEF ThreadTypes
<1>2. TasksInv
  BY <1>0 DEF TasksInv, TaskOf
<1>3. LocksInv
  BY <1>0, RegAssumption DEF LocksInv
<1>4. SharedTypes /\ OneCallout
  BY DEF SharedTypes, OneCallout
<1>5. KeptInv
  BY <1>0 DEF KeptInv, InHand, OneEach, ProgKept
<1>6. BinderInv
  <2>1. AskedIsInEffect /\ MappingsAreServed
    BY DEF AskedIsInEffect, MappingsAreServed
  <2>2. \A t \in Threads : NewXprt(t) /\ CalledOut(t) /\ UnregOf(t)
    BY <1>0 DEF NewXprt, CalledOut, UnregOf
  <2> QED
    BY <2>1, <2>2 DEF BinderInv
<1>7. QuietInv
  BY DEF QuietInv, QuietRegistrationsSucceed, QuietOf
<1>8. UnaskedInv
  BY <1>0 DEF UnaskedInv, SkipOf
<1> QED
  BY <1>1, <1>2, <1>3, <1>4, <1>5, <1>6, <1>7, <1>8 DEF IInv

LEMMA InitIInv == Init => IInv
<1> SUFFICES ASSUME Init PROVE Blank
  BY BlankIsSound
<1>1. NoMapping \in [port : Ports \cup {0}, life : 0 .. 1] /\ NoMapping.life = 0
  BY DEF NoMapping
<1>2. /\ binder \in [Keys \X Netids -> [port : Ports \cup {0}, life : 0 .. life]]
      /\ \A k \in Keys, n \in Netids : binder[<<k, n>>].life # life
  BY <1>1 DEF Init
<1> QED
  BY <1>2 DEF Init, Blank

LEMMA CrashStep == SharedTypes /\ Crash => IInv'
<1> SUFFICES ASSUME SharedTypes, Crash PROVE Blank'
  BY BlankIsSound, PTL
<1>1. /\ life \in Nat \ {0} /\ life' = life + 1 /\ UNCHANGED <<binder, ops, faults>>
      /\ ops \in Nat /\ faults \in Nat
      /\ binder \in [Keys \X Netids -> [port : Ports \cup {0}, life : 0 .. life]]
  BY DEF SharedTypes, Crash
<1>2. life' \in Nat \ {0} /\ ops' \in Nat /\ faults' \in Nat
  BY <1>1
<1>3. \A m \in Keys \X Netids : /\ binder'[m] \in [port : Ports \cup {0}, life : 0 .. life']
                                /\ binder'[m].life # life'
  BY <1>1
<1>4. (binder \in [Keys \X Netids -> [port : Ports \cup {0}, life : 0 .. life]])'
  BY <1>1, <1>3
<1>5. (\A k \in Keys, n \in Netids : binder[<<k, n>>].life # life)'
  BY <1>3
<1> QED
  BY <1>2, <1>4, <1>5 DEF Crash, Started, Blank

LEMMA StutterStep == IInv /\ UNCHANGED vars => IInv'
<1> SUFFICES ASSUME IInv, UNCHANGED vars PROVE IInv'
  OBVIOUS
<1> USE DEF vars, lists, locks, task, step, bounds, hist
<1>1. ThreadTypes' /\ TasksInv' /\ LocksInv'
  BY DEF IInv, ThreadTypes, TasksInv, LocksInv, TaskOf, Idle, Working, Registering, Unregistering
<1>2. SharedTypes' /\ OneCallout'
  BY DEF IInv, SharedTypes, OneCallout
<1>3. KeptInv'
  BY DEF IInv, KeptInv, InHand, Kept, ProgKept, OneEach, Working, Net
<1>4. /\ \A k \in Keys, n \in Netids : Dispatcher(k, n)' = Dispatcher(k, n)
      /\ \A u \in Threads : (Dispatcher(key[u], Net(u)) = disp[u])' <=> Dispatcher(key[u], Net(u)) = disp[u]
      /\ \A u \in Threads : (Dispatcher(key[u], Net(u)) \in {"none", disp[u]})'
                               <=> Dispatcher(key[u], Net(u)) \in {"none", disp[u]}
      /\ \A u \in Threads : \A n : (Dispatcher(key[u], n) \in {"none", disp[u]})'
                               <=> Dispatcher(key[u], n) \in {"none", disp[u]}
      /\ \A c \in claims \cup unasked :
            (Dispatcher(c.key, c.net) = c.disp)' <=> Dispatcher(c.key, c.net) = c.disp
  BY DEF Dispatcher, Matches, Net
<1>5. BinderInv'
  <2>1. AskedIsInEffect' /\ MappingsAreServed'
    BY <1>4 DEF IInv, BinderInv, AskedIsInEffect, MappingsAreServed
  <2>2. \A t \in Threads : NewXprt(t)' /\ CalledOut(t)' /\ UnregOf(t)'
    BY <1>4 DEF IInv, BinderInv, NewXprt, CalledOut, UnregOf, Served, Leads, Working,
       Registering, Unregistering
  <2> QED
    BY <2>1, <2>2 DEF BinderInv
<1>6. QuietInv'
  BY <1>4 DEF IInv, QuietInv, QuietRegistrationsSucceed, QuietOf, Idle, Working, Registering, Net
<1>7. UnaskedInv'
  BY <1>4 DEF IInv, UnaskedInv, SkipOf, Unasked, Unregistering, Net
<1> QED
  BY <1>1, <1>2, <1>3, <1>5, <1>6, <1>7 DEF IInv

LEMMA StepIInv == IInv /\ [Next]_vars => IInv'
<1>1. ASSUME IInv, NEW t \in Threads, StepOf(t) PROVE IInv'
  BY <1>1, ThreadTypesStep, TasksStep, LocksStep, SharedTypesStep, KeptStep, CalloutsStep,
     BinderStep, UnaskedStep, QuietStep DEF IInv, SharedTypes, Callouts
<1> QED
  BY <1>1, StepCases, CrashStep, StutterStep DEF IInv

-----------------------------------------------------------------------------
(* The theorems. *)

LEMMA IInvHolds == Spec => []IInv
BY InitIInv, StepIInv, PTL DEF Spec

\* What the threads share while they register and unregister stays sound: one open
\* transport for each netid is kept and reused, the two locks are held exactly where the
\* code holds them, and svc_head has one dispatcher for a program on a transport
\* (svc_generic.c: svc_create, svc_simple.c: rpc_reg, svc.c: svc_reg).
THEOREM ListsSound == Spec => []ListsAreSound
<1>1. IInv => ListsAreSound
  <2> SUFFICES ASSUME IInv PROVE ListsAreSound
    OBVIOUS
  <2>0. ThreadTypes /\ TasksInv /\ LocksInv /\ SharedTypes /\ KeptInv /\ OneCallout
    BY DEF IInv
  <2>1. TypeOK
    <3>1. \A c \in Range(callouts) : c.key \in Keys /\ c.net \in Netids
      <4>1. callouts \in Seq(Callouts)
        BY <2>0 DEF SharedTypes, Callouts
      <4>2. \A i \in DOMAIN callouts : callouts[i] \in Callouts
        BY <4>1
      <4> QED
        BY <4>2 DEF Range, Callouts
    <3>2. open \subseteq [net : Netids, port : Ports]
      BY <2>0 DEF SharedTypes, Transports
    <3>3. /\ \A t \in Threads : xprtlist_lock = t => op[t] = "create" /\ pc[t] \notin {"idle", "next"}
          /\ \A t \in Threads : proglst_lock = t <=> op[t] = "rpc_reg" /\ ~Idle(t)
      BY <2>0 DEF LocksInv, Working
    <3> QED
      BY <3>1, <3>2, <3>3 DEF TypeOK
  <2>2. KeptAreShared
    BY <2>0 DEF KeptInv, KeptAreShared, ProgKept, OneEach
  <2>3. OneDispatcher
    <3> SUFFICES ASSUME NEW k \in Keys, NEW n \in Netids PROVE Cardinality(Matches(k, n)) <= 1
      BY DEF OneDispatcher
    <3>1. \A i, j \in Matches(k, n) : i = j
      BY <2>0 DEF OneCallout, Matches
    <3>2. Matches(k, n) = {} \/ \E i : Matches(k, n) = {i}
      BY <3>1
    <3>3. CASE Matches(k, n) = {}
      <4>1. Cardinality({}) = 0
        BY FS_EmptySet
      <4> QED
        BY <3>3, <4>1
    <3>4. ASSUME NEW i, Matches(k, n) = {i} PROVE Cardinality(Matches(k, n)) <= 1
      <4>1. Cardinality({i}) = 1
        BY FS_Singleton
      <4> QED
        BY <3>4, <4>1
    <3> QED
      BY <3>2, <3>3, <3>4
  <2> QED
    BY <2>1, <2>2, <2>3 DEF ListsAreSound
<1> QED
  BY <1>1, IInvHolds, PTL

\* rpcbind and the process agree, whatever threads register and unregister, whichever
\* requests and replies are lost and whatever earlier lives of the process left: what
\* rpcb_set succeeded for is in effect, what rpc_reg registered without rpcb_set is
\* dispatched on an open transport (and need not be in rpcbind), and a mapping of this life
\* is served unless a lost reply or an overlapping svc_unreg excuses it (svc.c: svc_reg,
\* svc_unreg; svc_simple.c: rpc_reg).
THEOREM BinderAndProcessAgree == Spec => []BinderAgrees
<1>1. IInv => BinderAgrees
  <2> SUFFICES ASSUME IInv PROVE BinderAgrees
    OBVIOUS
  <2>1. AskedIsInEffect /\ MappingsAreServed
    BY DEF IInv, BinderInv
  <2>2. \A p \in proglst : [net |-> p.net, port |-> p.port] \in open
    BY DEF IInv, KeptInv, ProgKept
  <2>3. UnaskedIsDispatched
    BY <2>2 DEF IInv, UnaskedInv, Unasked, UnaskedIsDispatched
  <2> QED
    BY <2>1, <2>3 DEF BinderAgrees
<1> QED
  BY <1>1, IInvHolds, PTL

\* A registration that runs alone, loses no message and asks for programs no other routine
\* has, succeeds on every transport: rpcb_unset has removed whatever rpcbind would have
\* refused it for (svc_generic.c: svc_create, svc_simple.c: rpc_reg).
THEOREM QuietSucceed == Spec => []QuietRegistrationsSucceed
<1>1. IInv => QuietRegistrationsSucceed
  BY DEF IInv, QuietInv
<1> QED
  BY <1>1, IInvHolds, PTL
=============================================================================
