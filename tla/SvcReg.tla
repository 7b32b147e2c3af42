------------------------------- MODULE SvcReg -------------------------------
(***************************************************************************)
(* How a server makes its programs reachable: svc_create and               *)
(* svc_tp_create (libsrc/svc_generic.c), rpc_reg (svc_simple.c), svc_reg   *)
(* and svc_unreg (svc.c), called by several threads of a process that      *)
(* crashes and starts again, and the mappings rpcbind keeps meanwhile.     *)
(*                                                                         *)
(* A key is a program with its version, a transport the port it is bound   *)
(* to; the system gives a port out again once it is closed.  Of rpcbind    *)
(* there is the effect of RPCBPROC_SET and UNSET (module RpcbMap); a       *)
(* request to it, or its reply, may be lost.                               *)
(***************************************************************************)
EXTENDS Integers, Sequences, FiniteSets, SequencesExt

CONSTANTS
    Threads, Keys,
    Types,         \* network types: sequences of netids
    Dispatchers,   \* of the programs that call svc_create
    Ports, Nobody,
    MaxOps, MaxFaults, MaxCrashes   \* bounds

ASSUME RegAssumption ==
    /\ Types \subseteq Seq({"udp", "tcp"}) /\ Ports \subseteq Nat \ {0}
    /\ Nobody \notin Threads /\ {"none", "universal"} \cap Dispatchers = {}
    /\ MaxOps \in Nat /\ MaxFaults \in Nat /\ MaxCrashes \in Nat

Netids == {"udp", "tcp"}

VARIABLES
    binder,    \* [port, life]: what rpcbind answers for a key and netid
    open,      \* transports of the process: [net, port]
    callouts,  \* svc_head, front first: [key, net, disp]
    xprtlist, xprtlist_lock, proglst, proglst_lock,
    pc, op, key, disp, left,
    xprt,      \* the transport in hand
    madenow, skip,   \* rpc_reg: made for this registration; rpcb_set is left out
    done,
    ops, faults, life,
    claims,    \* history: registrations that succeeded and nothing has undone
    unasked,   \* history: those rpc_reg made without asking rpcbind (skip)
    excused,   \* history: mappings that a lost reply or a race with svc_unreg has left
    spoilt,    \* history: an svc_unreg of the key overlapped this registration
    quiet, ret \* history: nothing disturbed the operation; how it ended

lists == <<xprtlist, proglst>>
locks == <<xprtlist_lock, proglst_lock>>
task == <<op, key, disp>>
step == <<left, xprt, madenow, skip, done>>
bounds == <<ops, faults, life>>
hist == <<claims, unasked, excused, spoilt, quiet, ret>>
vars == <<binder, open, callouts, lists, locks, pc, task, step, bounds, hist>>

NoXprt == [net |-> "none", port |-> 0]
NoMapping == [port |-> 0, life |-> 0]

Started ==   \* a process with no state
    /\ open' = {} /\ callouts' = << >> /\ xprtlist' = {} /\ proglst' = {}
    /\ xprtlist_lock' = Nobody /\ proglst_lock' = Nobody
    /\ pc' = [t \in Threads |-> "idle"] /\ op' = [t \in Threads |-> "none"]
    /\ key' = [t \in Threads |-> "none"] /\ disp' = [t \in Threads |-> "none"]
    /\ left' = [t \in Threads |-> << >>] /\ xprt' = [t \in Threads |-> NoXprt]
    /\ madenow' = [t \in Threads |-> FALSE] /\ skip' = [t \in Threads |-> FALSE]
    /\ done' = [t \in Threads |-> TRUE]
    /\ claims' = {} /\ unasked' = {} /\ excused' = {} /\ spoilt' = [t \in Threads |-> FALSE]
    /\ quiet' = [t \in Threads |-> FALSE] /\ ret' = [t \in Threads |-> "none"]

Init ==
    /\ binder = [m \in Keys \X Netids |-> NoMapping]
    /\ open = {} /\ callouts = << >> /\ xprtlist = {} /\ proglst = {}
    /\ xprtlist_lock = Nobody /\ proglst_lock = Nobody
    /\ pc = [t \in Threads |-> "idle"] /\ op = [t \in Threads |-> "none"]
    /\ key = [t \in Threads |-> "none"] /\ disp = [t \in Threads |-> "none"]
    /\ left = [t \in Threads |-> << >>] /\ xprt = [t \in Threads |-> NoXprt]
    /\ madenow = [t \in Threads |-> FALSE] /\ skip = [t \in Threads |-> FALSE]
    /\ done = [t \in Threads |-> TRUE]
    /\ ops = 0 /\ faults = 0 /\ life = 1
    /\ claims = {} /\ unasked = {} /\ excused = {} /\ spoilt = [t \in Threads |-> FALSE]
    /\ quiet = [t \in Threads |-> FALSE] /\ ret = [t \in Threads |-> "none"]

At(t, from, to) == pc[t] = from /\ pc' = [pc EXCEPT ![t] = to]
Idle(t) == pc[t] = "idle"
Net(t) == xprt[t].net
Fault == faults < MaxFaults /\ faults' = faults + 1 /\ quiet' = [t \in Threads |-> FALSE]

\* svc_find.
Matches(k, n) == {i \in DOMAIN callouts : callouts[i].key = k /\ callouts[i].net = n}
Dispatcher(k, n) == LET m == Matches(k, n)
                    IN  IF m = {} THEN "none"
                        ELSE callouts[CHOOSE i \in m : \A j \in m : i <= j].disp
-----------------------------------------------------------------------------
(* Calls of the program *)

Begin(t, o, k, d, type, to) ==
    /\ ops < MaxOps /\ ops' = ops + 1
    /\ At(t, "idle", to)
    /\ op' = [op EXCEPT ![t] = o] /\ key' = [key EXCEPT ![t] = k]
    /\ disp' = [disp EXCEPT ![t] = d] /\ left' = [left EXCEPT ![t] = type]
    /\ done' = [done EXCEPT ![t] = TRUE] /\ ret' = [ret EXCEPT ![t] = "none"]
    /\ quiet' = [s \in Threads |->
                    /\ s = t /\ \A u \in Threads \ {t} : Idle(u)
                    /\ \A n \in Range(type) : Dispatcher(k, n) \in {"none", d}]
    /\ UNCHANGED <<binder, open, callouts, lists, xprt, madenow, skip, faults, life, excused>>
OverlapsUnreg(t, k) == \E u \in Threads : ~Idle(u) /\ op[u] = "unreg" /\ key[u] = k

BeginCreate(t, k, d, type) ==
    /\ Begin(t, "create", k, d, type, "next")
    /\ spoilt' = [spoilt EXCEPT ![t] = OverlapsUnreg(t, k)]
    /\ UNCHANGED <<locks, claims, unasked>>
BeginReg(t, k, type) ==
    /\ proglst_lock = Nobody /\ proglst_lock' = t
    /\ Begin(t, "rpc_reg", k, "universal", type, "next")
    /\ spoilt' = [spoilt EXCEPT ![t] = OverlapsUnreg(t, k)]
    /\ UNCHANGED <<xprtlist_lock, claims, unasked>>
BeginUnreg(t, k) ==
    /\ Begin(t, "unreg", k, "none", << >>, "unset_all")
    /\ spoilt' = [u \in Threads |-> spoilt[u] \/ (~Idle(u) /\ key[u] = k)]
    /\ claims' = {c \in claims : c.key # k} /\ unasked' = {c \in unasked : c.key # k}
    /\ UNCHANGED locks
-----------------------------------------------------------------------------
(* svc_create and rpc_reg, for each netid *)

Kept(t) == IF op[t] = "create" THEN xprtlist ELSE {[net |-> p.net, port |-> p.port] : p \in proglst}
Registered(t, n) == op[t] = "rpc_reg" /\ \E p \in proglst : p.key = key[t] /\ p.net = n

\* svc_tli_create: a descriptor, bound to a port no one else has.
TliCreate(t, n) ==
    \E p \in Ports :
       /\ [net |-> n, port |-> p] \notin open
       /\ xprt' = [xprt EXCEPT ![t] = [net |-> n, port |-> p]]
       /\ open' = open \cup {xprt'[t]}

\* Mutant: the list of transports is not locked.
NextNetidUnlocked(t) ==
    /\ pc[t] = "next" /\ left[t] # << >> /\ left' = [left EXCEPT ![t] = Tail(@)]
    /\ LET n == Head(left[t])
           kept == {x \in Kept(t) : x.net = n}
       IN  /\ pc' = [pc EXCEPT ![t] = IF Registered(t, n) THEN "callout" ELSE "unset"]
           /\ skip' = [skip EXCEPT ![t] = Registered(t, n)]
           /\ madenow' = [madenow EXCEPT ![t] = kept = {}]
           /\ \/ kept = {} /\ TliCreate(t, n)
              \/ \E x \in kept : xprt' = [xprt EXCEPT ![t] = x] /\ UNCHANGED open
    /\ UNCHANGED <<binder, callouts, lists, locks, task, done, bounds, hist>>
\* The transport there is for the netid, or a new one.
NextNetid(t) ==
    /\ pc[t] = "next" /\ left[t] # << >> /\ left' = [left EXCEPT ![t] = Tail(@)]
    /\ \/ op[t] = "create" /\ xprtlist_lock = Nobody /\ xprtlist_lock' = t
       \/ op[t] = "rpc_reg" /\ UNCHANGED xprtlist_lock
    /\ LET n == Head(left[t])
           kept == {x \in Kept(t) : x.net = n}
       IN  /\ pc' = [pc EXCEPT ![t] = IF Registered(t, n) THEN "callout" ELSE "unset"]
           /\ skip' = [skip EXCEPT ![t] = Registered(t, n)]
           /\ madenow' = [madenow EXCEPT ![t] = kept = {}]
           /\ \/ kept = {} /\ TliCreate(t, n)
              \/ \E x \in kept : xprt' = [xprt EXCEPT ![t] = x] /\ UNCHANGED open
    /\ UNCHANGED <<binder, callouts, lists, proglst_lock, task, done, bounds, hist>>
\* A new one cannot be opened or bound.
CannotBind(t) ==
    /\ pc[t] = "next" /\ left[t] # << >> /\ left' = [left EXCEPT ![t] = Tail(@)]
    /\ op[t] = "create" => xprtlist_lock = Nobody
    /\ \A x \in Kept(t) : x.net # Head(left[t])
    /\ Fault /\ done' = [done EXCEPT ![t] = FALSE]
    /\ UNCHANGED <<binder, open, callouts, lists, locks, pc, task, xprt, madenow, skip, ops, life,
                   claims, unasked, excused, spoilt, ret>>

\* Mutant: what an earlier life has left in rpcbind stays.
UnsetNot(t) ==
    /\ At(t, "unset", "callout")
    /\ UNCHANGED <<binder, open, callouts, lists, locks, task, step, bounds, hist>>
\* rpcb_unset for the netid.
Unset(t) ==
    /\ pc[t] = "unset" /\ pc' = [pc EXCEPT ![t] = "callout"]
    /\ \/ /\ binder' = [binder EXCEPT ![<<key[t], Net(t)>>] = NoMapping]
          /\ claims' = {c \in claims : c.key # key[t] \/ c.net # Net(t)}
          /\ excused' = excused \ {<<key[t], Net(t)>>} /\ UNCHANGED <<faults, quiet>>
       \/ Fault /\ UNCHANGED <<binder, claims, excused>>
    /\ UNCHANGED <<open, callouts, lists, locks, task, step, ops, life, unasked, spoilt, ret>>

\* svc_reg as far as svc_lock is held.
NewCallout(t) == [key |-> key[t], net |-> Net(t), disp |-> disp[t]]
Callout(t) ==
    /\ LET d == Dispatcher(key[t], Net(t))
           after == IF skip[t] THEN "registered" ELSE "set"
       IN  \/ /\ d = "none" /\ At(t, "callout", after)
              /\ callouts' = <<NewCallout(t)>> \o callouts
           \/ d = disp[t] /\ At(t, "callout", after) /\ UNCHANGED callouts
           \/ d \notin {"none", disp[t]} /\ At(t, "callout", "failed") /\ UNCHANGED callouts
    /\ unasked' = IF pc'[t] = "registered" /\ ~spoilt[t] THEN unasked \cup {NewCallout(t)}
                  ELSE unasked
    /\ UNCHANGED <<binder, open, lists, locks, task, step, bounds, claims, excused, spoilt, quiet, ret>>

\* rpcb_set; rpcbind refuses another address than the one it has.
Granted(t) == binder[<<key[t], Net(t)>>].port \in {0, xprt[t].port}
MapIt(t) == binder' = [binder EXCEPT ![<<key[t], Net(t)>>] = [port |-> xprt[t].port, life |-> life]]
Set(t) ==
    /\ pc[t] = "set"
    /\ \/ /\ Granted(t) /\ pc' = [pc EXCEPT ![t] = "registered"] /\ MapIt(t)
          /\ IF spoilt[t] THEN excused' = excused \cup {<<key[t], Net(t)>>} /\ UNCHANGED claims
             ELSE /\ claims' = claims \cup {NewCallout(t)}
                  /\ excused' = excused \ {<<key[t], Net(t)>>}
          /\ UNCHANGED <<faults, quiet>>
       \/ /\ ~Granted(t) /\ pc' = [pc EXCEPT ![t] = "failed"]
          /\ UNCHANGED <<binder, faults, quiet, claims, excused>>
       \/ /\ Fault /\ pc' = [pc EXCEPT ![t] = "failed"]     \* the request or the reply is lost
          /\ \/ UNCHANGED <<binder, excused>>
             \/ Granted(t) /\ MapIt(t) /\ excused' = excused \cup {<<key[t], Net(t)>>}
          /\ UNCHANGED claims
    /\ UNCHANGED <<open, callouts, lists, locks, task, step, ops, life, unasked, spoilt, ret>>

Unlock(t) == IF op[t] = "create" THEN xprtlist_lock' = Nobody ELSE UNCHANGED xprtlist_lock

\* The transport is kept for the programs to come.
Keep(t) ==
    /\ At(t, "registered", "next")
    /\ IF op[t] = "create" THEN xprtlist' = xprtlist \cup {xprt[t]} /\ UNCHANGED proglst
       ELSE /\ proglst' = proglst \cup {[key |-> key[t], net |-> Net(t), port |-> xprt[t].port]}
            /\ UNCHANGED xprtlist
    /\ xprt' = [xprt EXCEPT ![t] = NoXprt]
    /\ Unlock(t)
    /\ UNCHANGED <<binder, open, callouts, proglst_lock, task, left, madenow, skip, done, bounds, hist>>

\* Mutant: a transport other programs use goes too.
DropAlways(t) ==
    /\ At(t, "failed", "next") /\ done' = [done EXCEPT ![t] = FALSE]
    /\ open' = open \ {xprt[t]}
    /\ xprt' = [xprt EXCEPT ![t] = NoXprt]
    /\ Unlock(t)
    /\ UNCHANGED <<binder, callouts, lists, proglst_lock, task, left, madenow, skip, bounds, hist>>
\* Mutant: a failed registration returns with the lock.
DropLocked(t) ==
    /\ At(t, "failed", "next") /\ done' = [done EXCEPT ![t] = FALSE]
    /\ open' = IF madenow[t] THEN open \ {xprt[t]} ELSE open
    /\ xprt' = [xprt EXCEPT ![t] = NoXprt]
    /\ UNCHANGED <<binder, callouts, lists, locks, task, left, madenow, skip, bounds, hist>>
\* svc_reg has failed: a new transport is destroyed, its callout stays.
Drop(t) ==
    /\ At(t, "failed", "next") /\ done' = [done EXCEPT ![t] = FALSE]
    /\ open' = IF madenow[t] THEN open \ {xprt[t]} ELSE open
    /\ xprt' = [xprt EXCEPT ![t] = NoXprt]
    /\ Unlock(t)
    /\ UNCHANGED <<binder, callouts, lists, proglst_lock, task, left, madenow, skip, bounds, hist>>

\* The call ends, and with it its locals.
Ended(t) ==
    /\ op' = [op EXCEPT ![t] = "none"] /\ key' = [key EXCEPT ![t] = "none"]
    /\ disp' = [disp EXCEPT ![t] = "none"] /\ spoilt' = [spoilt EXCEPT ![t] = FALSE]
    /\ madenow' = [madenow EXCEPT ![t] = FALSE] /\ skip' = [skip EXCEPT ![t] = FALSE]
    /\ done' = [done EXCEPT ![t] = TRUE] /\ quiet' = [quiet EXCEPT ![t] = FALSE]
    /\ UNCHANGED <<left, xprt>>
Return(t) ==
    /\ left[t] = << >> /\ At(t, "next", "idle")
    /\ ret' = [ret EXCEPT ![t] = IF ~done[t] /\ quiet[t] THEN "refused" ELSE "returned"]
    /\ IF op[t] = "rpc_reg" THEN proglst_lock' = Nobody ELSE UNCHANGED proglst_lock
    /\ Ended(t)
    /\ UNCHANGED <<binder, open, callouts, lists, xprtlist_lock, bounds, claims, unasked, excused>>
-----------------------------------------------------------------------------
(* svc_unreg *)

UnsetAll(t) ==
    /\ At(t, "unset_all", "remove")
    /\ \/ /\ binder' = [m \in Keys \X Netids |-> IF m[1] = key[t] THEN NoMapping ELSE binder[m]]
          /\ excused' = {e \in excused : e[1] # key[t]} /\ UNCHANGED <<faults, quiet>>
       \/ /\ Fault /\ UNCHANGED binder
          /\ excused' = excused \cup ({key[t]} \X Netids)
    /\ UNCHANGED <<open, callouts, lists, locks, task, step, ops, life, claims, unasked, spoilt, ret>>

\* The callouts without those of program k, in the order they are in (a set of one).
Without(k) ==
    LET rest == {i \in DOMAIN callouts : callouts[i].key # k}
        inOrder == {f \in Surjection(1 .. Cardinality(rest), rest) :
                       \A i, j \in DOMAIN f : i < j => f[i] < f[j]}
    IN  {[i \in DOMAIN f |-> callouts[f[i]]] : f \in inOrder}

RemoveCallouts(t) ==
    /\ At(t, "remove", "idle")
    /\ callouts' \in Without(key[t])
    /\ ret' = [ret EXCEPT ![t] = "returned"] /\ Ended(t)
    /\ UNCHANGED <<binder, open, lists, locks, bounds, claims, unasked, excused>>
-----------------------------------------------------------------------------
Crash ==
    /\ life <= MaxCrashes /\ life' = life + 1
    /\ Started /\ UNCHANGED <<binder, ops, faults>>

Run(t) == \/ NextNetid(t) \/ Unset(t) \/ Callout(t) \/ Set(t) \/ Keep(t) \/ Drop(t) \/ Return(t)
          \/ UnsetAll(t) \/ RemoveCallouts(t)
Next ==
    \/ \E t \in Threads :
          \/ Run(t) \/ CannotBind(t)
          \/ \E k \in Keys :
                \/ \E type \in Types, d \in Dispatchers : BeginCreate(t, k, d, type)
                \/ \E type \in Types : BeginReg(t, k, type)
                \/ BeginUnreg(t, k)
    \/ Crash
Spec == Init /\ [][Next]_vars
FairSpec == Spec /\ \A t \in Threads : WF_vars(Run(t))
-----------------------------------------------------------------------------
TypeOK ==
    /\ \A c \in Range(callouts) : c.key \in Keys /\ c.net \in Netids
    /\ open \subseteq [net : Netids, port : Ports]
    /\ \A t \in Threads : xprtlist_lock = t => op[t] = "create" /\ pc[t] \notin {"idle", "next"}
    /\ \A t \in Threads : proglst_lock = t <=> op[t] = "rpc_reg" /\ ~Idle(t)

\* One transport for each netid serves all programs of svc_create, another all those of
\* rpc_reg, and a registration that fails closes neither (svc_generic.c: xprtlist,
\* svc_simple.c: proglst).
KeptAreShared ==
    \A kept \in {xprtlist, {[net |-> p.net, port |-> p.port] : p \in proglst}} :
        /\ kept \subseteq open
        /\ \A x, y \in kept : x.net = y.net => x = y

\* A program is dispatched to one routine on a transport (svc.c: svc_reg).
OneDispatcher == \A k \in Keys, n \in Netids : Cardinality(Matches(k, n)) <= 1

\* What the threads of the process share while they register and unregister.
ListsAreSound == TypeOK /\ KeptAreShared /\ OneDispatcher

\* What rpcb_set succeeded for is in effect until the program is unregistered or
\* registered again: rpcbind names an open transport of this process, and requests to it
\* reach the routine (svc.c: svc_reg).
AskedIsInEffect ==
    \A c \in claims :
        /\ [net |-> c.net, port |-> binder[<<c.key, c.net>>].port] \in open
        /\ Dispatcher(c.key, c.net) = c.disp

\* Of a registration that rpc_reg made without asking rpcbind less is sure: the program
\* is dispatched on an open transport that rpc_reg keeps.  After svc_unreg rpcbind names
\* nothing for it (SkippedIsRegistered fails).
UnaskedIsDispatched ==
    \A c \in unasked :
        /\ \E p \in proglst : /\ p.key = c.key /\ p.net = c.net
                              /\ [net |-> p.net, port |-> p.port] \in open
        /\ Dispatcher(c.key, c.net) = c.disp

\* Where rpc_reg leaves rpcb_set out, rpcbind has the program already: "Check if this
\* (program, version, netid) had already been registered.  The check may save a few RPC
\* calls to rpcbind" (svc_simple.c:187).  False: svc_unreg leaves proglst as it is.
SkippedIsRegistered ==
    \A t \in Threads :
        pc[t] = "registered" /\ skip[t] => binder[<<key[t], Net(t)>>].port = xprt[t].port

\* What rpcbind has from this process leads to an open transport that dispatches the
\* program, unless a reply of rpcbind was lost or svc_unreg, which takes no lock across
\* its two steps, overlapped the registration (svc.c: svc_reg, svc_unreg).
MappingsAreServed ==
    \A k \in Keys, n \in Netids :
        binder[<<k, n>>].life = life /\ <<k, n>> \notin excused =>
            /\ [net |-> n, port |-> binder[<<k, n>>].port] \in open
            /\ Dispatcher(k, n) # "none"

\* Both ways: what rpcb_set succeeded for is in rpcbind, and what is in rpcbind is served;
\* what was never asked of rpcbind is dispatched at least.
BinderAgrees == AskedIsInEffect /\ UnaskedIsDispatched /\ MappingsAreServed

\* Whatever an earlier life of the process, a request whose reply was lost or an svc_unreg
\* that was has left in rpcbind, a registration that nothing disturbs succeeds on every
\* transport (svc_generic.c and svc_simple.c: rpcb_unset before svc_reg).
QuietRegistrationsSucceed == \A t \in Threads : ret[t] # "refused"

\* Every call returns (xprtlist_lock, proglst_lock).
CallsReturn == \A t \in Threads : (pc[t] # "idle") ~> (pc[t] = "idle")
=============================================================================
