---------------------------- MODULE SvcRunProofs ----------------------------
(***************************************************************************)
(* Proofs about the stream server's registry and the loop of svc_run, for  *)
(* any descriptors, limits of the set, connections and requests: the views *)
(* of the descriptors agree and nothing freed is used, the loop returns    *)
(* only for a reason, and connections end for a cause.                     *)
(***************************************************************************)
EXTENDS SvcRun, FiniteSetTheorems, SequenceTheorems, WellFoundedInduction, TLAPS

(* The inductive invariant. *)

NoRepeats(slots) ==
    \A i, j \in DOMAIN slots : slots[i] = slots[j] /\ slots[i] # -1 => i = j

Registered == {f \in Fds : xports[f] # NoXprt}
IsMaximum(m, S) == m \in S \cup {-1} /\ \A f \in S : f <= m
Serving == pc \in {"recv", "dispatch", "check", "stat"}

\* The rendezvous transport is there throughout; a connection has another descriptor,
\* and those to come are not there yet.
TransportsInv ==
    /\ 0 \in open /\ xports[0] = 0
    /\ xp[0].st = "live" /\ ~xp[0].died /\ xp[0].fd = 0
    /\ \A x \in Xprts : IsConn(x) =>
        /\ xp[x].st = "live" => xp[x].fd \in Fds \ {0}
        /\ x > nconns => xp[x].st = "none"

\* The set, its maximum and the poll array, with the maximum said without Max.
SetsInv ==
    /\ fdset \subseteq Registered
    /\ ~exited /\ fd_lock = "free" => fdset = Registered /\ IsMaximum(fdmax, fdset)
    /\ fdset \subseteq Range(fdp)

\* The transport being served is that of the first descriptor reported, and live unless its
\* own routine destroyed it; requests are dispatched for connections, and the lock stays
\* held only in rendezvous_request.
Gone(x) == xp[x].st = "freed" /\ xports[xp[x].fd] = NoXprt /\ xp[x].fd \notin open
ServingInv ==
    /\ Serving => /\ ready # << >> /\ xp[cur].fd = Head(ready)
                  /\ xp[cur].st = "live" \/ (pc = "stat" /\ Gone(cur))
    /\ pc = "dispatch" => IsConn(cur)
    /\ fd_lock # "free" => pc = "check"

\* The loop polls something until svc_exit, and ends for a reason.
LoopInv ==
    /\ pc = "poll" /\ ~exited => pfd # << >>
    /\ LoopEndsForAReason

\* Unless a closed descriptor was left registered: what is registered is open and in one
\* place only, and what is live is registered.
OpenInv ==
    ~stale =>
        /\ fdset \subseteq open
        /\ Range(fdp) \subseteq fdset \cup {-1}
        /\ NoRepeats(fdp)
        /\ fd_lock = "free" =>
            /\ Registered \subseteq open
            /\ \A x \in Xprts : xp[x].st = "live" => xports[xp[x].fd] = x

\* Then what is polled is open, and what was polled and reported is so once.
PolledInv ==
    ~stale =>
        /\ pc = "poll" => Range(pfd) \subseteq open \cup {-1}
        /\ NoRepeats(pfd) /\ NoRepeats(ready)

\* What was reported ready and is still to be served.
Waiting == IF Serving THEN Tail(ready) ELSE ready
HasReason(f) == HasEvent(f) \/ f \in reused

\* Unless a closed descriptor was left registered: connections that are read, or wait to
\* be, have an event or are new on a descriptor that had one.
EventsInv ==
    ~stale /\ pc # "crashed" =>
        /\ \A f \in Range(Waiting) : f # 0 /\ xports[f] # NoXprt => HasReason(f)
        /\ pc = "recv" /\ IsConn(cur) => HasReason(xp[cur].fd)

IInv ==
    /\ TypeOK /\ TransportsInv /\ RegistryIsLive /\ SetsInv
    /\ ServingInv /\ LoopInv /\ OpenInv /\ PolledInv /\ EventsInv
-----------------------------------------------------------------------------
(* Greatest and least members. *)

LEMMA LeastMember ==
    ASSUME NEW T, T \subseteq Nat, T # {}
    PROVE  \E n \in T : \A m \in T : n <= m
<1> DEFINE R == OpToRel(<, Nat)
<1>1. IsWellFoundedOn(R, Nat)
  BY NatLessThanWellFounded
<1> HIDE DEF R
<1>2. PICK n \in T : \A m \in T : <<m, n>> \notin R
  BY <1>1, WFMin, Zenon
<1>3. \A m, k \in Nat : m < k => <<m, k>> \in R
  BY DEF R, OpToRel
<1>4. \A m \in T : ~(m < n)
  BY <1>2, <1>3
<1> QED
  BY <1>4

\* Max of a set of integers that is not empty and has a bound.
LEMMA MaxIsGreatest ==
    ASSUME NEW S \in SUBSET Int, S # {}, NEW b \in Int, \A n \in S : n <= b
    PROVE  Max(S) \in S /\ \A n \in S : n <= Max(S)
<1> DEFINE T == {b - n : n \in S}
<1>1. T \subseteq Nat /\ T # {}
  <2>1. ASSUME NEW n \in S PROVE b - n \in Nat
    <3>1. n \in Int /\ n <= b
      OBVIOUS
    <3> QED BY <3>1
  <2> QED BY <2>1
<1>2. PICK d \in T : \A e \in T : d <= e
  BY <1>1, LeastMember
<1>3. PICK n \in S : d = b - n
  BY <1>2
<1>4. \A m \in S : n >= m
  <2> TAKE m \in S
  <2>1. b - n <= b - m
    BY <1>2, <1>3
  <2> QED BY <2>1
<1>5. \E x \in S : \A y \in S : x >= y
  BY <1>4
<1>6. Max(S) \in S /\ \A y \in S : Max(S) >= y
  BY <1>5 DEF Max
<1> QED BY <1>6

\* Min of a set of naturals that is not empty.
LEMMA MinIsLeast ==
    ASSUME NEW S \in SUBSET Nat, S # {}
    PROVE  Min(S) \in S /\ \A n \in S : Min(S) <= n
<1>1. \E x \in S : \A y \in S : x =< y
  BY LeastMember
<1> QED BY <1>1 DEF Min

\* A maximum of a set of descriptors is its Max, with -1 for none.
LEMMA MaximumIsMax ==
    ASSUME NEW S \in SUBSET Nat, NEW m \in Int, IsMaximum(m, S)
    PROVE  m = Max(S \cup {-1})
<1>1. S \cup {-1} \in SUBSET Int /\ m \in S \cup {-1} /\ \A n \in S \cup {-1} : n <= m
  BY DEF IsMaximum
<1>2. Max(S \cup {-1}) \in S \cup {-1} /\ m <= Max(S \cup {-1})
  BY <1>1, MaxIsGreatest
<1>3. Max(S \cup {-1}) <= m /\ Max(S \cup {-1}) \in Int
  BY <1>1, <1>2
<1> QED BY <1>2, <1>3

\* Sanitizing finds the greatest member that is not above the maximum.
LEMMA SanitizeFinds ==
    ASSUME NEW S \in SUBSET Nat, NEW m \in Int, m >= -1
    PROVE  IsMaximum(Sanitize(m, S), {f \in S : f <= m})
<1> DEFINE T == {f \in S : f <= m} \cup {-1}
<1>1. T \in SUBSET Int /\ T # {} /\ \A n \in T : n <= m
  <2>1. ASSUME NEW n \in T PROVE n \in Int /\ n <= m
    <3>1. CASE n \in {f \in S : f <= m}
      BY <3>1
    <3>2. CASE n = -1
      BY <3>2
    <3> QED BY <3>1, <3>2
  <2> QED BY <2>1
<1>2. Max(T) \in T /\ \A n \in T : n <= Max(T)
  BY <1>1, MaxIsGreatest
<1> QED BY <1>2 DEF Sanitize, IsMaximum
-----------------------------------------------------------------------------
(* The poll array. *)

\* A descriptor that is added is in the array once, and nothing else changes.
LEMMA PollAddAdds ==
    ASSUME NEW slots \in Seq(Fds \cup {-1}), NEW fd \in Fds
    PROVE  /\ PollAdd(slots, fd) \in Seq(Fds \cup {-1})
           /\ Range(PollAdd(slots, fd)) \subseteq Range(slots) \cup {fd}
           /\ (Range(slots) \ {-1}) \cup {fd} \subseteq Range(PollAdd(slots, fd))
           /\ NoRepeats(slots) /\ fd \notin Range(slots) => NoRepeats(PollAdd(slots, fd))
<1> DEFINE unused == {i \in DOMAIN slots : slots[i] = -1}
           at == IF unused # {} THEN Min(unused) ELSE Len(slots) + 1
           new == PollAdd(slots, fd)
<1>0. Len(slots) \in Nat /\ DOMAIN slots = 1..Len(slots)
  OBVIOUS
<1>1. CASE unused # {}
  <2>1. at \in DOMAIN slots /\ slots[at] = -1
    <3>1. unused \in SUBSET Nat
      BY <1>0
    <3>2. Min(unused) \in unused
      BY <1>1, <3>1, MinIsLeast
    <3> QED BY <1>1, <3>2
  <2>2. new = [slots EXCEPT ![at] = fd]
    BY <1>1 DEF PollAdd
  <2> HIDE DEF at, new, unused
  <2>3. /\ new \in Seq(Fds \cup {-1}) /\ DOMAIN new = DOMAIN slots /\ new[at] = fd
        /\ \A i \in DOMAIN slots : i # at => new[i] = slots[i]
    BY <2>1, <2>2
  <2>4. NoRepeats(slots) /\ fd \notin Range(slots) => NoRepeats(new)
    BY <2>1, <2>3 DEF NoRepeats, Range
  <2>5. Range(new) \subseteq Range(slots) \cup {fd} /\ (Range(slots) \ {-1}) \cup {fd} \subseteq Range(new)
    BY <2>1, <2>3 DEF Range
  <2> QED BY <2>3, <2>4, <2>5 DEF new
<1>2. CASE unused = {}
  <2>1. new = Append(slots, fd)
    BY <1>2 DEF PollAdd
  <2> HIDE DEF at, new, unused
  <2>2. /\ new \in Seq(Fds \cup {-1}) /\ DOMAIN new = 1..(Len(slots) + 1) /\ new[Len(slots) + 1] = fd
        /\ \A i \in DOMAIN slots : new[i] = slots[i]
    BY <2>1
  <2>3. \A i \in DOMAIN new : i = Len(slots) + 1 \/ i \in DOMAIN slots
    BY <1>0, <2>2
  <2>4. NoRepeats(slots) /\ fd \notin Range(slots) => NoRepeats(new)
    BY <1>0, <2>2, <2>3 DEF NoRepeats, Range
  <2>5. Range(new) \subseteq Range(slots) \cup {fd} /\ (Range(slots) \ {-1}) \cup {fd} \subseteq Range(new)
    BY <1>0, <2>2, <2>3 DEF Range
  <2> QED BY <2>2, <2>4, <2>5 DEF new
<1> QED BY <1>1, <1>2

\* The start of a sequence.
LEMMA StartOf ==
    ASSUME NEW S, NEW s \in Seq(S), NEW n \in 0..Len(s)
    PROVE  /\ SubSeq(s, 1, n) \in Seq(S) /\ DOMAIN SubSeq(s, 1, n) = 1..n
           /\ Len(SubSeq(s, 1, n)) = n
           /\ \A i \in 1..n : SubSeq(s, 1, n)[i] = s[i]
<1>1. n \in Int /\ \A i \in 1..n : s[i] \in S
  OBVIOUS
<1>2. /\ SubSeq(s, 1, n) \in Seq(S)
      /\ Len(SubSeq(s, 1, n)) = IF 1 <= n THEN n - 1 + 1 ELSE 0
      /\ \A i \in 1..(n - 1 + 1) : SubSeq(s, 1, n)[i] = s[1 + i - 1]
  BY <1>1, SubSeqProperties
<1>3. Len(SubSeq(s, 1, n)) = n
  BY <1>2
<1>4. DOMAIN SubSeq(s, 1, n) = 1..n
  BY <1>2, <1>3
<1>5. \A i \in 1..n : SubSeq(s, 1, n)[i] = s[i]
  BY <1>2
<1> QED BY <1>2, <1>3, <1>4, <1>5

\* Cutting an array behind the last slot in use loses no descriptor.
Trimmed(slots) == SubSeq(slots, 1, Max({i \in DOMAIN slots : slots[i] # -1} \cup {0}))
LEMMA TrimKeeps ==
    ASSUME NEW slots \in Seq(Fds \cup {-1})
    PROVE  /\ Trimmed(slots) \in Seq(Fds \cup {-1})
           /\ DOMAIN Trimmed(slots) \subseteq DOMAIN slots
           /\ \A i \in DOMAIN Trimmed(slots) : Trimmed(slots)[i] = slots[i]
           /\ Range(slots) \ {-1} \subseteq Range(Trimmed(slots))
<1> DEFINE cut == Trimmed(slots)
           used == {i \in DOMAIN slots : slots[i] # -1} \cup {0}
           last == Max(used)
<1>1. Len(slots) \in Nat /\ DOMAIN slots = 1..Len(slots)
  OBVIOUS
<1>2. used \in SUBSET Int /\ used # {} /\ \A i \in used : i \in 0..Len(slots)
  BY <1>1
<1>3. last \in used /\ \A i \in used : i <= last
  <2>1. \A i \in used : i <= Len(slots)
    BY <1>1, <1>2
  <2>2. Len(slots) \in Int
    BY <1>1
  <2> HIDE DEF used
  <2> QED BY <1>2, <2>1, <2>2, MaxIsGreatest
<1>4. last \in 0..Len(slots)
  BY <1>2, <1>3
<1>5. cut = SubSeq(slots, 1, last)
  BY DEF Trimmed
<1> HIDE DEF last, used, cut
<1>6. /\ cut \in Seq(Fds \cup {-1}) /\ DOMAIN cut = 1..last
      /\ \A i \in 1..last : cut[i] = slots[i]
  <2>1. /\ SubSeq(slots, 1, last) \in Seq(Fds \cup {-1}) /\ DOMAIN SubSeq(slots, 1, last) = 1..last
        /\ \A i \in 1..last : SubSeq(slots, 1, last)[i] = slots[i]
    BY <1>4, StartOf
  <2> QED BY <1>5, <2>1
<1>7. ASSUME NEW i \in DOMAIN slots, slots[i] # -1 PROVE slots[i] \in Range(cut)
  <2>1. i \in 1..last
    <3>1. i \in used
      BY <1>7 DEF used
    <3> QED BY <1>1, <1>3, <1>4, <3>1
  <2>2. i \in DOMAIN cut /\ cut[i] = slots[i]
    BY <1>6, <2>1
  <2> QED BY <2>2 DEF Range
<1>8. DOMAIN cut \subseteq DOMAIN slots
  BY <1>1, <1>4, <1>6
<1>9. Range(slots) \ {-1} \subseteq Range(cut)
  BY <1>7 DEF Range
<1> QED BY <1>1, <1>4, <1>6, <1>8, <1>9 DEF cut

\* Descriptors that are deleted leave their first slot, and nothing else changes.
LEMMA PollDelDeletes ==
    ASSUME NEW slots \in Seq(Fds \cup {-1}), NEW gone \in SUBSET Fds
    PROVE  /\ PollDel(slots, gone) \in Seq(Fds \cup {-1})
           /\ Range(PollDel(slots, gone)) \subseteq Range(slots) \cup {-1}
           /\ Range(slots) \ (gone \cup {-1}) \subseteq Range(PollDel(slots, gone))
           /\ NoRepeats(slots) => /\ NoRepeats(PollDel(slots, gone))
                                  /\ Range(PollDel(slots, gone)) \cap gone = {}
<1> DEFINE first(i) == \A j \in 1..(i - 1) : slots[j] # slots[i]
           rest == [i \in DOMAIN slots |->
                       IF slots[i] \in gone /\ first(i) THEN -1 ELSE slots[i]]
           new == PollDel(slots, gone)
<1>1. Len(slots) \in Nat /\ DOMAIN slots = 1..Len(slots) /\ -1 \notin gone
  BY SvcAssumption
<1>2. rest \in Seq(Fds \cup {-1})
  BY <1>1
<1>3. NoRepeats(slots) => \A i \in DOMAIN slots : slots[i] \in gone => first(i)
  BY <1>1 DEF NoRepeats
<1>4. /\ DOMAIN rest = DOMAIN slots
      /\ \A i \in DOMAIN slots : rest[i] = slots[i] \/ rest[i] = -1
      /\ \A i \in DOMAIN slots : slots[i] \notin gone => rest[i] = slots[i]
      /\ NoRepeats(slots) => \A i \in DOMAIN slots : rest[i] \notin gone
  BY <1>1, <1>3
<1>5. new = rest \/ new = Trimmed(rest)
  BY DEF PollDel, Trimmed
<1> HIDE DEF new, rest
<1>6. /\ new \in Seq(Fds \cup {-1}) /\ DOMAIN new \subseteq DOMAIN slots
      /\ \A i \in DOMAIN new : new[i] = rest[i]
      /\ Range(rest) \ {-1} \subseteq Range(new)
  BY <1>2, <1>4, <1>5, TrimKeeps
<1>7. Range(new) \subseteq Range(slots) \cup {-1}
  BY <1>4, <1>6 DEF Range
<1>8. Range(slots) \ (gone \cup {-1}) \subseteq Range(new)
  BY <1>4, <1>6 DEF Range
<1>9. NoRepeats(slots) => NoRepeats(new) /\ Range(new) \cap gone = {}
  BY <1>4, <1>6 DEF Range, NoRepeats
<1> QED BY <1>6, <1>7, <1>8, <1>9 DEF new

\* A listing of a set has its members, each once.
LEMMA ListingsList ==
    ASSUME NEW S, IsFiniteSet(S), NEW s \in Listings(S)
    PROVE  /\ s \in Seq(S) /\ Range(s) \subseteq S
           /\ \A i, j \in DOMAIN s : s[i] = s[j] => i = j
           /\ S # {} => s # << >>
<1>1. Cardinality(S) \in Nat
  BY FS_CardinalityType
<1>2. S # {} => Cardinality(S) # 0
  BY FS_EmptySet
<1>3. /\ s \in [1..Cardinality(S) -> S] /\ DOMAIN s = 1..Cardinality(S)
      /\ \A i, j \in DOMAIN s : i # j => s[i] # s[j]
  BY DEF Listings
<1>4. s \in Seq(S) /\ Len(s) = Cardinality(S)
  BY <1>1, <1>3
<1> QED BY <1>1, <1>2, <1>3, <1>4 DEF Range

\* What is polled is what was copied, or the start of it.
LEMMA PolledIsCopied ==
    ASSUME TypeOK
    PROVE  /\ Polled \in Seq(Fds \cup {-1}) /\ Range(Polled) \subseteq Range(pfd)
           /\ NoRepeats(pfd) => NoRepeats(Polled)
           /\ pfd # << >> /\ fdp # << >> => Polled # << >>
<1>1. pfd \in Seq(Fds \cup {-1}) /\ fdp \in Seq(Fds \cup {-1})
  BY DEF TypeOK
<1>2. CASE Polled = pfd
  BY <1>1, <1>2
<1>3. CASE Polled = SubSeq(pfd, 1, Len(fdp)) /\ Len(fdp) < Len(pfd)
  <2>1. /\ Len(fdp) \in Nat /\ Len(pfd) \in Nat /\ DOMAIN pfd = 1..Len(pfd)
        /\ fdp # << >> => Len(fdp) # 0
    BY <1>1
  <2>2. /\ Polled \in Seq(Fds \cup {-1}) /\ DOMAIN Polled = 1..Len(fdp) /\ Len(Polled) = Len(fdp)
        /\ \A i \in 1..Len(fdp) : Polled[i] = pfd[i]
    BY <1>1, <1>3, <2>1, StartOf
  <2>3. DOMAIN Polled \subseteq DOMAIN pfd
    BY <1>3, <2>1, <2>2
  <2> QED BY <2>1, <2>2, <2>3 DEF Range, NoRepeats
<1> QED BY <1>2, <1>3 DEF Polled
-----------------------------------------------------------------------------
(* What a step does to the registry: nothing; it destroys connections; svc_exit *)
(* empties the set; or a connection is accepted.                                *)

XprtsInv == TypeOK /\ TransportsInv /\ RegistryIsLive /\ SetsInv

Elsewhere ==
    /\ UNCHANGED <<registry, open, nconns, exited, stale>>
    /\ \A x \in Xprts : xp'[x].st = xp[x].st /\ xp'[x].fd = xp[x].fd
    /\ xp'[0].died = xp[0].died

RegisteredFor(X) == {f \in Fds : xports[f] \in X}
FdsOf(X) == {xp[x].fd : x \in X}
Destroyed(X) ==
    /\ fd_lock = "free" /\ X \subseteq Xprts
    /\ \A x \in X : IsConn(x) /\ xp[x].st = "live"
    /\ xports' = [f \in Fds |-> IF xports[f] \in X THEN NoXprt ELSE xports[f]]
    /\ fdset' = fdset \ RegisteredFor(X)
    /\ fdp' \in Seq(Fds \cup {-1})
    /\ Range(fdp') \subseteq Range(fdp) \cup {-1}
    /\ Range(fdp) \ (RegisteredFor(X) \cup {-1}) \subseteq Range(fdp')
    /\ NoRepeats(fdp) => NoRepeats(fdp') /\ Range(fdp') \cap RegisteredFor(X) = {}
    /\ fdmax' \in Fds \cup {-1}
    /\ fdset = Registered /\ IsMaximum(fdmax, fdset) => IsMaximum(fdmax', fdset')
    /\ xp' = [x \in Xprts |-> IF x \in X THEN Freed(xp[x].fd) ELSE xp[x]]
    /\ open' = open \ FdsOf(X) /\ hup' = hup \ FdsOf(X)
    /\ input' = [f \in Fds |-> IF f \in FdsOf(X) THEN 0 ELSE input[f]]
    /\ UNCHANGED <<mode, fd_setsize, fd_lock, exited, nconns, nreqs, reused, stale>>

Emptied ==
    /\ Zeroed /\ exited' = TRUE
    /\ UNCHANGED <<mode, fd_setsize, xports, fd_lock, xp, kernel, nconns, nreqs, reused, stale>>

\* A transport is registered only for its own descriptor, while the lock is free.
LEMMA RegisteredOnce ==
    ASSUME XprtsInv, fd_lock = "free", NEW f \in Fds, NEW x \in Xprts, xports[f] = x
    PROVE  xp[x].st = "live" /\ xp[x].fd = f
<1>1. NoXprt \notin Xprts
  BY SvcAssumption DEF NoXprt, Xprts
<1> QED BY <1>1 DEF XprtsInv, RegistryIsLive

\* Clearing descriptors from the set and the poll array.
LEMMA ClearedClears ==
    ASSUME XprtsInv, NEW gone \in SUBSET Fds, NEW max \in Fds \cup {-1}, Cleared(gone, max)
    PROVE  /\ fdset' = fdset \ gone
           /\ fdp' \in Seq(Fds \cup {-1})
           /\ Range(fdp') \subseteq Range(fdp) \cup {-1}
           /\ Range(fdp) \ (gone \cup {-1}) \subseteq Range(fdp')
           /\ NoRepeats(fdp) => NoRepeats(fdp') /\ Range(fdp') \cap gone = {}
           /\ fdmax' \in Fds \cup {-1}
           /\ (\A f \in fdset' : f <= max) => IsMaximum(fdmax', fdset')
<1>1. fdset \subseteq Fds /\ fdp \in Seq(Fds \cup {-1}) /\ Fds \subseteq Nat
  BY SvcAssumption DEF XprtsInv, TypeOK
<1>2. fdset' = fdset \ gone /\ fdp' = PollDel(fdp, gone) /\ fdmax' = Sanitize(max, fdset')
  BY DEF Cleared
<1>3. fdset' \in SUBSET Nat /\ max \in Int /\ max >= -1
  BY <1>1, <1>2
<1>4. IsMaximum(fdmax', {f \in fdset' : f <= max})
  BY <1>2, <1>3, SanitizeFinds
<1>5. fdmax' \in Fds \cup {-1}
  BY <1>1, <1>2, <1>4 DEF IsMaximum
<1>6. ASSUME \A f \in fdset' : f <= max PROVE IsMaximum(fdmax', fdset')
  <2>1. fdset' = {f \in fdset' : f <= max}
    BY <1>6
  <2> QED BY <1>4, <2>1
<1>7. /\ fdp' \in Seq(Fds \cup {-1})
      /\ Range(fdp') \subseteq Range(fdp) \cup {-1}
      /\ Range(fdp) \ (gone \cup {-1}) \subseteq Range(fdp')
      /\ NoRepeats(fdp) => NoRepeats(fdp') /\ Range(fdp') \cap gone = {}
  BY <1>1, <1>2, PollDelDeletes
<1> QED BY <1>2, <1>5, <1>6, <1>7

\* svc_vc_destroy of a connection.
LEMMA DestroyDestroys ==
    ASSUME XprtsInv, NEW x \in Xprts, IsConn(x), xp[x].st = "live", Destroy(x),
           UNCHANGED <<mode, fd_setsize, exited, nconns, nreqs, reused, stale>>
    PROVE  Destroyed({x})
<1> DEFINE fd == xp[x].fd
           max == Sanitize(fdmax, fdset)
           below == {f \in Fds : f < max /\ f # fd /\ xports[f] # NoXprt}
           next == IF fd < max THEN max ELSE Max(below \cup {-1})
<1>1. /\ fd_lock = "free" /\ fd \in Fds /\ Unregister(x)
      /\ xports \in [Fds -> Xprts \cup {NoXprt}]
      /\ fdset \subseteq Fds /\ fdmax \in Fds \cup {-1} /\ Fds \subseteq Nat
  BY SvcAssumption DEF XprtsInv, TypeOK, TransportsInv, Destroy
<1>2. \A f \in Fds : xports[f] = x => f = fd
  BY <1>1, RegisteredOnce
<1>3. /\ xp' = [y \in Xprts |-> IF y \in {x} THEN Freed(xp[y].fd) ELSE xp[y]]
      /\ open' = open \ FdsOf({x}) /\ hup' = hup \ FdsOf({x})
      /\ input' = [f \in Fds |-> IF f \in FdsOf({x}) THEN 0 ELSE input[f]]
  BY DEF Destroy, FdsOf, XprtsInv, TypeOK
<1>4. CASE xports[fd] = x
  <2>1. RegisteredFor({x}) = {fd}
    BY <1>1, <1>2, <1>4 DEF RegisteredFor
  <2>2. xports' = [f \in Fds |-> IF xports[f] \in {x} THEN NoXprt ELSE xports[f]]
    BY <1>1, <1>2, <1>4 DEF Unregister
  <2>3. Cleared({fd}, next)
    BY <1>1, <1>4 DEF Unregister
  <2>4. IsMaximum(max, {f \in fdset : f <= fdmax})
    BY <1>1, SanitizeFinds
  <2>5. max \in Fds \cup {-1} /\ (IsMaximum(fdmax, fdset) => IsMaximum(max, fdset))
    <3>1. max \in Fds \cup {-1}
      BY <1>1, <2>4 DEF IsMaximum
    <3>2. ASSUME IsMaximum(fdmax, fdset) PROVE IsMaximum(max, fdset)
      <4>1. {f \in fdset : f <= fdmax} = fdset
        BY <3>2 DEF IsMaximum
      <4> QED BY <2>4, <4>1
    <3> QED BY <3>1, <3>2
  <2> HIDE DEF max
  <2>6. /\ Max(below \cup {-1}) \in below \cup {-1}
        /\ \A f \in below : f <= Max(below \cup {-1})
    <3>1. below \cup {-1} \in SUBSET Int /\ below \cup {-1} # {} /\ max \in Int
          /\ \A f \in below \cup {-1} : f <= max
      <4>0. \A f \in Fds \cup {-1} : f \in Int /\ -1 <= f
        BY <1>1
      <4>1. max \in Int /\ -1 <= max /\ below \subseteq Int
        BY <2>5, <4>0
      <4>2. \A f \in below : f <= max
        BY <4>1
      <4> HIDE DEF below
      <4> QED BY <4>1, <4>2
    <3> HIDE DEF below
    <3> QED BY <3>1, MaxIsGreatest
  <2>7. next \in Fds \cup {-1}
    BY <2>5, <2>6
  <2>8. ASSUME fdset = Registered, IsMaximum(fdmax, fdset) PROVE \A f \in fdset' : f <= next
    <3> SUFFICES ASSUME NEW f \in fdset' PROVE f <= next
      OBVIOUS
    <3>1. f \in Fds /\ f # fd /\ f <= max /\ xports[f] # NoXprt
      BY <1>1, <2>3, <2>5, <2>8 DEF Cleared, Registered, IsMaximum
    <3>2. fd <= max /\ fd \in Int /\ f \in Int /\ max \in Int
      <4>1. x # NoXprt
        BY SvcAssumption DEF NoXprt, Xprts
      <4>2. fd \in fdset
        BY <1>1, <1>4, <2>8, <4>1 DEF Registered
      <4>3. \A g \in Fds \cup {-1} : g \in Int
        BY <1>1
      <4>4. fd <= max
        BY <2>5, <2>8, <4>2 DEF IsMaximum
      <4> QED BY <1>1, <2>5, <3>1, <4>3, <4>4
    <3>3. CASE fd < max
      BY <3>1, <3>3
    <3>4. CASE ~(fd < max)
      <4>1. f < max
        BY <3>1, <3>2, <3>4
      <4> QED BY <2>6, <3>1, <3>4, <4>1
    <3> QED BY <3>3, <3>4
  <2> HIDE DEF next
  <2>9. {fd} \in SUBSET Fds
    BY <1>1
  <2> QED BY <1>1, <1>3, <2>1, <2>2, <2>3, <2>7, <2>8, <2>9, ClearedClears
          DEF Destroyed, Destroy, Unregister
<1>5. CASE xports[fd] # x
  <2>1. RegisteredFor({x}) = {}
    BY <1>2, <1>5 DEF RegisteredFor
  <2>2. UNCHANGED <<xports, fdset, fdmax, fdp, fd_lock>>
    BY <1>1, <1>5 DEF Unregister
  <2>3. xports' = [f \in Fds |-> IF xports[f] \in {x} THEN NoXprt ELSE xports[f]]
    BY <1>1, <1>2, <1>5, <2>2
  <2> QED BY <1>1, <1>3, <2>1, <2>2, <2>3 DEF Destroyed, XprtsInv, TypeOK
<1> QED BY <1>4, <1>5

\* __svc_clean_idle destroys the connections that are silent for too long.
LEMMA CleanIdleDestroys ==
    ASSUME XprtsInv, CleanIdle
    PROVE  Destroyed(IdleTooLong)
<1> DEFINE X == IdleTooLong
           gone == {xp[x].fd : x \in X}
<1>1. /\ fd_lock = "free" /\ Cleared(gone, fdmax)
      /\ xports' = [f \in Fds |-> IF f \in gone THEN NoXprt ELSE xports[f]]
      /\ xp' = [x \in Xprts |-> IF x \in X THEN Freed(xp[x].fd) ELSE xp[x]]
      /\ open' = open \ gone /\ hup' = hup \ gone
      /\ input' = [f \in Fds |-> IF f \in gone THEN 0 ELSE input[f]]
      /\ UNCHANGED <<mode, fd_setsize, fd_lock, history>>
  BY DEF CleanIdle
<1>2. X \subseteq Xprts /\ \A x \in X : /\ IsConn(x) /\ xp[x].st = "live" /\ xp[x].fd \in Fds
                                         /\ xports[xp[x].fd] = x
  BY DEF IdleTooLong, Cleanable, XprtsInv, TransportsInv
<1> HIDE DEF X
<1>3. \A f \in Fds : xports[f] \in X => f = xp[xports[f]].fd
  BY <1>1, <1>2, RegisteredOnce
<1>4. RegisteredFor(X) = gone /\ FdsOf(X) = gone
  BY <1>2, <1>3 DEF RegisteredFor, FdsOf
<1>5. xports' = [f \in Fds |-> IF xports[f] \in X THEN NoXprt ELSE xports[f]]
  BY <1>1, <1>2, <1>3
<1>6. gone \in SUBSET Fds /\ fdmax \in Fds \cup {-1}
  BY <1>2 DEF XprtsInv, TypeOK
<1>7. /\ fdset' = fdset \ gone
      /\ fdp' \in Seq(Fds \cup {-1})
      /\ Range(fdp') \subseteq Range(fdp) \cup {-1}
      /\ Range(fdp) \ (gone \cup {-1}) \subseteq Range(fdp')
      /\ NoRepeats(fdp) => NoRepeats(fdp') /\ Range(fdp') \cap gone = {}
      /\ fdmax' \in Fds \cup {-1}
      /\ (\A f \in fdset' : f <= fdmax) => IsMaximum(fdmax', fdset')
  <2> HIDE DEF gone
  <2> QED BY <1>1, <1>6, ClearedClears
<1>8. fdset = Registered /\ IsMaximum(fdmax, fdset) => IsMaximum(fdmax', fdset')
  BY <1>7 DEF IsMaximum
<1> HIDE DEF gone
<1>9. Destroyed(X)
  BY <1>1, <1>2, <1>4, <1>5, <1>7, <1>8 DEF Destroyed, history
<1> QED BY <1>9 DEF X

XprtRecords == [st : {"none", "live", "freed"}, fd : Fds \cup {-1},
                nonblock : BOOLEAN, died : BOOLEAN, idle : 0..(IdleLimit + 1)]

LEMMA StepCases ==
    ASSUME XprtsInv, ServingInv, Next
    PROVE  Elsewhere \/ (\E X \in SUBSET Xprts : Destroyed(X)) \/ Emptied \/ Accept
<1> USE DEF XprtsInv, registry, kernel, history
<1>0. 0 \in Xprts /\ cur \in Xprts /\ xp \in [Xprts -> XprtRecords]
  BY SvcAssumption DEF Xprts, TypeOK, XprtRecords
<1>1. CASE Copy \/ PollEvents \/ PollFails \/ Interrupted \/ Serve \/ Check \/ Connect \/ Hangup
  BY <1>1 DEF Copy, PollEvents, PollFails, Interrupted, Serve, Check, Connect, Hangup, Elsewhere
<1>2. CASE Send
  BY <1>2 DEF Send, Elsewhere
<1>3. CASE CleanIdle
  <2>1. IdleTooLong \in SUBSET Xprts
    BY DEF IdleTooLong, Cleanable
  <2> QED BY <1>3, <2>1, CleanIdleDestroys
<1>4. CASE Accept
  BY <1>4
<1>5. ASSUME NEW x \in Xprts, IsConn(x), xp[x].st = "live", Destroy(x),
             UNCHANGED <<mode, fd_setsize, exited, nconns, nreqs, reused, stale>>
      PROVE  \E X \in SUBSET Xprts : Destroyed(X)
  BY <1>5, DestroyDestroys
<1>6. CASE AcceptCleans
  <2>1. CASE LeastActive = {} /\ UNCHANGED <<registry, xp, kernel, history>>
    BY <2>1 DEF Elsewhere
  <2>2. ASSUME NEW x \in LeastActive, Destroy(x),
               UNCHANGED <<mode, fd_setsize, exited, nconns, nreqs, reused, stale>>
        PROVE  \E X \in SUBSET Xprts : Destroyed(X)
    BY <1>5, <2>2 DEF LeastActive, Cleanable
  <2> QED BY <1>6, <2>1, <2>2 DEF AcceptCleans
<1>7. CASE Recv
  <2>1. \/ xp' = [xp EXCEPT ![cur].idle = 0]
        \/ xp' = [xp EXCEPT ![cur].idle = 0, ![cur].died = TRUE]
    BY <1>7 DEF Recv
  <2>2. cur # 0 /\ UNCHANGED <<registry, open, history>>
    BY <1>7 DEF Recv, IsConn
  <2>3. \A x \in Xprts : /\ xp'[x].st = xp[x].st /\ xp'[x].fd = xp[x].fd
                         /\ x # cur => xp'[x] = xp[x]
    BY <1>0, <2>1 DEF XprtRecords
  <2> QED BY <1>0, <2>2, <2>3 DEF Elsewhere
<1>8. CASE RecvNothing
  <2>1. cur # 0 /\ UNCHANGED <<registry, kernel, history>> /\ xp' = [xp EXCEPT ![cur].died = TRUE]
    BY <1>8 DEF RecvNothing, IsConn
  <2>2. \A x \in Xprts : /\ xp'[x].st = xp[x].st /\ xp'[x].fd = xp[x].fd
                         /\ x # cur => xp'[x] = xp[x]
    BY <1>0, <2>1 DEF XprtRecords
  <2> QED BY <1>0, <2>1, <2>2 DEF Elsewhere
<1>9. CASE Tick
  <2>1. UNCHANGED <<registry, kernel, history>>
        /\ xp' = [x \in Xprts |-> IF xp[x].st = "live" /\ IsConn(x) /\ xp[x].idle <= IdleLimit
                              THEN [xp[x] EXCEPT !.idle = @ + 1] ELSE xp[x]]
    BY <1>9 DEF Tick
  <2> QED BY <1>0, <2>1 DEF Elsewhere, IsConn
<1>10. CASE Dispatch
  <2>1. UNCHANGED <<mode, fd_setsize, nconns, nreqs, reused, stale>> /\ cur # 0
    BY <1>10 DEF Dispatch, ServingInv, IsConn
  <2>2. CASE UNCHANGED <<registry, xp, kernel, exited>>
    BY <2>1, <2>2 DEF Elsewhere
  <2>3. CASE xp' = [xp EXCEPT ![cur].died = TRUE] /\ UNCHANGED <<registry, kernel, exited>>
    <3>1. \A x \in Xprts : /\ xp'[x].st = xp[x].st /\ xp'[x].fd = xp[x].fd
                           /\ x # cur => xp'[x] = xp[x]
      BY <1>0, <2>3 DEF XprtRecords
    <3> QED BY <1>0, <2>1, <2>3, <3>1 DEF Elsewhere
  <2>4. CASE Zeroed /\ exited' = TRUE /\ UNCHANGED <<xports, fd_lock, xp, kernel>>
    BY <2>1, <2>4 DEF Emptied
  <2>5. ASSUME NEW x \in Xprts, IsConn(x), xp[x].st = "live", Destroy(x), UNCHANGED exited
        PROVE  \E X \in SUBSET Xprts : Destroyed(X)
    BY <1>5, <2>1, <2>5
  <2> QED BY <1>10, <2>2, <2>3, <2>4, <2>5 DEF Dispatch
<1>11. CASE Stat
  <2>1. UNCHANGED <<mode, fd_setsize, exited, nconns, nreqs, reused, stale>>
    BY <1>11 DEF Stat
  <2>2. CASE UNCHANGED <<registry, xp, kernel>>
    BY <2>1, <2>2 DEF Elsewhere
  <2>3. CASE xp[cur].st = "live" /\ xp[cur].died /\ Destroy(cur)
    <3>1. IsConn(cur)
      BY <2>3 DEF TransportsInv, IsConn
    <3> QED BY <1>0, <1>5, <2>1, <2>3, <3>1
  <2> QED BY <1>11, <2>2, <2>3 DEF Stat
<1>12. CASE SvcExit
  BY <1>12 DEF SvcExit, Emptied
<1> QED BY <1>1, <1>2, <1>3, <1>4, <1>6, <1>7, <1>8, <1>9, <1>10, <1>11, <1>12
        DEF Next, Loop, Peers

\* The two outcomes of registering a new connection x on fd, with what it becomes.
Leaks(x, fd) ==
    /\ xports' = [xports EXCEPT ![fd] = x] /\ xp' = [xp EXCEPT ![x] = Freed(fd)]
    /\ fd_lock' = "leaked" /\ UNCHANGED <<fdset, fdmax, fdp, open, stale>>
Enters(x, fd) ==
    /\ xports' = [xports EXCEPT ![fd] = x]
    /\ \E new \in XprtRecords : new.st = "live" /\ new.fd = fd /\ xp' = [xp EXCEPT ![x] = new]
    /\ fdset' = fdset \cup {fd}
    /\ fdp' \in Seq(Fds \cup {-1})
    /\ Range(fdp') \subseteq Range(fdp) \cup {fd}
    /\ (Range(fdp) \ {-1}) \cup {fd} \subseteq Range(fdp')
    /\ NoRepeats(fdp) /\ fd \notin Range(fdp) => NoRepeats(fdp')
    /\ fdmax' \in Fds \cup {-1}
    /\ IsMaximum(fdmax, fdset) => IsMaximum(fdmax', fdset')
    /\ UNCHANGED fd_lock
    /\ \/ open' = open \cup {fd} /\ UNCHANGED stale
       \/ open' = open /\ stale' = TRUE

LEMMA RegisterRegisters ==
    ASSUME XprtsInv, NEW x \in Xprts, NEW fd \in Fds, Register(x, fd),
           Cardinality(fdset) < fd_setsize
    PROVE  /\ xports' = [xports EXCEPT ![fd] = x]
           /\ fdset' = fdset \cup {fd}
           /\ fdp' \in Seq(Fds \cup {-1})
           /\ Range(fdp') \subseteq Range(fdp) \cup {fd}
           /\ (Range(fdp) \ {-1}) \cup {fd} \subseteq Range(fdp')
           /\ NoRepeats(fdp) /\ fd \notin Range(fdp) => NoRepeats(fdp')
           /\ fdmax' \in Fds \cup {-1}
           /\ IsMaximum(fdmax, fdset) => IsMaximum(fdmax', fdset')
           /\ UNCHANGED fd_lock
<1> DEFINE max == IF fd > fdmax THEN fd ELSE fdmax
<1>1. /\ xports' = [xports EXCEPT ![fd] = x] /\ fdset' = fdset \cup {fd}
      /\ fdp' = PollAdd(fdp, fd) /\ fdmax' = Sanitize(max, fdset') /\ UNCHANGED fd_lock
  BY DEF Register
<1>2. /\ fdp \in Seq(Fds \cup {-1}) /\ fdset \subseteq Fds /\ Fds \subseteq Nat
      /\ fdmax \in Fds \cup {-1}
  BY SvcAssumption DEF XprtsInv, TypeOK
<1>3. fdset' \in SUBSET Nat /\ max \in Int /\ max >= -1
  BY <1>1, <1>2
<1>4. IsMaximum(fdmax', {f \in fdset' : f <= max})
  BY <1>1, <1>3, SanitizeFinds
<1>5. fdmax' \in Fds \cup {-1}
  BY <1>1, <1>2, <1>4 DEF IsMaximum
<1>6. ASSUME IsMaximum(fdmax, fdset) PROVE IsMaximum(fdmax', fdset')
  <2>1. \A f \in fdset' : f <= max
    <3> SUFFICES ASSUME NEW f \in fdset' PROVE f <= max
      OBVIOUS
    <3>1. f \in Int /\ fd \in Int /\ fdmax \in Int
      BY <1>1, <1>2
    <3>2. f = fd \/ f <= fdmax
      BY <1>1, <1>6 DEF IsMaximum
    <3> QED BY <3>1, <3>2
  <2>2. fdset' = {f \in fdset' : f <= max}
    BY <2>1
  <2> QED BY <1>4, <2>2
<1> QED BY <1>1, <1>2, <1>5, <1>6, PollAddAdds

LEMMA AcceptCases ==
    ASSUME XprtsInv, Accept
    PROVE  \E fd \in Fds \ open, x \in Xprts :
             /\ x = nconns + 1 /\ nconns' = x /\ IsConn(x) /\ xp[x].st = "none" /\ fd # 0
             /\ fd_lock = "free" /\ reused' = reused \cup {fd}
             /\ Leaks(x, fd) \/ Enters(x, fd) \/ UNCHANGED <<registry, xp, open, stale>>
<1> DEFINE x == nconns'
<1>1. /\ fd_lock = "free" /\ nconns < MaxConns /\ x = nconns + 1
      /\ nconns \in Nat /\ MaxConns \in Nat
  BY SvcAssumption DEF Accept, XprtsInv, TypeOK
<1>2. x \in Xprts /\ IsConn(x) /\ x > nconns
  BY <1>1 DEF Xprts, IsConn
<1>3. xp[x].st = "none"
  BY <1>2 DEF XprtsInv, TransportsInv
<1>4. PICK fd \in Fds \ open, nonblock \in BOOLEAN :
        /\ reused' = reused \cup {fd}
        /\ \/ /\ Register(x, fd)
              /\ IF fd_lock' = "leaked"
                 THEN xp' = [xp EXCEPT ![x] = Freed(fd)] /\ UNCHANGED <<open, stale>>
                 ELSE \/ /\ xp' = [xp EXCEPT ![x] = [NewXprt(fd) EXCEPT !.nonblock = nonblock]]
                         /\ open' = open \cup {fd}
                         /\ UNCHANGED stale
                      \/ /\ xp' = [xp EXCEPT ![x] = NewXprt(fd)]
                         /\ stale' = TRUE /\ UNCHANGED open
           \/ UNCHANGED <<registry, xp, open, stale>>
  BY DEF Accept
<1> HIDE DEF x
<1>5. fd # 0
  BY <1>4 DEF XprtsInv, TransportsInv
<1>6. /\ NewXprt(fd) \in XprtRecords /\ NewXprt(fd).st = "live" /\ NewXprt(fd).fd = fd
      /\ [NewXprt(fd) EXCEPT !.nonblock = nonblock] \in XprtRecords
      /\ [NewXprt(fd) EXCEPT !.nonblock = nonblock].st = "live"
      /\ [NewXprt(fd) EXCEPT !.nonblock = nonblock].fd = fd
  <2>1. 0 \in 0..(IdleLimit + 1)
    BY SvcAssumption
  <2>2. \A b \in BOOLEAN :
          [st |-> "live", fd |-> fd, nonblock |-> b, died |-> FALSE, idle |-> 0] \in XprtRecords
    BY <2>1 DEF XprtRecords
  <2>3. NewXprt(fd) \in XprtRecords
    BY <2>2 DEF NewXprt
  <2>4. NewXprt(fd).st = "live" /\ NewXprt(fd).fd = fd
    BY DEF NewXprt
  <2>5. \A r \in XprtRecords : /\ [r EXCEPT !.nonblock = nonblock] \in XprtRecords
                               /\ [r EXCEPT !.nonblock = nonblock].st = r.st
                               /\ [r EXCEPT !.nonblock = nonblock].fd = r.fd
    BY DEF XprtRecords
  <2> QED BY <2>3, <2>4, <2>5
<1>7. CASE Register(x, fd) /\ ~(Cardinality(fdset) < fd_setsize)
  <2>1. Leaks(x, fd)
    BY <1>1, <1>4, <1>7 DEF Register, Leaks, registry
  <2> QED BY <1>1, <1>2, <1>3, <1>4, <1>5, <2>1 DEF x
<1>8. CASE Register(x, fd) /\ Cardinality(fdset) < fd_setsize
  <2>1. UNCHANGED fd_lock
    BY <1>8 DEF Register
  <2>2. CASE UNCHANGED <<registry, xp, open, stale>>
    BY <1>1, <1>2, <1>3, <1>4, <1>5, <2>2 DEF x
  <2>3. CASE ~ UNCHANGED <<registry, xp, open, stale>>
    <3>1. \/ /\ xp' = [xp EXCEPT ![x] = [NewXprt(fd) EXCEPT !.nonblock = nonblock]]
             /\ open' = open \cup {fd} /\ UNCHANGED stale
          \/ /\ xp' = [xp EXCEPT ![x] = NewXprt(fd)] /\ open' = open /\ stale' = TRUE
      BY <1>1, <1>4, <2>1, <2>3
    <3>2. \E new \in XprtRecords : new.st = "live" /\ new.fd = fd /\ xp' = [xp EXCEPT ![x] = new]
      BY <1>6, <3>1
    <3>3. Enters(x, fd)
      BY <1>2, <1>8, <3>1, <3>2, RegisterRegisters DEF Enters
    <3> QED BY <1>1, <1>2, <1>3, <1>4, <1>5, <3>3 DEF x
  <2> QED BY <2>2, <2>3
<1>9. CASE UNCHANGED <<registry, xp, open, stale>>
  BY <1>1, <1>2, <1>3, <1>4, <1>5, <1>9 DEF x
<1> QED BY <1>4, <1>7, <1>8, <1>9
-----------------------------------------------------------------------------
(* The registry. *)

RegistryInv == TransportsInv /\ RegistryIsLive /\ SetsInv /\ OpenInv

LEMMA RegistryTypes ==
    ASSUME TypeOK
    PROVE  /\ xports \in [Fds -> Xprts \cup {NoXprt}] /\ xp \in [Xprts -> XprtRecords]
           /\ 0 \in Fds /\ 0 \in Xprts /\ NoXprt \notin Xprts /\ fdset \subseteq Fds /\ open \subseteq Fds
           /\ nconns \in Nat
  BY SvcAssumption DEF TypeOK, XprtRecords, Xprts, NoXprt

LEMMA ElsewhereKeeps ==
    ASSUME TypeOK, RegistryInv, Elsewhere
    PROVE  RegistryInv'
<1>1. /\ UNCHANGED <<xports, fdset, fdmax, fdp, fd_lock, open, nconns, exited, stale>>
      /\ \A x \in Xprts : xp'[x].st = xp[x].st /\ xp'[x].fd = xp[x].fd
      /\ xp'[0].died = xp[0].died
  BY DEF Elsewhere, registry
<1>2. Registered' = Registered
  BY <1>1 DEF Registered
<1>3. TransportsInv'
  BY <1>1, RegistryTypes DEF RegistryInv, TransportsInv
<1>4. RegistryIsLive'
  BY <1>1, RegistryTypes DEF RegistryInv, RegistryIsLive
<1>5. SetsInv'
  BY <1>1, <1>2 DEF RegistryInv, SetsInv
<1>6. OpenInv'
  BY <1>1, <1>2 DEF RegistryInv, OpenInv
<1> QED BY <1>3, <1>4, <1>5, <1>6 DEF RegistryInv

LEMMA EmptiedKeeps ==
    ASSUME TypeOK, RegistryInv, Emptied
    PROVE  RegistryInv'
<1>1. /\ UNCHANGED <<xports, fd_lock, xp, open, nconns, stale>>
      /\ fdset' = {} /\ fdp' = << >> /\ exited'
  BY DEF Emptied, Zeroed, kernel
<1>2. Registered' = Registered
  BY <1>1 DEF Registered
<1>3. Range(fdp') = {} /\ NoRepeats(fdp')
  BY <1>1 DEF Range, NoRepeats
<1>4. TransportsInv' /\ RegistryIsLive'
  BY <1>1 DEF RegistryInv, TransportsInv, RegistryIsLive
<1>5. SetsInv'
  BY <1>1, <1>2 DEF SetsInv
<1>6. OpenInv'
  BY <1>1, <1>2, <1>3 DEF RegistryInv, OpenInv
<1> QED BY <1>4, <1>5, <1>6 DEF RegistryInv

LEMMA DestroyedKeeps ==
    ASSUME TypeOK, RegistryInv, NEW X \in SUBSET Xprts, Destroyed(X)
    PROVE  RegistryInv'
<1>1. /\ fd_lock = "free" /\ UNCHANGED <<fd_lock, nconns, exited, stale>>
      /\ \A x \in X : x # 0 /\ xp[x].st = "live"
      /\ \A f \in Fds : xports'[f] = IF xports[f] \in X THEN NoXprt ELSE xports[f]
      /\ fdset' = fdset \ RegisteredFor(X) /\ open' = open \ FdsOf(X)
      /\ \A x \in Xprts : xp'[x] = IF x \in X THEN Freed(xp[x].fd) ELSE xp[x]
  BY DEF Destroyed, IsConn
<1>2. /\ Freed(0).st = "freed" /\ \A fd : Freed(fd).st = "freed" /\ Freed(fd).fd = fd
  BY DEF Freed, NewXprt
<1>3. \A x \in X : xp[x].fd \in Fds \ {0}
  BY <1>1 DEF RegistryInv, TransportsInv, IsConn
<1>4. \A f \in Fds : xports[f] \in X => f = xp[xports[f]].fd
  BY <1>1, RegistryTypes DEF RegistryInv, RegistryIsLive
<1>5. Registered' = Registered \ RegisteredFor(X)
  BY <1>1 DEF Registered, RegisteredFor
<1>6. TransportsInv'
  <2>1. 0 \notin X /\ 0 \in open' /\ xports'[0] = 0
    BY <1>1, <1>3, RegistryTypes DEF RegistryInv, TransportsInv, FdsOf
  <2>2. xp'[0] = xp[0]
    BY <1>1, <2>1, RegistryTypes
  <2>3. ASSUME NEW x \in Xprts, IsConn(x)
        PROVE  /\ xp'[x].st = "live" => xp'[x].fd \in Fds \ {0}
               /\ x > nconns' => xp'[x].st = "none"
    <3>1. CASE x \in X
      BY <1>1, <1>2, <2>3, <3>1 DEF RegistryInv, TransportsInv
    <3>2. CASE x \notin X
      BY <1>1, <2>3, <3>2 DEF RegistryInv, TransportsInv
    <3> QED BY <3>1, <3>2
  <2> QED BY <2>1, <2>2, <2>3 DEF RegistryInv, TransportsInv
<1>7. RegistryIsLive'
  <2> SUFFICES ASSUME NEW f \in Fds, xports'[f] # NoXprt
               PROVE  xp'[xports'[f]].st = "live" /\ xp'[xports'[f]].fd = f
    BY DEF RegistryIsLive
  <2>1. xports[f] \in Xprts \ X /\ xports'[f] = xports[f] /\ xports[f] # NoXprt
    BY <1>1, RegistryTypes
  <2>2. xp'[xports[f]] = xp[xports[f]]
    BY <1>1, <2>1
  <2> QED BY <1>1, <2>1, <2>2 DEF RegistryInv, RegistryIsLive
<1>8. SetsInv'
  <2>1. fdset' \subseteq Registered'
    BY <1>1, <1>5 DEF RegistryInv, SetsInv
  <2>2. ~exited' => fdset' = Registered' /\ IsMaximum(fdmax', fdset')
    BY <1>1, <1>5 DEF RegistryInv, SetsInv, Destroyed
  <2>3. fdset' \subseteq Range(fdp')
    <3>1. -1 \notin Fds
      BY SvcAssumption
    <3>2. fdset \ RegisteredFor(X) \subseteq Range(fdp) \ (RegisteredFor(X) \cup {-1})
      BY <3>1, RegistryTypes DEF RegistryInv, SetsInv
    <3> QED BY <1>1, <3>2 DEF Destroyed
  <2> QED BY <2>1, <2>2, <2>3 DEF SetsInv
<1>9. OpenInv'
  <2> SUFFICES ASSUME ~stale'
               PROVE  /\ fdset' \subseteq open'
                      /\ Range(fdp') \subseteq fdset' \cup {-1}
                      /\ NoRepeats(fdp')
                      /\ Registered' \subseteq open'
                      /\ \A x \in Xprts : xp'[x].st = "live" => xports'[xp'[x].fd] = x
    BY DEF OpenInv
  <2>1. /\ fdset \subseteq open /\ Range(fdp) \subseteq fdset \cup {-1} /\ NoRepeats(fdp)
        /\ Registered \subseteq open
        /\ \A x \in Xprts : xp[x].st = "live" => xports[xp[x].fd] = x
    BY <1>1 DEF RegistryInv, OpenInv
  <2>2. FdsOf(X) \subseteq RegisteredFor(X)
    BY <1>1, <1>3, <2>1 DEF FdsOf, RegisteredFor
  <2>3. fdset' \subseteq open' /\ Registered' \subseteq open'
    BY <1>1, <1>5, <2>1, <2>2
  <2>4. /\ Range(fdp') \subseteq Range(fdp) \cup {-1} /\ Range(fdp') \cap RegisteredFor(X) = {}
        /\ NoRepeats(fdp')
    BY <2>1 DEF Destroyed
  <2>5. Range(fdp') \subseteq fdset' \cup {-1}
    BY <1>1, <2>1, <2>4
  <2>6. ASSUME NEW x \in Xprts, xp'[x].st = "live" PROVE xports'[xp'[x].fd] = x
    <3>1. x \notin X /\ xp'[x] = xp[x]
      BY <1>1, <1>2, <2>6
    <3>2. xp[x].fd \in Fds
      BY <2>6, <3>1, RegistryTypes DEF RegistryInv, TransportsInv, IsConn
    <3> QED BY <1>1, <2>1, <2>6, <3>1, <3>2
  <2> QED BY <2>3, <2>4, <2>5, <2>6
<1> QED BY <1>6, <1>7, <1>8, <1>9 DEF RegistryInv

LEMMA AcceptKeeps ==
    ASSUME TypeOK, RegistryInv, Accept
    PROVE  RegistryInv'
<1>1. PICK fd \in Fds \ open, x \in Xprts :
        /\ x = nconns + 1 /\ nconns' = x /\ IsConn(x) /\ xp[x].st = "none" /\ fd # 0
        /\ fd_lock = "free"
        /\ Leaks(x, fd) \/ Enters(x, fd) \/ UNCHANGED <<registry, xp, open, stale>>
  BY AcceptCases DEF XprtsInv, RegistryInv
<1>2. UNCHANGED exited
  BY DEF Accept
<1>3. /\ nconns \in Nat /\ x # 0 /\ nconns' \in Nat
      /\ \A y \in Xprts : y \in Int /\ (y > nconns' => y > nconns /\ y # x)
  BY <1>1, RegistryTypes DEF IsConn, Xprts
<1>4. Freed(fd).st = "freed"
  BY DEF Freed, NewXprt
<1>5. ASSUME xports' = [xports EXCEPT ![fd] = x], open \subseteq open',
             NEW new \in XprtRecords \cup {Freed(fd)}, new.st = "live" => new.fd = fd,
             xp' = [xp EXCEPT ![x] = new]
      PROVE  TransportsInv'
  <2>1. 0 \in open' /\ xports'[0] = 0 /\ xp'[0] = xp[0] /\ xp'[x] = new
        /\ \A y \in Xprts : y # x => xp'[y] = xp[y]
    BY <1>1, <1>3, <1>5, RegistryTypes DEF RegistryInv, TransportsInv
  <2>2. ASSUME NEW y \in Xprts, IsConn(y)
        PROVE  /\ xp'[y].st = "live" => xp'[y].fd \in Fds \ {0}
               /\ y > nconns' => xp'[y].st = "none"
    <3>1. CASE y = x
      BY <1>1, <1>3, <1>5, <2>1, <3>1
    <3>2. CASE y # x
      BY <1>3, <2>1, <2>2, <3>2 DEF RegistryInv, TransportsInv
    <3> QED BY <3>1, <3>2
  <2> QED BY <2>1, <2>2 DEF RegistryInv, TransportsInv
<1>6. ASSUME xports' = [xports EXCEPT ![fd] = x]
      PROVE  Registered' = Registered \cup {fd}
  BY <1>1, <1>6, RegistryTypes DEF Registered
<1>7. CASE Leaks(x, fd)
  <2>1. TransportsInv'
    <3>1. Freed(fd).st # "live"
      BY <1>4
    <3> QED BY <1>5, <1>7, <3>1 DEF Leaks
  <2>2. RegistryIsLive'
    BY <1>7 DEF Leaks, RegistryIsLive
  <2>3. SetsInv'
    BY <1>6, <1>7 DEF Leaks, RegistryInv, SetsInv
  <2>4. OpenInv'
    BY <1>7 DEF Leaks, RegistryInv, OpenInv
  <2> QED BY <2>1, <2>2, <2>3, <2>4 DEF RegistryInv
<1>8. CASE Enters(x, fd)
  <2>1. PICK new \in XprtRecords : new.st = "live" /\ new.fd = fd /\ xp' = [xp EXCEPT ![x] = new]
    BY <1>8 DEF Enters
  <2>2. /\ xports' = [xports EXCEPT ![fd] = x] /\ fdset' = fdset \cup {fd} /\ fd_lock' = "free"
        /\ open \subseteq open'
    BY <1>1, <1>8 DEF Enters
  <2>3. TransportsInv'
    BY <1>5, <2>1, <2>2
  <2>4. xp'[x] = new /\ \A y \in Xprts : y # x => xp'[y] = xp[y]
    BY <2>1, RegistryTypes
  <2>5. xports'[fd] = x /\ \A f \in Fds : f # fd => xports'[f] = xports[f]
    BY <2>2, RegistryTypes
  <2>6. RegistryIsLive'
    <3> SUFFICES ASSUME NEW f \in Fds, xports'[f] # NoXprt
                 PROVE  xp'[xports'[f]].st = "live" /\ xp'[xports'[f]].fd = f
      BY DEF RegistryIsLive
    <3>1. CASE f = fd
      BY <2>1, <2>4, <2>5, <3>1
    <3>2. CASE f # fd
      <4>1. xports'[f] = xports[f] /\ xports[f] \in Xprts /\ xp[xports[f]].st = "live"
            /\ xp[xports[f]].fd = f
        BY <1>1, <2>5, <3>2, RegistryTypes DEF RegistryInv, RegistryIsLive
      <4>2. xports[f] # x
        BY <1>1, <4>1
      <4> QED BY <2>4, <4>1, <4>2
    <3> QED BY <3>1, <3>2
  <2>7. SetsInv'
    <3>1. -1 \notin Fds
      BY SvcAssumption
    <3>2. fdset' \subseteq Range(fdp')
      BY <1>8, <2>2, <3>1, RegistryTypes DEF Enters, RegistryInv, SetsInv
    <3>3. fdset' \subseteq Registered'
      BY <1>6, <2>2 DEF RegistryInv, SetsInv
    <3>4. ~exited' => fdset' = Registered' /\ IsMaximum(fdmax', fdset')
      BY <1>1, <1>2, <1>6, <1>8, <2>2 DEF Enters, RegistryInv, SetsInv
    <3> QED BY <3>2, <3>3, <3>4 DEF SetsInv
  <2>8. OpenInv'
    <3> SUFFICES ASSUME ~stale'
                 PROVE  /\ fdset' \subseteq open'
                        /\ Range(fdp') \subseteq fdset' \cup {-1}
                        /\ NoRepeats(fdp')
                        /\ Registered' \subseteq open'
                        /\ \A y \in Xprts : xp'[y].st = "live" => xports'[xp'[y].fd] = y
      BY DEF OpenInv
    <3>1. ~stale /\ open' = open \cup {fd}
      BY <1>8 DEF Enters
    <3>2. /\ fdset \subseteq open /\ Range(fdp) \subseteq fdset \cup {-1} /\ NoRepeats(fdp)
          /\ Registered \subseteq open
          /\ \A y \in Xprts : xp[y].st = "live" => xports[xp[y].fd] = y
      BY <1>1, <3>1 DEF RegistryInv, OpenInv
    <3>3. fd \notin Range(fdp)
      <4>1. fd # -1
        BY SvcAssumption
      <4> QED BY <3>2, <4>1
    <3>4. NoRepeats(fdp') /\ Range(fdp') \subseteq fdset' \cup {-1}
      BY <1>8, <2>2, <3>2, <3>3 DEF Enters
    <3>5. ASSUME NEW y \in Xprts, xp'[y].st = "live" PROVE xports'[xp'[y].fd] = y
      <4>1. CASE y = x
        BY <2>1, <2>4, <2>5, <4>1
      <4>2. CASE y # x
        <5>1. xp'[y] = xp[y] /\ xp[y].st = "live" /\ xports[xp[y].fd] = y
          BY <2>4, <3>2, <3>5, <4>2
        <5>2. xp[y].fd \in Fds
          BY <5>1, RegistryTypes DEF RegistryInv, TransportsInv, IsConn
        <5>3. xp[y].fd # fd
          BY <3>2, <5>1, <5>2, RegistryTypes DEF Registered
        <5> QED BY <2>5, <5>1, <5>2, <5>3
      <4> QED BY <4>1, <4>2
    <3> QED BY <1>6, <2>2, <3>1, <3>2, <3>4, <3>5
  <2> QED BY <2>3, <2>6, <2>7, <2>8 DEF RegistryInv
<1>9. CASE UNCHANGED <<registry, xp, open, stale>>
  <2>1. UNCHANGED <<xports, fdset, fdmax, fdp, fd_lock, xp, open, stale>>
    BY <1>9 DEF registry
  <2>2. Registered' = Registered
    BY <2>1 DEF Registered
  <2>3. TransportsInv'
    BY <1>3, <2>1 DEF RegistryInv, TransportsInv
  <2>4. RegistryIsLive' /\ OpenInv'
    BY <2>1, <2>2 DEF RegistryInv, RegistryIsLive, OpenInv
  <2>5. SetsInv'
    BY <1>2, <2>1, <2>2 DEF RegistryInv, SetsInv
  <2> QED BY <2>3, <2>4, <2>5 DEF RegistryInv
<1> QED BY <1>1, <1>7, <1>8, <1>9

\* Every step keeps the views of the registry in line.
LEMMA RegistryStep ==
    ASSUME TypeOK, RegistryInv, ServingInv, [Next]_vars
    PROVE  RegistryInv'
<1>1. XprtsInv
  BY DEF XprtsInv, RegistryInv
<1>2. CASE Next
  BY <1>1, <1>2, StepCases, ElsewhereKeeps, DestroyedKeeps, EmptiedKeeps, AcceptKeeps
<1>3. CASE UNCHANGED vars
  <2>1. Elsewhere
    BY <1>3 DEF vars, kernel, history, Elsewhere
  <2> QED BY <2>1, ElsewhereKeeps
<1> QED BY <1>2, <1>3
-----------------------------------------------------------------------------
(* Types. *)

RegistryType ==
    /\ mode \in Modes /\ fd_setsize \in FdSetSizes
    /\ xports \in [Fds -> Xprts \cup {NoXprt}]
    /\ fdset \subseteq Fds /\ fdmax \in Fds \cup {-1}
    /\ fdp \in Seq(Fds \cup {-1}) /\ fd_lock \in {"free", "leaked"}
    /\ xp \in [Xprts -> XprtRecords]
    /\ open \subseteq Fds /\ input \in [Fds -> Nat] /\ hup \subseteq Fds
    /\ exited \in BOOLEAN /\ stale \in BOOLEAN
    /\ nconns \in 0..MaxConns /\ nreqs \in 0..MaxReqs /\ reused \subseteq Fds
LoopType ==
    /\ pc \in {"top", "poll", "serve", "recv", "dispatch", "check", "stat", "done", "crashed"}
    /\ pfd \in Seq(Fds \cup {-1}) /\ ready \in Seq(Fds) /\ cur \in Xprts
    /\ probs \in 0..MaxProbs

\* The type invariant in two parts: what the registry's steps change, and the loop's.
LEMMA TypeParts == (TypeOK <=> RegistryType /\ LoopType) /\ (TypeOK' <=> RegistryType' /\ LoopType')
  BY DEF TypeOK, RegistryType, LoopType, XprtRecords

\* What is reported is what was polled and has an event, in the order of the slots.
LEMMA PollEventsReports ==
    ASSUME TypeOK, PollEvents
    PROVE  /\ ready' \in Seq(Fds)
           /\ \A f \in Range(ready') : HasEvent(f)
           /\ NoRepeats(pfd) => NoRepeats(ready')
<1>1. /\ Polled \in Seq(Fds \cup {-1}) /\ (NoRepeats(pfd) => NoRepeats(Polled))
      /\ DOMAIN Polled \in SUBSET Nat /\ IsFiniteSet(DOMAIN Polled)
  <2>1. Polled \in Seq(Fds \cup {-1}) /\ (NoRepeats(pfd) => NoRepeats(Polled))
    BY PolledIsCopied
  <2>2. DOMAIN Polled = 1..Len(Polled) /\ Len(Polled) \in Nat
    BY <2>1
  <2>3. IsFiniteSet(1..Len(Polled))
    BY <2>2, FS_Interval
  <2> QED BY <2>1, <2>2, <2>3
<1>2. PICK S \in SUBSET {f \in Range(Polled) : HasEvent(f)} :
        \E slots \in Ascending({i \in DOMAIN Polled : Polled[i] \in S}) :
            ready' = [k \in DOMAIN slots |-> Polled[slots[k]]]
  BY DEF PollEvents
<1> DEFINE At == {i \in DOMAIN Polled : Polled[i] \in S}
<1>3. PICK slots \in Ascending(At) : ready' = [k \in DOMAIN slots |-> Polled[slots[k]]]
  BY <1>2
<1>4. IsFiniteSet(At)
  BY <1>1, FS_Subset
<1> HIDE DEF At
<1>5. slots \in Seq(At) /\ \A i, j \in DOMAIN slots : slots[i] = slots[j] => i = j
  BY <1>3, <1>4, ListingsList DEF Ascending
<1>6. /\ DOMAIN slots = 1..Len(slots) /\ Len(slots) \in Nat
      /\ \A k \in DOMAIN slots : slots[k] \in DOMAIN Polled /\ Polled[slots[k]] \in S
  BY <1>5 DEF At
<1>7. \A f \in S : f \in Fds /\ HasEvent(f)
  <2>1. ~HasBadFd
    BY DEF PollEvents
  <2>2. open \subseteq Fds
    BY DEF TypeOK
  <2> QED BY <1>2, <2>1, <2>2 DEF HasBadFd
<1>8. DOMAIN ready' = DOMAIN slots /\ \A k \in DOMAIN slots : ready'[k] = Polled[slots[k]]
  BY <1>3
<1>9. ready' \in Seq(Fds)
  BY <1>3, <1>6, <1>7
<1>10. \A f \in Range(ready') : HasEvent(f)
  BY <1>6, <1>7, <1>8 DEF Range
<1>11. NoRepeats(pfd) => NoRepeats(ready')
  BY <1>1, <1>5, <1>6, <1>8 DEF NoRepeats
<1> QED BY <1>9, <1>10, <1>11

LEMMA CopyCopies ==
    ASSUME TypeOK, Copy
    PROVE  /\ pfd' \in Seq(Fds \cup {-1})
           /\ fdset \subseteq Range(fdp) /\ fdset # {} => pfd' # << >>
           /\ Range(fdp) \subseteq fdset \cup {-1} => Range(pfd') \subseteq fdset \cup {-1}
           /\ NoRepeats(fdp) => NoRepeats(pfd')
<1>1. fdp \in Seq(Fds \cup {-1}) /\ fdset \in SUBSET Nat /\ IsFiniteSet(fdset) /\ fdset \subseteq Fds
  BY SvcAssumption, FS_Subset DEF TypeOK
<1>2. CASE pfd' = fdp
  <2>1. fdp = << >> => Range(fdp) = {}
    BY DEF Range
  <2>2. Range(pfd') = Range(fdp) /\ (NoRepeats(fdp) => NoRepeats(pfd'))
    BY <1>2
  <2>3. fdset \subseteq Range(fdp) /\ fdset # {} => pfd' # << >>
    BY <1>2, <2>1
  <2> QED BY <1>1, <1>2, <2>2, <2>3
<1>3. CASE pfd' \in Listings(fdset)
  <2>1. /\ pfd' \in Seq(fdset) /\ Range(pfd') \subseteq fdset
        /\ \A i, j \in DOMAIN pfd' : pfd'[i] = pfd'[j] => i = j
        /\ fdset # {} => pfd' # << >>
    BY <1>1, <1>3, ListingsList
  <2>2. pfd' \in Seq(Fds \cup {-1})
    <3>1. Len(pfd') \in Nat /\ pfd' \in [1..Len(pfd') -> fdset]
      BY <2>1
    <3>2. pfd' \in [1..Len(pfd') -> Fds \cup {-1}]
      BY <1>1, <3>1
    <3> QED BY <3>1, <3>2
  <2>3. NoRepeats(pfd')
    BY <2>1 DEF NoRepeats
  <2>4. Range(pfd') \subseteq fdset \cup {-1}
    BY <2>1
  <2> QED BY <2>1, <2>2, <2>3, <2>4
<1> QED BY <1>2, <1>3 DEF Copy

LEMMA LoopTypeStep ==
    ASSUME TypeOK, ServingInv, [Next]_vars
    PROVE  LoopType'
<1> USE TypeParts DEF LoopType
<1>1. CASE UNCHANGED loop
  BY <1>1 DEF loop
<1>2. CASE Copy
  <2>1. pfd' \in Seq(Fds \cup {-1})
    BY <1>2, CopyCopies
  <2> QED BY <1>2, <2>1 DEF Copy
<1>3. CASE PollEvents
  <2>1. pc' = "serve" /\ probs' = 0 /\ UNCHANGED <<pfd, cur>>
    BY <1>3 DEF PollEvents
  <2>2. ready' \in Seq(Fds)
    BY <1>3, PollEventsReports
  <2>3. probs' \in 0..MaxProbs
    BY <2>1, SvcAssumption
  <2> QED BY <2>1, <2>2, <2>3
<1>4. CASE PollFails
  BY <1>4, SvcAssumption DEF PollFails, Stop
<1>5. CASE Interrupted
  BY <1>5, SvcAssumption DEF Interrupted
<1>6. CASE CleanIdle
  BY <1>6 DEF CleanIdle
<1>7. CASE Serve
  <2>1. ready # << >> => /\ Head(ready) \in Fds /\ Tail(ready) \in Seq(Fds)
                         /\ xports[Head(ready)] \in Xprts \cup {NoXprt}
    BY DEF RegistryType
  <2> QED BY <1>7, <2>1 DEF Serve
<1>8. ASSUME NEW place \in {"check", "dispatch", "stat", "recv", "crashed"}, Goto(place)
      PROVE  LoopType'
  BY <1>8 DEF Goto
<1>9. ASSUME Served, Serving PROVE LoopType'
  BY <1>9 DEF Served, ServingInv
<1>10. CASE Accept \/ Recv \/ RecvNothing
  BY <1>8, <1>10 DEF Accept, Recv, RecvNothing
<1>11. CASE AcceptCleans
  BY <1>1, <1>8, <1>11 DEF AcceptCleans
<1>12. CASE Dispatch
  BY <1>8, <1>12 DEF Dispatch
<1>13. CASE Check \/ Stat
  BY <1>8, <1>9, <1>13 DEF Check, Stat, Serving
<1>14. CASE Peers
  BY <1>1, <1>14 DEF Peers, SvcExit, Connect, Send, Hangup, Tick
<1>15. CASE UNCHANGED vars
  BY <1>1, <1>15 DEF vars
<1> QED BY <1>2, <1>3, <1>4, <1>5, <1>6, <1>7, <1>10, <1>11, <1>12, <1>13, <1>14, <1>15
        DEF Next, Loop

\* What becomes of a transport has the type of one.
LEMMA FreedRecord ==
    ASSUME NEW fd \in Fds \cup {-1}
    PROVE  Freed(fd) \in XprtRecords
<1>1. 0 \in 0..(IdleLimit + 1)
  BY SvcAssumption
<1>2. NewXprt(fd) \in XprtRecords
  BY <1>1 DEF XprtRecords, NewXprt
<1>3. \A n \in XprtRecords : [n EXCEPT !.st = "freed"] \in XprtRecords
  BY DEF XprtRecords
<1>4. [NewXprt(fd) EXCEPT !.st = "freed"] \in XprtRecords
  BY <1>2, <1>3
<1> QED BY <1>4 DEF Freed

\* So have the updates of the steps.
LEMMA RecordUpdates ==
    ASSUME NEW r \in XprtRecords
    PROVE  /\ [r EXCEPT !.died = TRUE] \in XprtRecords
           /\ [r EXCEPT !.idle = 0] \in XprtRecords
           /\ r.idle <= IdleLimit => [r EXCEPT !.idle = @ + 1] \in XprtRecords
           /\ Freed(r.fd) \in XprtRecords
<1>1. 0 \in 0..(IdleLimit + 1) /\ IdleLimit \in Nat
  BY SvcAssumption
<1>2. r.fd \in Fds \cup {-1} /\ r.idle \in 0..(IdleLimit + 1)
  BY DEF XprtRecords
<1>3. r.idle <= IdleLimit => r.idle + 1 \in 0..(IdleLimit + 1)
  BY <1>1, <1>2
<1>4. [r EXCEPT !.died = TRUE] \in XprtRecords /\ [r EXCEPT !.idle = 0] \in XprtRecords
  BY <1>1 DEF XprtRecords
<1>5. r.idle <= IdleLimit => [r EXCEPT !.idle = @ + 1] \in XprtRecords
  BY <1>3 DEF XprtRecords
<1>6. Freed(r.fd) \in XprtRecords
  BY <1>2, FreedRecord
<1> QED BY <1>4, <1>5, <1>6

\* The steps that only change the transports: what was received, and the clock.
LEMMA TransportsUpdated ==
    ASSUME XprtsInv, Recv \/ RecvNothing \/ Tick \/ xp' = [xp EXCEPT ![cur].died = TRUE]
    PROVE  /\ xp' \in [Xprts -> XprtRecords]
           /\ \A x \in Xprts : xp'[x].st = xp[x].st /\ xp'[x].fd = xp[x].fd
<1>1. xp \in [Xprts -> XprtRecords] /\ cur \in Xprts
  BY RegistryTypes DEF XprtsInv, TypeOK
<1>2. \A r \in XprtRecords : /\ [r EXCEPT !.died = TRUE].st = r.st /\ [r EXCEPT !.died = TRUE].fd = r.fd
                             /\ [r EXCEPT !.idle = 0].st = r.st /\ [r EXCEPT !.idle = 0].fd = r.fd
                             /\ [r EXCEPT !.idle = @ + 1].st = r.st /\ [r EXCEPT !.idle = @ + 1].fd = r.fd
  BY DEF XprtRecords
<1>3. CASE xp' = [xp EXCEPT ![cur].died = TRUE]
  <2>1. xp' = [xp EXCEPT ![cur] = [xp[cur] EXCEPT !.died = TRUE]]
    BY <1>3
  <2> QED BY <1>1, <1>2, <2>1, RecordUpdates
<1>4. CASE xp' = [xp EXCEPT ![cur].idle = 0]
  <2>1. xp' = [xp EXCEPT ![cur] = [xp[cur] EXCEPT !.idle = 0]]
    BY <1>4
  <2> QED BY <1>1, <1>2, <2>1, RecordUpdates
<1>5. CASE xp' = [xp EXCEPT ![cur].idle = 0, ![cur].died = TRUE]
  <2>1. xp' = [xp EXCEPT ![cur] = [[xp[cur] EXCEPT !.idle = 0] EXCEPT !.died = TRUE]]
    BY <1>1, <1>5
  <2> DEFINE heard == [xp[cur] EXCEPT !.idle = 0]
  <2>2. heard \in XprtRecords /\ heard.st = xp[cur].st /\ heard.fd = xp[cur].fd
    BY <1>1, <1>2, RecordUpdates
  <2>3. xp' = [xp EXCEPT ![cur] = [heard EXCEPT !.died = TRUE]]
    BY <2>1
  <2> HIDE DEF heard
  <2>4. /\ [heard EXCEPT !.died = TRUE] \in XprtRecords
        /\ [heard EXCEPT !.died = TRUE].st = xp[cur].st /\ [heard EXCEPT !.died = TRUE].fd = xp[cur].fd
    BY <1>2, <2>2, RecordUpdates
  <2> QED BY <1>1, <2>3, <2>4
<1>6. CASE Tick
  <2>1. xp' = [x \in Xprts |-> IF xp[x].st = "live" /\ IsConn(x) /\ xp[x].idle <= IdleLimit
                              THEN [xp[x] EXCEPT !.idle = @ + 1] ELSE xp[x]]
    BY <1>6 DEF Tick
  <2> QED BY <1>1, <1>2, <2>1, RecordUpdates
<1> QED BY <1>3, <1>4, <1>5, <1>6 DEF Recv, RecvNothing

LEMMA RegistryTypeStep ==
    ASSUME XprtsInv, ServingInv, [Next]_vars
    PROVE  RegistryType'
<1>1. RegistryType
  BY TypeParts DEF XprtsInv
<1>0. /\ input \in [Fds -> Nat] /\ 0 \in Fds
      /\ \A f \in Fds, n \in Nat : [input EXCEPT ![f] = n] \in [Fds -> Nat]
  BY <1>1, SvcAssumption DEF RegistryType
<1>2. CASE UNCHANGED <<mode, fd_setsize, registry, xp, kernel, history>>
  BY <1>1, <1>2 DEF RegistryType, registry, kernel, history
<1>3. CASE PollEvents
  BY <1>1, <1>3 DEF PollEvents, RegistryType, registry, kernel
<1>4. ASSUME NEW X \in SUBSET Xprts, Destroyed(X) PROVE RegistryType'
  <2>1. xports' \in [Fds -> Xprts \cup {NoXprt}] /\ input' \in [Fds -> Nat]
    BY <1>1, <1>4 DEF RegistryType, Destroyed
  <2>2. xp' \in [Xprts -> XprtRecords]
    BY <1>1, <1>4, RecordUpdates DEF RegistryType, Destroyed
  <2>3. /\ fdset' \subseteq Fds /\ open' \subseteq Fds /\ hup' \subseteq Fds
        /\ fdmax' \in Fds \cup {-1} /\ fdp' \in Seq(Fds \cup {-1})
    BY <1>1, <1>4 DEF RegistryType, Destroyed
  <2>4. UNCHANGED <<mode, fd_setsize, fd_lock, exited, nconns, nreqs, reused, stale>>
    BY <1>4 DEF Destroyed
  <2> QED BY <1>1, <2>1, <2>2, <2>3, <2>4 DEF RegistryType
<1>5. CASE Emptied
  <2>1. /\ fdset' = {} /\ fdmax' = -1 /\ fdp' = << >> /\ exited' = TRUE
        /\ UNCHANGED <<mode, fd_setsize, xports, fd_lock, xp, open, input, hup,
                       nconns, nreqs, reused, stale>>
    BY <1>5 DEF Emptied, Zeroed, kernel
  <2> QED BY <1>1, <2>1 DEF RegistryType
<1>6. ASSUME UNCHANGED <<mode, fd_setsize, registry, open, hup, history>>,
             xp' \in [Xprts -> XprtRecords], input' \in [Fds -> Nat]
      PROVE  RegistryType'
  BY <1>1, <1>6 DEF RegistryType, registry, history
<1>7. CASE Recv
  <2>1. UNCHANGED <<mode, fd_setsize, registry, open, hup, history>>
        /\ input' = [input EXCEPT ![xp[cur].fd] = input[xp[cur].fd] - 1] /\ input[xp[cur].fd] > 0
    BY <1>7 DEF Recv
  <2>2. input' \in [Fds -> Nat]
    <3>1. xp[cur].fd \in Fds
      BY <1>7 DEF Recv, XprtsInv, TypeOK, TransportsInv
    <3>2. input[xp[cur].fd] - 1 \in Nat
      BY <1>0, <2>1, <3>1
    <3> QED BY <1>0, <2>1, <3>1, <3>2
  <2> QED BY <1>6, <1>7, <2>1, <2>2, TransportsUpdated
<1>8. CASE RecvNothing \/ Tick
  <2>1. UNCHANGED <<mode, fd_setsize, registry, open, input, hup, history>>
    BY <1>8 DEF RecvNothing, Tick, kernel
  <2> QED BY <1>1, <1>6, <1>8, <2>1, TransportsUpdated DEF RegistryType
<1>9. CASE Connect
  <2>1. UNCHANGED <<mode, fd_setsize, registry, xp, open, hup, history>>
        /\ input' = [input EXCEPT ![0] = input[0] + 1]
    BY <1>9 DEF Connect
  <2>2. input' \in [Fds -> Nat]
    <3>1. input[0] + 1 \in Nat
      BY <1>0
    <3> QED BY <1>0, <2>1, <3>1
  <2> QED BY <1>1, <1>6, <2>1, <2>2 DEF RegistryType
<1>10. CASE Send
  <2>1. PICK f \in Connected \ hup, k \in 1..2 : input' = [input EXCEPT ![f] = input[f] + k]
    BY <1>10 DEF Send
  <2>2. input' \in [Fds -> Nat]
    <3>1. f \in Fds
      BY <1>1 DEF RegistryType, Connected
    <3>2. input[f] + k \in Nat
      BY <1>0, <3>1
    <3> QED BY <1>0, <2>1, <3>1, <3>2
  <2>3. UNCHANGED <<mode, fd_setsize, registry, xp, open, hup, exited, nconns, reused, stale>>
        /\ nreqs < MaxReqs /\ nreqs' = nreqs + 1
    BY <1>10 DEF Send
  <2>4. nreqs' \in 0..MaxReqs
    BY <1>1, <2>3, SvcAssumption DEF RegistryType
  <2> QED BY <1>1, <2>2, <2>3, <2>4 DEF RegistryType, registry
<1>11. CASE Hangup
  <2>1. UNCHANGED <<mode, fd_setsize, registry, xp, open, input, history>> /\ hup' \subseteq Fds
    BY <1>1, <1>11 DEF Hangup, Connected, RegistryType
  <2> QED BY <1>1, <2>1 DEF RegistryType, registry, history
<1>12. CASE CleanIdle \/ AcceptCleans \/ Stat \/ SvcExit
  <2>1. Next
    BY <1>12 DEF Next, Loop, Peers
  <2>2. CASE CleanIdle
    <3>1. IdleTooLong \in SUBSET Xprts
      BY DEF IdleTooLong, Cleanable
    <3> QED BY <1>4, <2>2, <3>1, CleanIdleDestroys
  <2>3. ASSUME NEW x \in Xprts, IsConn(x), xp[x].st = "live", Destroy(x),
               UNCHANGED <<mode, fd_setsize, history>>
        PROVE  RegistryType'
    <3>1. UNCHANGED <<mode, fd_setsize, exited, nconns, nreqs, reused, stale>>
      BY <2>3 DEF history
    <3>2. Destroyed({x})
      BY <2>3, <3>1, DestroyDestroys
    <3> QED BY <1>4, <3>2
  <2>4. CASE AcceptCleans
    <3>1. ASSUME NEW x \in LeastActive, Destroy(x) PROVE RegistryType'
      BY <2>3, <2>4, <3>1 DEF AcceptCleans, LeastActive, Cleanable
    <3> QED BY <1>2, <2>4, <3>1 DEF AcceptCleans
  <2>5. CASE Stat
    <3>1. ASSUME xp[cur].st = "live", xp[cur].died, Destroy(cur) PROVE RegistryType'
      <4>1. IsConn(cur) /\ cur \in Xprts
        BY <3>1 DEF XprtsInv, TypeOK, TransportsInv, IsConn
      <4> QED BY <2>3, <2>5, <3>1, <4>1 DEF Stat
    <3> QED BY <1>2, <2>5, <3>1 DEF Stat
  <2>6. CASE SvcExit
    BY <1>5, <2>6 DEF SvcExit, Emptied, kernel
  <2> QED BY <1>12, <2>2, <2>4, <2>5, <2>6
<1>13. CASE Dispatch
  <2>1. UNCHANGED <<mode, fd_setsize, nconns, nreqs, reused, stale>>
    BY <1>13 DEF Dispatch
  <2>2. CASE UNCHANGED <<registry, xp, kernel, exited>>
    BY <1>2, <2>1, <2>2 DEF history
  <2>3. CASE xp' = [xp EXCEPT ![cur].died = TRUE] /\ UNCHANGED <<registry, kernel, exited>>
    BY <1>1, <1>6, <2>1, <2>3, TransportsUpdated DEF RegistryType, kernel, history
  <2>4. CASE Zeroed /\ exited' = TRUE /\ UNCHANGED <<xports, fd_lock, xp, kernel>>
    BY <1>5, <2>1, <2>4 DEF Emptied
  <2>5. ASSUME NEW x \in Xprts, IsConn(x), xp[x].st = "live", Destroy(x), UNCHANGED exited
        PROVE  RegistryType'
    BY <1>4, <2>1, <2>5, DestroyDestroys
  <2> QED BY <1>13, <2>2, <2>3, <2>4, <2>5 DEF Dispatch
<1>14. CASE Accept
  <2>1. PICK fd \in Fds \ open, x \in Xprts :
          /\ x = nconns + 1 /\ nconns' = x /\ reused' = reused \cup {fd}
          /\ Leaks(x, fd) \/ Enters(x, fd) \/ UNCHANGED <<registry, xp, open, stale>>
    BY <1>14, AcceptCases
  <2>2. /\ input' = [input EXCEPT ![0] = @ - 1] /\ input[0] > 0
        /\ UNCHANGED <<mode, fd_setsize, hup, exited, nreqs>>
        /\ nconns' = nconns + 1 /\ nconns < MaxConns
    BY <1>14 DEF Accept
  <2>3. input' \in [Fds -> Nat] /\ nconns' \in 0..MaxConns /\ reused' \subseteq Fds
    BY <1>1, <2>1, <2>2, SvcAssumption DEF RegistryType
  <2>4. CASE Leaks(x, fd)
    <3>1. Freed(fd) \in XprtRecords
      BY FreedRecord
    <3> QED BY <1>1, <2>2, <2>3, <2>4, <3>1 DEF RegistryType, Leaks
  <2>5. CASE Enters(x, fd)
    BY <1>1, <2>2, <2>3, <2>5 DEF RegistryType, Enters
  <2>6. CASE UNCHANGED <<registry, xp, open, stale>>
    BY <1>1, <2>2, <2>3, <2>6 DEF RegistryType, registry
  <2> QED BY <2>1, <2>4, <2>5, <2>6
<1>15. CASE Copy \/ PollFails \/ Interrupted \/ Serve \/ Check
  BY <1>2, <1>15 DEF Copy, PollFails, Interrupted, Serve, Check
<1>16. CASE UNCHANGED vars
  BY <1>2, <1>16 DEF vars
<1> QED BY <1>3, <1>7, <1>8, <1>9, <1>10, <1>11, <1>12, <1>13, <1>14, <1>15, <1>16
        DEF Next, Loop, Peers

LEMMA TypeStep ==
    ASSUME XprtsInv, ServingInv, [Next]_vars
    PROVE  TypeOK'
  BY TypeParts, RegistryTypeStep, LoopTypeStep DEF XprtsInv
-----------------------------------------------------------------------------
(* The loop. *)

\* Destroying a connection leaves the other transports and the lock alone.
LEMMA OthersKept ==
    ASSUME XprtsInv, NEW x \in Xprts, Destroy(x)
    PROVE  UNCHANGED fd_lock /\ \A y \in Xprts : y # x => xp'[y] = xp[y]
  BY RegistryTypes DEF XprtsInv, Destroy, Unregister

\* The transport that is served stays the one of the first descriptor reported.
LEMMA ServingStep ==
    ASSUME XprtsInv, ServingInv, [Next]_vars
    PROVE  ServingInv'
<1>1. /\ cur \in Xprts /\ 0 \in Xprts /\ xp \in [Xprts -> XprtRecords]
      /\ xports \in [Fds -> Xprts \cup {NoXprt}] /\ ready \in Seq(Fds)
      /\ Serving => /\ ready # << >> /\ xp[cur].fd = Head(ready)
                    /\ xp[cur].st = "live" \/ (pc = "stat" /\ Gone(cur))
      /\ pc = "dispatch" => IsConn(cur)
      /\ fd_lock # "free" => pc = "check"
  BY RegistryTypes DEF XprtsInv, TypeOK, ServingInv
<1>2. CASE /\ UNCHANGED <<pc, ready, cur, fd_lock>>
           /\ xp'[cur].st = xp[cur].st /\ xp'[cur].fd = xp[cur].fd
           /\ pc = "stat" => UNCHANGED <<xports, open>>
  BY <1>1, <1>2 DEF ServingInv, Serving, Gone
<1>3. ASSUME pc' \notin {"recv", "dispatch", "check", "stat"}, fd_lock' = "free"
      PROVE  ServingInv'
  BY <1>3 DEF ServingInv, Serving
<1>4. ASSUME Serving, NEW place \in {"check", "stat", "recv", "dispatch"}, Goto(place),
             xp'[cur].st = "live" \/ (place = "stat" /\ Gone(cur)'), xp'[cur].fd = xp[cur].fd,
             fd_lock' = "free" \/ place = "check", place = "dispatch" => IsConn(cur)
      PROVE  ServingInv'
  BY <1>1, <1>4 DEF ServingInv, Serving, Goto, Gone
<1>5. CASE Copy \/ PollEvents \/ PollFails \/ Interrupted \/ CleanIdle
  <2>1. fd_lock' = fd_lock /\ pc # "check" /\ pc' \in {"poll", "serve", "done", "top"}
    BY <1>5 DEF Copy, PollEvents, PollFails, Interrupted, CleanIdle, registry, Stop
  <2> QED BY <1>1, <1>3, <2>1
<1>6. CASE Serve
  <2>1. pc = "serve" /\ UNCHANGED <<registry, xp>>
    BY <1>6 DEF Serve
  <2>2. fd_lock' = "free" /\ fd_lock = "free" /\ xp' = xp
    BY <1>1, <2>1 DEF registry
  <2>3. CASE pc' = "recv" /\ cur' = xports[Head(ready)] /\ UNCHANGED ready /\ ready # << >>
             /\ xports[Head(ready)] # NoXprt
    <3>1. Head(ready) \in Fds
      BY <1>1, <2>3
    <3>2. xp[xports[Head(ready)]].st = "live" /\ xp[xports[Head(ready)]].fd = Head(ready)
      BY <2>2, <2>3, <3>1 DEF XprtsInv, RegistryIsLive
    <3> QED BY <2>2, <2>3, <3>2 DEF ServingInv, Serving
  <2>4. CASE pc' \in {"top", "serve"}
    BY <1>3, <2>2, <2>4
  <2> QED BY <1>6, <2>1, <2>3, <2>4 DEF Serve
<1>7. CASE Accept
  <2>1. pc = "recv" /\ cur = 0 /\ Goto("check")
    BY <1>7 DEF Accept
  <2>2. PICK fd \in Fds \ open, x \in Xprts :
          /\ IsConn(x)
          /\ Leaks(x, fd) \/ Enters(x, fd) \/ UNCHANGED <<registry, xp, open, stale>>
    BY <1>7, AcceptCases
  <2>3. xp'[0] = xp[0]
    BY <1>1, <2>2 DEF IsConn, Leaks, Enters
  <2> QED BY <1>1, <1>4, <2>1, <2>3 DEF Serving
<1>8. CASE AcceptCleans
  <2>1. pc = "recv" /\ cur = 0 /\ fd_lock = "free"
    BY <1>8 DEF AcceptCleans
  <2>2. ASSUME NEW x \in LeastActive, Destroy(x), UNCHANGED loop PROVE ServingInv'
    <3>1. x \in Xprts /\ x # 0
      BY DEF LeastActive, Cleanable, IsConn
    <3>2. UNCHANGED fd_lock /\ xp'[0] = xp[0]
      BY <1>1, <2>2, <3>1, OthersKept
    <3> QED BY <1>2, <2>1, <2>2, <3>2 DEF loop
  <2>3. CASE Goto("check") /\ UNCHANGED <<registry, xp>>
    BY <1>1, <1>4, <2>1, <2>3 DEF Serving
  <2> QED BY <1>8, <2>2, <2>3 DEF AcceptCleans
<1>9. CASE Recv \/ RecvNothing
  <2>1. /\ pc = "recv" /\ IsConn(cur) /\ UNCHANGED registry
        /\ Goto("dispatch") \/ Goto("check")
    BY <1>9 DEF Recv, RecvNothing
  <2>2. xp'[cur].st = "live" /\ xp'[cur].fd = xp[cur].fd
    BY <1>1, <1>9, <2>1, TransportsUpdated DEF Serving
  <2>3. fd_lock' = "free"
    BY <1>1, <2>1 DEF registry
  <2> QED BY <1>4, <2>1, <2>2, <2>3 DEF Serving
<1>10. CASE Dispatch
  <2>1. pc = "dispatch" /\ fd_lock = "free" /\ Serving /\ (Goto("check") \/ Goto("stat"))
    BY <1>1, <1>10 DEF Dispatch, Serving
  <2>2. CASE UNCHANGED <<registry, xp>>
    BY <1>1, <1>4, <2>1, <2>2 DEF registry
  <2>3. CASE xp' = [xp EXCEPT ![cur].died = TRUE] /\ UNCHANGED registry
    BY <1>1, <1>4, <2>1, <2>3, TransportsUpdated DEF registry
  <2>4. CASE UNCHANGED <<fd_lock, xp>>
    BY <1>1, <1>4, <2>1, <2>4
  <2>5. ASSUME NEW x \in Xprts, x # cur, Destroy(x) PROVE ServingInv'
    BY <1>1, <1>4, <2>1, <2>5, OthersKept
  <2>6. ASSUME IsConn(cur), xp[cur].st = "live", xports[xp[cur].fd] = cur, Destroy(cur),
               Goto("stat"), UNCHANGED <<mode, fd_setsize, exited, nconns, nreqs, reused, stale>>
        PROVE  ServingInv'
    <3>1. Destroyed({cur})
      BY <1>1, <2>6, DestroyDestroys
    <3>2. xp[cur].fd \in Fds
      BY <1>1, <2>6 DEF XprtsInv, TransportsInv
    <3>3. xp' = [y \in Xprts |-> IF y \in {cur} THEN Freed(xp[y].fd) ELSE xp[y]]
          /\ xports' = [f \in Fds |-> IF xports[f] \in {cur} THEN NoXprt ELSE xports[f]]
          /\ open' = open \ FdsOf({cur}) /\ fd_lock' = fd_lock
      BY <3>1 DEF Destroyed
    <3>4. xp'[cur].st = "freed" /\ xp'[cur].fd = xp[cur].fd
      BY <1>1, <3>3 DEF Freed, NewXprt
    <3>5. xports'[xp[cur].fd] = NoXprt /\ xp[cur].fd \notin open'
      BY <2>6, <3>2, <3>3 DEF FdsOf
    <3>6. UNCHANGED cur
      BY <2>6 DEF Goto
    <3>7. Gone(cur)'
      BY <3>4, <3>5, <3>6 DEF Gone
    <3> QED BY <1>4, <2>1, <2>6, <3>3, <3>4, <3>7
  <2> QED BY <1>10, <2>1, <2>2, <2>3, <2>4, <2>5, <2>6 DEF Dispatch
<1>11. CASE Check
  <2>1. pc = "check" /\ fd_lock = "free" /\ UNCHANGED <<registry, xp>> /\ (Goto("stat") \/ Served)
    BY <1>11 DEF Check
  <2>2. CASE Goto("stat")
    BY <1>1, <1>4, <2>1, <2>2 DEF registry, Serving
  <2>3. CASE Served
    BY <1>3, <2>1, <2>3 DEF registry, Served
  <2> QED BY <2>1, <2>2, <2>3
<1>12. CASE Stat
  <2>1. pc = "stat" /\ fd_lock = "free"
    BY <1>1, <1>12 DEF Stat
  <2>2. CASE Destroy(cur) /\ Served
    <3>1. fd_lock' = "free"
      BY <1>1, <2>1, <2>2, OthersKept
    <3> QED BY <1>3, <2>2, <3>1 DEF Served
  <2>3. CASE Served /\ UNCHANGED registry
    BY <1>3, <2>1, <2>3 DEF registry, Served
  <2>4. CASE xp[cur].st = "live" /\ Goto("recv") /\ UNCHANGED <<registry, xp>>
    BY <1>1, <1>4, <2>1, <2>4 DEF registry, Serving
  <2>5. CASE Goto("crashed") /\ UNCHANGED registry
    BY <1>3, <2>1, <2>5 DEF registry, Goto
  <2> QED BY <1>12, <2>2, <2>3, <2>4, <2>5 DEF Stat
<1>13. CASE Peers
  <2>1. UNCHANGED <<pc, ready, cur, fd_lock, xports, open>>
    BY <1>13 DEF Peers, SvcExit, Connect, Send, Hangup, Tick, loop, registry, kernel
  <2>2. CASE Tick
    BY <1>1, <1>2, <2>1, <2>2, TransportsUpdated
  <2>3. CASE UNCHANGED xp
    BY <1>2, <2>1, <2>3
  <2> QED BY <1>13, <2>2, <2>3 DEF Peers, SvcExit, Connect, Send, Hangup
<1>14. CASE UNCHANGED vars
  BY <1>2, <1>14 DEF vars, loop, registry, kernel
<1> QED BY <1>5, <1>6, <1>7, <1>8, <1>9, <1>10, <1>11, <1>12, <1>13, <1>14 DEF Next, Loop

\* The loop has something to poll until svc_exit, and ends for a reason.
LEMMA LoopStep ==
    ASSUME XprtsInv, ServingInv, LoopInv, PolledInv, [Next]_vars
    PROVE  LoopInv'
<1>1. /\ pc = "poll" /\ ~exited => pfd # << >>
      /\ pc = "done" => exited \/ stale \/ -1 \in Range(pfd)
  BY DEF LoopInv, LoopEndsForAReason
<1>2. CASE UNCHANGED <<pc, pfd, stale>> /\ (exited' = exited \/ exited' = TRUE)
  BY <1>1, <1>2 DEF LoopInv, LoopEndsForAReason
<1>3. CASE pc' \notin {"poll", "done"}
  BY <1>3 DEF LoopInv, LoopEndsForAReason
<1>4. CASE Copy
  <2>1. pc' = "poll" /\ fd_lock = "free" /\ exited' = exited
    BY <1>4 DEF Copy, history
  <2>2. ASSUME ~exited PROVE pfd' # << >>
    <3>1. fdset = Registered /\ fdset \subseteq Range(fdp)
      BY <2>1, <2>2 DEF XprtsInv, SetsInv
    <3>2. 0 \in Registered
      BY RegistryTypes DEF XprtsInv, TransportsInv, Registered, NoXprt
    <3> QED BY <1>4, <3>1, <3>2, CopyCopies DEF XprtsInv
  <2> QED BY <2>1, <2>2 DEF LoopInv, LoopEndsForAReason
<1>5. CASE PollFails
  <2>1. pc = "poll" /\ UNCHANGED <<pfd, exited, stale>>
    BY <1>5 DEF PollFails, Stop, history
  <2>2. CASE Polled = << >> /\ Stop
    <3>1. ASSUME ~exited PROVE FALSE
      <4>1. pfd # << >> /\ fd_lock = "free"
        BY <1>1, <2>1, <3>1 DEF ServingInv
      <4>2. 0 \in Range(fdp)
        BY <3>1, <4>1, RegistryTypes DEF XprtsInv, SetsInv, TransportsInv, Registered, NoXprt
      <4>3. fdp # << >>
        BY <4>2 DEF Range
      <4> QED BY <2>2, <4>1, <4>3, PolledIsCopied DEF XprtsInv
    <3> QED BY <2>1, <2>2, <3>1 DEF LoopInv, LoopEndsForAReason, Stop
  <2>3. CASE HasBadFd /\ Stop
    <3>1. PICK f \in Range(Polled) : f \notin open
      BY <2>3 DEF HasBadFd
    <3>2. f \in Range(pfd)
      BY <3>1, PolledIsCopied DEF XprtsInv
    <3>3. stale \/ f = -1
      BY <2>1, <3>1, <3>2 DEF PolledInv
    <3> QED BY <2>1, <2>3, <3>2, <3>3 DEF LoopInv, LoopEndsForAReason, Stop
  <2>4. CASE pc' = "top"
    BY <1>3, <2>4
  <2> QED BY <1>5, <2>2, <2>3, <2>4 DEF PollFails
<1>6. CASE PollEvents \/ Interrupted \/ CleanIdle
  BY <1>3, <1>6 DEF PollEvents, Interrupted, CleanIdle
<1>7. CASE Serve \/ Accept \/ Recv \/ RecvNothing \/ Dispatch \/ Check \/ Stat
  <2>1. ASSUME NEW place \in {"check", "stat", "recv", "dispatch", "crashed"}, Goto(place)
        PROVE  LoopInv'
    BY <1>3, <2>1 DEF Goto
  <2>2. CASE Served
    BY <1>3, <2>2 DEF Served
  <2>3. CASE Serve
    BY <1>3, <2>3 DEF Serve
  <2>4. CASE Accept \/ Recv \/ RecvNothing
    BY <2>1, <2>4 DEF Accept, Recv, RecvNothing
  <2>5. CASE Dispatch \/ Check \/ Stat
    BY <2>1, <2>2, <2>5 DEF Dispatch, Check, Stat
  <2> QED BY <1>7, <2>3, <2>4, <2>5
<1>8. CASE AcceptCleans
  BY <1>3, <1>8 DEF AcceptCleans, Goto, loop
<1>9. CASE Peers
  BY <1>2, <1>9 DEF Peers, SvcExit, Connect, Send, Hangup, Tick, loop, history
<1>10. CASE UNCHANGED vars
  BY <1>2, <1>10 DEF vars, loop, history
<1> QED BY <1>4, <1>5, <1>6, <1>7, <1>8, <1>9, <1>10 DEF Next, Loop

\* A list without repeats has none in its tail, nor its head there.
LEMMA TailOfDistinct ==
    ASSUME NEW s \in Seq(Fds), s # << >>
    PROVE  /\ Tail(s) \in Seq(Fds) /\ Range(Tail(s)) \subseteq Range(s) /\ Head(s) \in Range(s)
           /\ NoRepeats(s) => NoRepeats(Tail(s)) /\ Head(s) \notin Range(Tail(s))
<1>1. /\ Len(s) \in Nat /\ Len(s) > 0 /\ DOMAIN s = 1..Len(s) /\ Head(s) = s[1]
      /\ Tail(s) \in Seq(Fds) /\ Len(Tail(s)) = Len(s) - 1 /\ DOMAIN Tail(s) = 1..(Len(s) - 1)
      /\ \A i \in 1..(Len(s) - 1) : Tail(s)[i] = s[i + 1]
  OBVIOUS
<1>2. \A i \in 1..(Len(s) - 1) : i + 1 \in 1..Len(s) /\ i + 1 # 1
  BY <1>1
<1>3. 1 \in DOMAIN s /\ s \in [1..Len(s) -> Fds] /\ -1 \notin Fds
  BY <1>1, SvcAssumption
<1>4. Range(Tail(s)) \subseteq Range(s) /\ Head(s) \in Range(s)
  BY <1>1, <1>2, <1>3 DEF Range
<1>5. ASSUME NoRepeats(s) PROVE NoRepeats(Tail(s)) /\ Head(s) \notin Range(Tail(s))
  <2>1. \A i, j \in 1..Len(s) : s[i] = s[j] => i = j
    BY <1>1, <1>3, <1>5 DEF NoRepeats
  <2>2. ASSUME NEW i \in DOMAIN Tail(s), NEW j \in DOMAIN Tail(s), Tail(s)[i] = Tail(s)[j]
        PROVE  i = j
    <3>1. i + 1 = j + 1
      BY <1>1, <1>2, <2>1, <2>2
    <3> QED BY <1>1, <3>1
  <2>3. \A i \in DOMAIN Tail(s) : Tail(s)[i] # Head(s)
    BY <1>1, <1>2, <1>3, <2>1
  <2> QED BY <2>2, <2>3 DEF NoRepeats, Range
<1> QED BY <1>1, <1>4, <1>5

\* A closed descriptor left registered is remembered.
LEMMA StaleStays ==
    ASSUME XprtsInv, ServingInv, [Next]_vars, stale
    PROVE  stale'
<1>1. CASE Accept
  <2>1. PICK fd \in Fds \ open, x \in Xprts :
          Leaks(x, fd) \/ Enters(x, fd) \/ UNCHANGED <<registry, xp, open, stale>>
    BY <1>1, AcceptCases
  <2> QED BY <2>1 DEF Leaks, Enters
<1>2. CASE UNCHANGED vars
  BY <1>2 DEF vars, history
<1>3. CASE Elsewhere \/ Emptied \/ \E X \in SUBSET Xprts : Destroyed(X)
  BY <1>3 DEF Elsewhere, Emptied, Destroyed
<1> QED BY <1>1, <1>2, <1>3, StepCases

\* What is polled is open and in one place only.
LEMMA PolledStep ==
    ASSUME XprtsInv, OpenInv, ServingInv, PolledInv, [Next]_vars
    PROVE  PolledInv'
<1>1. /\ ready \in Seq(Fds) /\ pfd \in Seq(Fds \cup {-1})
      /\ ~stale => /\ pc = "poll" => Range(pfd) \subseteq open \cup {-1}
                   /\ NoRepeats(pfd) /\ NoRepeats(ready)
      /\ Serving => ready # << >>
  BY DEF XprtsInv, TypeOK, PolledInv, ServingInv
<1>2. ~stale' => ~stale
  BY StaleStays
<1>3. CASE UNCHANGED <<pc, pfd, open>> /\ ready' = ready
  BY <1>1, <1>2, <1>3 DEF PolledInv
<1>4. CASE UNCHANGED pfd /\ pc' # "poll" /\ (ready' = ready \/ (ready # << >> /\ ready' = Tail(ready)))
  BY <1>1, <1>2, <1>4, TailOfDistinct DEF PolledInv
<1>5. CASE Copy
  <2>1. pc' = "poll" /\ UNCHANGED <<registry, open, ready, stale>>
    BY <1>5 DEF Copy, kernel, history
  <2>2. ASSUME ~stale PROVE NoRepeats(pfd') /\ Range(pfd') \subseteq open \cup {-1}
    BY <1>5, <2>2, CopyCopies DEF XprtsInv, OpenInv
  <2> QED BY <1>1, <2>1, <2>2 DEF PolledInv
<1>6. CASE PollEvents
  <2>1. pc' = "serve" /\ UNCHANGED <<pfd, stale>>
    BY <1>6 DEF PollEvents
  <2>2. NoRepeats(pfd) => NoRepeats(ready')
    BY <1>6, PollEventsReports DEF XprtsInv
  <2> QED BY <1>1, <2>1, <2>2 DEF PolledInv
<1>7. CASE PollFails \/ Interrupted \/ CleanIdle
  BY <1>4, <1>7 DEF PollFails, Interrupted, CleanIdle, Stop
<1>8. CASE Serve
  BY <1>4, <1>8 DEF Serve
<1>9. ASSUME NEW place \in {"check", "stat", "recv", "dispatch", "crashed"}, Goto(place)
      PROVE  PolledInv'
  BY <1>4, <1>9 DEF Goto
<1>10. ASSUME Served, Serving PROVE PolledInv'
  BY <1>1, <1>4, <1>10 DEF Served
<1>11. CASE Accept \/ Recv \/ RecvNothing \/ Dispatch
  <2>1. CASE Accept \/ Recv \/ RecvNothing
    BY <1>9, <2>1 DEF Accept, Recv, RecvNothing
  <2>2. CASE Dispatch
    BY <1>9, <2>2 DEF Dispatch
  <2> QED BY <1>11, <2>1, <2>2
<1>12. CASE AcceptCleans
  <2>1. CASE UNCHANGED loop
    BY <1>4, <1>12, <2>1 DEF AcceptCleans, loop
  <2>2. CASE Goto("check")
    BY <1>9, <2>2
  <2> QED BY <1>12, <2>1, <2>2 DEF AcceptCleans
<1>13. CASE Check
  BY <1>9, <1>10, <1>13 DEF Check, Serving
<1>14. CASE Stat
  BY <1>9, <1>10, <1>14 DEF Stat, Serving
<1>15. CASE Peers
  BY <1>3, <1>15 DEF Peers, SvcExit, Connect, Send, Hangup, Tick, loop, kernel
<1>16. CASE UNCHANGED vars
  BY <1>3, <1>16 DEF vars, loop, kernel
<1> QED BY <1>5, <1>6, <1>7, <1>8, <1>11, <1>12, <1>13, <1>14, <1>15, <1>16 DEF Next, Loop
-----------------------------------------------------------------------------
(* Why connections are read. *)

HasReasonAfter(f) == input'[f] > 0 \/ f \in hup' \/ f \in reused'

\* A descriptor that is registered after the step has a reason, or had none before.
Keeps(f) == xports'[f] # NoXprt => HasReasonAfter(f) \/ (xports[f] # NoXprt /\ ~HasReason(f))

\* Destroying connections takes nothing from a descriptor that stays registered.
LEMMA DestroyedKeepsReasons ==
    ASSUME XprtsInv, OpenInv, ~stale, NEW X \in SUBSET Xprts, Destroyed(X), NEW f \in Fds
    PROVE  Keeps(f)
<1>1. /\ fd_lock = "free" /\ \A x \in X : IsConn(x) /\ xp[x].st = "live"
      /\ xports'[f] = IF xports[f] \in X THEN NoXprt ELSE xports[f]
      /\ hup' = hup \ FdsOf(X) /\ input'[f] = IF f \in FdsOf(X) THEN 0 ELSE input[f]
      /\ reused' = reused
  BY DEF Destroyed
<1>2. f \in FdsOf(X) => xports[f] \in X
  BY <1>1 DEF OpenInv, FdsOf
<1> QED BY <1>1, <1>2 DEF Keeps, HasReason, HasReasonAfter, HasEvent

\* What waits to be served has an event, or is new on a descriptor that had one.
LEMMA EventsStep ==
    ASSUME XprtsInv, OpenInv, ServingInv, PolledInv, EventsInv, [Next]_vars
    PROVE  EventsInv'
<1> SUFFICES ASSUME ~stale', pc' # "crashed" PROVE EventsInv'
  BY DEF EventsInv
<1>0. pc # "crashed"
  BY DEF Next, Loop, Peers, Copy, PollEvents, PollFails, Interrupted, CleanIdle, Serve, Accept,
         AcceptCleans, Recv, RecvNothing, Dispatch, Check, Stat, SvcExit, Connect, Send, Hangup,
         Tick, loop, vars
<1>1. /\ ~stale /\ ready \in Seq(Fds) /\ cur \in Xprts /\ NoRepeats(ready)
      /\ \A f \in Range(Waiting) : f # 0 /\ xports[f] # NoXprt => HasReason(f)
      /\ pc = "recv" /\ IsConn(cur) => HasReason(xp[cur].fd)
      /\ Serving => ready # << >> /\ xp[cur].fd = Head(ready)
      /\ input \in [Fds -> Nat] /\ open \subseteq Fds
  BY <1>0, StaleStays DEF XprtsInv, TypeOK, PolledInv, EventsInv, ServingInv
<1>2. Range(ready) \subseteq Fds /\ Range(Waiting) \subseteq Range(ready)
  <2>1. Range(ready) \subseteq Fds
    BY <1>1 DEF Range
  <2> QED BY <1>1, <2>1, TailOfDistinct DEF Waiting
<1> DEFINE Shrunk == Range(Waiting') \subseteq Range(Waiting)
           Justified == pc' = "recv" /\ IsConn(cur') => HasReasonAfter(xp'[cur'].fd)
<1>3. ASSUME Shrunk, \A f \in Range(Waiting') \ {0} : Keeps(f), Justified
      PROVE  EventsInv'
  <2>1. ASSUME NEW f \in Range(Waiting'), f # 0, xports'[f] # NoXprt
        PROVE  HasReasonAfter(f)
    BY <1>1, <1>3, <2>1 DEF Keeps
  <2> QED BY <1>3, <2>1 DEF EventsInv, HasReason, HasReasonAfter, HasEvent
<1>4. ASSUME UNCHANGED <<input, hup, reused, xports>> PROVE \A f : Keeps(f)
  BY <1>4 DEF Keeps, HasReason, HasReasonAfter, HasEvent
<1>5. /\ UNCHANGED <<pc, ready>> => Shrunk
      /\ ~Serving /\ ready' = ready /\ pc' \notin {"recv", "dispatch", "check", "stat"} => Shrunk
  BY DEF Waiting, Serving
<1>6. ASSUME Serving, NEW place \in {"recv", "dispatch", "check", "stat"}, Goto(place)
      PROVE  Shrunk /\ pc' = place
  BY <1>6 DEF Goto, Waiting, Serving
<1>7. ASSUME Serving, Served PROVE Shrunk /\ Justified
  BY <1>7 DEF Served, Waiting, Serving
<1>8. ASSUME NEW x \in Xprts, IsConn(x), xp[x].st = "live", Destroy(x),
             UNCHANGED <<mode, fd_setsize, exited, nconns, nreqs, reused, stale>>
      PROVE  \A f \in Fds : Keeps(f)
  BY <1>1, <1>8, DestroyDestroys, DestroyedKeepsReasons
<1> HIDE DEF Shrunk
<1>9. CASE Copy \/ PollFails \/ Interrupted
  <2>1. /\ ~Serving /\ ready' = ready /\ pc' \in {"poll", "top", "done"}
        /\ UNCHANGED <<input, hup, reused, xports>>
    BY <1>9 DEF Copy, PollFails, Interrupted, Stop, Serving, registry, kernel, history
  <2> QED BY <1>3, <1>4, <1>5, <2>1
<1>10. CASE PollEvents
  <2>1. pc' = "serve" /\ UNCHANGED <<input, hup>>
    BY <1>10 DEF PollEvents, kernel
  <2>2. \A f \in Range(ready') : HasEvent(f)
    BY <1>10, PollEventsReports DEF XprtsInv
  <2>3. Waiting' = ready'
    BY <2>1 DEF Waiting, Serving
  <2>4. \A f \in Range(ready') : HasReasonAfter(f)
    BY <2>1, <2>2 DEF HasReason, HasReasonAfter, HasEvent
  <2> QED BY <2>1, <2>3, <2>4 DEF EventsInv, HasReason, HasReasonAfter, HasEvent
<1>11. CASE CleanIdle
  <2>1. ~Serving /\ ready' = ready /\ pc' = "top"
    BY <1>11 DEF CleanIdle, Serving
  <2>2. IdleTooLong \in SUBSET Xprts
    BY DEF IdleTooLong, Cleanable
  <2>3. \A f \in Fds : Keeps(f)
    BY <1>1, <1>11, <2>2, CleanIdleDestroys, DestroyedKeepsReasons
  <2>4. Shrunk
    BY <1>5, <2>1
  <2> QED BY <1>2, <1>3, <2>1, <2>3, <2>4 DEF Shrunk
<1>12. CASE Serve
  <2>1. pc = "serve" /\ UNCHANGED <<input, hup, reused, xports, registry, xp>>
    BY <1>12 DEF Serve, registry, kernel, history
  <2>2. CASE ready = << >> /\ pc' = "top" /\ UNCHANGED ready
    BY <1>3, <1>4, <1>5, <2>1, <2>2 DEF Serving
  <2>3. CASE ready # << >> /\ ready' = Tail(ready) /\ UNCHANGED pc
    <3>1. Shrunk
      BY <1>1, <2>1, <2>3, TailOfDistinct DEF Shrunk, Waiting, Serving
    <3> QED BY <1>3, <1>4, <2>1, <2>3, <3>1
  <2>4. CASE /\ ready # << >> /\ fd_lock = "free" /\ xports[Head(ready)] # NoXprt
             /\ pc' = "recv" /\ cur' = xports[Head(ready)] /\ UNCHANGED ready
    <3>1. Shrunk
      BY <1>1, <2>1, <2>4, TailOfDistinct DEF Shrunk, Waiting, Serving
    <3>2. Head(ready) \in Fds /\ Head(ready) \in Range(Waiting)
      BY <1>1, <1>2, <2>1, <2>4, TailOfDistinct DEF Waiting, Serving
    <3>3. xp[cur'].fd = Head(ready)
      BY <2>4, <3>2 DEF XprtsInv, RegistryIsLive
    <3>4. Justified
      <4>1. xports[0] = 0
        BY DEF XprtsInv, TransportsInv
      <4>2. IsConn(cur') => Head(ready) # 0
        BY <2>4, <4>1 DEF IsConn
      <4>3. IsConn(cur') => HasReason(Head(ready))
        BY <1>1, <2>4, <3>2, <4>2
      <4> QED BY <2>1, <3>3, <4>3 DEF HasReason, HasReasonAfter, HasEvent
    <3> QED BY <1>3, <1>4, <2>1, <3>1, <3>4
  <2> QED BY <1>12, <2>2, <2>3, <2>4 DEF Serve
<1>13. CASE Accept
  <2>1. pc = "recv" /\ cur = 0 /\ Goto("check") /\ UNCHANGED hup /\ input' = [input EXCEPT ![0] = @ - 1]
    BY <1>13 DEF Accept
  <2>2. PICK fd \in Fds \ open, x \in Xprts :
          /\ reused' = reused \cup {fd}
          /\ Leaks(x, fd) \/ Enters(x, fd) \/ UNCHANGED <<registry, xp, open, stale>>
    BY <1>13, AcceptCases
  <2>3. \A f \in Fds : f # fd => xports'[f] = xports[f]
    BY <2>2, RegistryTypes DEF XprtsInv, Leaks, Enters, registry
  <2>4. \A f \in Fds \ {0} : Keeps(f)
    BY <1>1, <2>1, <2>2, <2>3 DEF Keeps, HasReason, HasReasonAfter, HasEvent
  <2>5. Shrunk /\ pc' = "check"
    BY <1>6, <2>1 DEF Serving
  <2> QED BY <1>2, <1>3, <2>4, <2>5 DEF Shrunk
<1>14. CASE AcceptCleans
  <2>1. pc = "recv" /\ cur = 0 /\ UNCHANGED <<mode, fd_setsize, exited, nconns, nreqs, reused, stale>>
    BY <1>14 DEF AcceptCleans, history
  <2>2. ASSUME NEW x \in LeastActive, Destroy(x), UNCHANGED loop PROVE EventsInv'
    <3>1. x \in Xprts /\ IsConn(x) /\ xp[x].st = "live"
      BY DEF LeastActive, Cleanable
    <3>2. \A f \in Fds : Keeps(f)
      BY <1>8, <2>1, <2>2, <3>1
    <3>3. Shrunk /\ cur' = 0
      BY <1>5, <2>1, <2>2 DEF loop
    <3> QED BY <1>2, <1>3, <3>2, <3>3 DEF Shrunk, IsConn
  <2>3. CASE Goto("check") /\ UNCHANGED <<registry, kernel>>
    <3>1. Shrunk /\ pc' = "check"
      BY <1>6, <2>1, <2>3 DEF Serving
    <3> QED BY <1>3, <1>4, <2>1, <2>3, <3>1 DEF registry, kernel
  <2> QED BY <1>14, <2>2, <2>3 DEF AcceptCleans
<1>15. CASE Recv
  <2>1. /\ pc = "recv" /\ (Goto("dispatch") \/ Goto("check"))
        /\ UNCHANGED <<xports, hup, reused>> /\ input' = [input EXCEPT ![xp[cur].fd] = @ - 1]
    BY <1>15 DEF Recv, registry, history
  <2>2. Shrunk /\ pc' \in {"dispatch", "check"}
    BY <1>6, <2>1 DEF Serving
  <2>3. Waiting = Tail(ready) /\ xp[cur].fd = Head(ready) /\ Head(ready) \notin Range(Tail(ready))
    BY <1>1, <2>1, TailOfDistinct DEF Waiting, Serving
  <2>4. \A f \in Range(Waiting') : f \in Fds /\ input'[f] = input[f]
    BY <1>1, <1>2, <2>1, <2>2, <2>3 DEF Shrunk
  <2>5. \A f \in Range(Waiting') : Keeps(f)
    BY <2>1, <2>4 DEF Keeps, HasReason, HasReasonAfter, HasEvent
  <2> QED BY <1>3, <2>2, <2>5
<1>16. CASE RecvNothing
  <2>1. pc = "recv" /\ Goto("check") /\ UNCHANGED <<input, hup, reused, xports>>
    BY <1>16 DEF RecvNothing, registry, kernel, history
  <2> QED BY <1>3, <1>4, <1>6, <2>1 DEF Serving
<1>17. CASE Dispatch
  <2>1. /\ pc = "dispatch" /\ UNCHANGED <<mode, fd_setsize, nconns, nreqs, reused, stale>>
        /\ Goto("check") \/ Goto("stat")
    BY <1>17 DEF Dispatch
  <2>2. Shrunk /\ pc' \in {"check", "stat"}
    BY <1>6, <2>1 DEF Serving
  <2>3. CASE UNCHANGED <<xports, kernel>>
    BY <1>3, <1>4, <2>1, <2>2, <2>3 DEF kernel
  <2>4. ASSUME NEW x \in Xprts, IsConn(x), xp[x].st = "live", Destroy(x), UNCHANGED exited
        PROVE  EventsInv'
    <3>1. \A f \in Fds : Keeps(f)
      BY <1>8, <2>1, <2>4
    <3> QED BY <1>2, <1>3, <2>2, <3>1 DEF Shrunk
  <2> QED BY <1>17, <2>3, <2>4 DEF Dispatch, registry
<1>18. CASE Check
  <2>1. pc = "check" /\ UNCHANGED <<input, hup, reused, xports>> /\ (Goto("stat") \/ Served)
    BY <1>18 DEF Check, registry, kernel, history
  <2> QED BY <1>3, <1>4, <1>6, <1>7, <2>1 DEF Serving
<1>19. CASE Stat
  <2>1. pc = "stat" /\ UNCHANGED <<mode, fd_setsize, history>>
    BY <1>19 DEF Stat
  <2>2. CASE xp[cur].st = "live" /\ xp[cur].died /\ Destroy(cur) /\ Served
    <3>1. IsConn(cur)
      BY <2>2 DEF XprtsInv, TransportsInv, IsConn
    <3>2. \A f \in Fds : Keeps(f)
      BY <1>1, <1>8, <2>1, <2>2, <3>1 DEF history
    <3>3. Shrunk /\ Justified
      BY <1>7, <2>1, <2>2 DEF Serving
    <3> QED BY <1>2, <1>3, <3>2, <3>3 DEF Shrunk
  <2>3. CASE Served /\ UNCHANGED <<registry, kernel>>
    BY <1>3, <1>4, <1>7, <2>1, <2>3 DEF Serving, registry, kernel, history
  <2>4. CASE input[xp[cur].fd] > 0 /\ Goto("recv") /\ UNCHANGED <<registry, xp, kernel>>
    <3>1. Shrunk
      BY <1>6, <2>1, <2>4 DEF Serving
    <3>2. Justified
      BY <2>4 DEF HasReason, HasReasonAfter, HasEvent, Goto, kernel
    <3> QED BY <1>3, <1>4, <2>1, <2>4, <3>1, <3>2 DEF registry, kernel, history
  <2>5. ~Goto("crashed")
    BY DEF Goto
  <2> QED BY <1>19, <2>2, <2>3, <2>4, <2>5 DEF Stat
<1>20. CASE Peers \/ UNCHANGED vars
  <2>1. UNCHANGED <<xports, loop, reused>>
    BY <1>20 DEF Peers, SvcExit, Connect, Send, Hangup, Tick, vars, registry, history
  <2>2. \A f \in Fds : HasReason(f) => HasReasonAfter(f)
    <3>1. CASE UNCHANGED kernel
      BY <2>1, <3>1 DEF HasReason, HasReasonAfter, HasEvent, kernel
    <3>2. CASE Connect
      <4>1. input' = [input EXCEPT ![0] = @ + 1] /\ hup' = hup
        BY <3>2 DEF Connect
      <4>2. \A f \in Fds : input[f] > 0 => input'[f] > 0
        BY <1>1, <4>1
      <4> QED BY <2>1, <4>1, <4>2 DEF HasReason, HasReasonAfter, HasEvent
    <3>3. CASE Send
      <4>1. PICK g \in Connected \ hup, k \in 1..2 : input' = [input EXCEPT ![g] = @ + k]
        BY <3>3 DEF Send
      <4>2. hup' = hup
        BY <3>3 DEF Send
      <4>3. \A f \in Fds : input[f] > 0 => input'[f] > 0
        BY <1>1, <4>1
      <4> QED BY <2>1, <4>2, <4>3 DEF HasReason, HasReasonAfter, HasEvent
    <3>4. CASE Hangup
      BY <2>1, <3>4 DEF Hangup, HasReason, HasReasonAfter, HasEvent
    <3> QED BY <1>20, <3>1, <3>2, <3>3, <3>4 DEF Peers, SvcExit, Tick, vars
  <2>3. xp'[cur].fd = xp[cur].fd
    <3>1. CASE Tick
      BY <1>1, <3>1, TransportsUpdated
    <3>2. CASE UNCHANGED xp
      BY <3>2
    <3> QED BY <1>20, <3>1, <3>2 DEF Peers, SvcExit, Connect, Send, Hangup, vars
  <2>4. Shrunk
    BY <1>5, <2>1 DEF loop
  <2>5. Justified
    <3>1. pc = "recv" => xp[cur].fd \in Fds
      BY <1>1, <1>2, TailOfDistinct DEF Serving
    <3> QED BY <1>1, <2>1, <2>2, <2>3, <3>1 DEF loop
  <2>6. \A f \in Fds : Keeps(f)
    BY <2>1, <2>2 DEF Keeps
  <2> QED BY <1>2, <1>3, <2>4, <2>5, <2>6 DEF Shrunk
<1> QED BY <1>9, <1>10, <1>11, <1>12, <1>13, <1>14, <1>15, <1>16, <1>17, <1>18, <1>19, <1>20
        DEF Next, Loop
-----------------------------------------------------------------------------
(* The theorems. *)

LEMMA InitIInv == Init => IInv
<1> SUFFICES ASSUME Init PROVE IInv
  OBVIOUS
<1> USE SvcAssumption
<1>1. /\ xports = [f \in Fds |-> IF f = 0 THEN 0 ELSE NoXprt]
      /\ fdset = {0} /\ fdmax = 0 /\ fdp = <<0>> /\ fd_lock = "free" /\ open = {0} /\ hup = {}
      /\ xp = [x \in Xprts |-> IF x = 0 THEN NewXprt(0) ELSE Unborn]
      /\ pc = "top" /\ pfd = << >> /\ ready = << >> /\ cur = 0
      /\ nconns = 0 /\ reused = {} /\ ~exited /\ ~stale
  BY DEF Init
<1>2. 0 \in Xprts /\ 0 \in 0..(IdleLimit + 1)
  BY DEF Xprts
<1>3. /\ NewXprt(0) \in XprtRecords /\ NewXprt(0).st = "live" /\ ~NewXprt(0).died
      /\ NewXprt(0).fd = 0 /\ NewXprt(-1) \in XprtRecords
  BY <1>2 DEF NewXprt, XprtRecords
<1>4. Unborn \in XprtRecords /\ Unborn.st = "none"
  <2>1. \A n \in XprtRecords : /\ [n EXCEPT !.st = "none"] \in XprtRecords
                               /\ [n EXCEPT !.st = "none"].st = "none"
    BY DEF XprtRecords
  <2> QED BY <1>3, <2>1 DEF Unborn
<1>5. xp \in [Xprts -> XprtRecords] /\ fdp \in Seq(Fds \cup {-1}) /\ pfd \in Seq(Fds \cup {-1})
      /\ ready \in Seq(Fds) /\ xports \in [Fds -> Xprts \cup {NoXprt}]
  BY <1>1, <1>2, <1>3, <1>4
<1>6. Range(fdp) = {0} /\ NoRepeats(fdp) /\ Range(ready) = {} /\ NoRepeats(ready) /\ NoRepeats(pfd)
  BY <1>1 DEF Range, NoRepeats
<1>7. Registered = {0}
  BY <1>1 DEF Registered, NoXprt
<1>8. TypeOK
  <2>1. RegistryType
    BY <1>1, <1>5 DEF Init, RegistryType
  <2>2. LoopType
    BY <1>1, <1>2, <1>5 DEF Init, LoopType
  <2> QED BY <2>1, <2>2, TypeParts
<1>9. TransportsInv
  BY <1>1, <1>2, <1>3, <1>4 DEF TransportsInv, IsConn
<1>10. RegistryIsLive
  BY <1>1, <1>2, <1>3 DEF RegistryIsLive
<1>11. SetsInv
  BY <1>1, <1>6, <1>7 DEF SetsInv, IsMaximum
<1>12. ServingInv /\ LoopInv /\ PolledInv
  BY <1>1, <1>6 DEF ServingInv, Serving, LoopInv, LoopEndsForAReason, PolledInv
<1>13. OpenInv
  <2>1. \A x \in Xprts : xp[x].st = "live" => xports[xp[x].fd] = x
    BY <1>1, <1>2, <1>3, <1>4
  <2> QED BY <1>1, <1>6, <1>7, <2>1 DEF OpenInv
<1>14. EventsInv
  BY <1>1, <1>6 DEF EventsInv, Waiting, Serving
<1> QED BY <1>8, <1>9, <1>10, <1>11, <1>12, <1>13, <1>14 DEF IInv

LEMMA NextIInv == IInv /\ [Next]_vars => IInv'
<1> SUFFICES ASSUME IInv, [Next]_vars PROVE IInv'
  OBVIOUS
<1>1. XprtsInv /\ RegistryInv
  BY DEF IInv, XprtsInv, RegistryInv
<1>2. RegistryInv'
  BY <1>1, RegistryStep DEF IInv
<1>3. TypeOK'
  BY <1>1, TypeStep DEF IInv
<1>4. ServingInv'
  BY <1>1, ServingStep DEF IInv
<1>5. LoopInv'
  BY <1>1, LoopStep DEF IInv
<1>6. PolledInv'
  BY <1>1, PolledStep DEF IInv
<1>7. EventsInv'
  BY <1>1, EventsStep DEF IInv
<1> QED BY <1>2, <1>3, <1>4, <1>5, <1>6, <1>7 DEF IInv, RegistryInv

\* The inductive invariant holds throughout: the views of the registry, the loop's copies
\* of them, and why each connection that waits to be served does (svc.c, svc_run.c).
THEOREM IInvHolds == Spec => []IInv
  BY InitIInv, NextIInv, PTL DEF Spec

\* Whatever is accepted, destroyed, cleaned or emptied, and with as many descriptors and
\* connections as there may be, the registry, the set, its maximum and the poll array fit
\* each other, nothing freed is in them or served, and svc_run's end has a reason (svc.c,
\* svc_fdset.c, svc_vc.c, svc_run.c).
THEOREM RegistrySound == Spec => []RegistryIsSound
<1>1. IInv => RegistryIsSound
  <2> SUFFICES ASSUME IInv PROVE RegistryIsSound
    OBVIOUS
  <2>1. fdset \in SUBSET Nat /\ Fds \subseteq Nat
    BY SvcAssumption DEF IInv, TypeOK
  <2>2. SetsAgree
    <3>1. fdmax \in Int
      BY <2>1 DEF IInv, TypeOK
    <3>2. IsMaximum(fdmax, fdset) => fdmax = Max(fdset \cup {-1})
      BY <2>1, <3>1, MaximumIsMax
    <3> QED BY <3>2 DEF IInv, SetsInv, SetsAgree, Registered
  <2>3. CurrentIsLive
    BY DEF IInv, ServingInv, Serving, Gone, CurrentIsLive
  <2> QED BY <2>2, <2>3 DEF IInv, LoopInv, RegistryIsSound
<1> QED BY <1>1, IInvHolds, PTL

\* svc_run returns only after svc_exit, over a hole of the poll array, or with a closed
\* descriptor left registered (svc_run.c, svc_vc.c).
THEOREM LoopEndJustified == Spec => []LoopEndsForAReason
<1>1. IInv => LoopEndsForAReason
  BY DEF IInv, LoopInv
<1> QED BY <1>1, IInvHolds, PTL

\* A connection not declared dead before is declared dead or destroyed only in a service,
\* by what it sent or its peer's end, or by the cleaning of the silent ones; else its
\* descriptor was reported for another before it, or a closed one was left registered
\* (svc_getreq_common, svc_vc_recv, __svc_clean_idle, rendezvous_request).
THEOREM EndsForACause == Spec => ConnectionsEndForACause
<1> DEFINE Step == \A x \in Xprts :
                     (/\ IsConn(x) /\ xp[x].st = "live" /\ ~xp[x].died
                      /\ xp'[x].died \/ xp'[x].st = "freed")
                     => \/ pc = "dispatch"
                        \/ pc = "recv" /\ cur = x /\ HasEvent(xp[x].fd)
                        \/ pc = "poll" /\ xp[x].nonblock /\ xp[x].idle > IdleLimit
                        \/ pc = "recv" /\ cur = 0 /\ xp[x].nonblock /\ xp[x].idle > 0 /\ open = Fds
                        \/ xp[x].fd \in reused \/ stale
<1>1. ASSUME IInv, [Next]_vars PROVE [Step]_vars
  <2> SUFFICES ASSUME NEW x \in Xprts, IsConn(x), xp[x].st = "live", ~xp[x].died,
                      xp'[x].died \/ xp'[x].st = "freed", pc # "dispatch"
               PROVE  \/ pc = "recv" /\ cur = x /\ HasEvent(xp[x].fd)
                      \/ pc = "poll" /\ xp[x].nonblock /\ xp[x].idle > IdleLimit
                      \/ pc = "recv" /\ cur = 0 /\ xp[x].nonblock /\ xp[x].idle > 0 /\ open = Fds
                      \/ xp[x].fd \in reused \/ stale
    BY DEF Step
  <2>1. XprtsInv /\ ServingInv /\ EventsInv /\ xp \in [Xprts -> XprtRecords] /\ cur \in Xprts
    BY <1>1, RegistryTypes DEF IInv, XprtsInv, TypeOK
  <2>2. xp'[x] # xp[x]
    OBVIOUS
  <2>3. CASE Accept
    <3>1. PICK fd \in Fds \ open, y \in Xprts :
            /\ xp[y].st = "none"
            /\ Leaks(y, fd) \/ Enters(y, fd) \/ UNCHANGED <<registry, xp, open, stale>>
      BY <2>1, <2>3, AcceptCases
    <3>2. x # y
      BY <3>1
    <3> QED BY <2>1, <2>2, <3>1, <3>2 DEF Leaks, Enters
  <2>4. CASE AcceptCleans
    <3>1. PICK y \in LeastActive : Destroy(y)
      BY <2>2, <2>4 DEF AcceptCleans
    <3>2. y = x
      BY <2>1, <2>2, <3>1, OthersKept DEF LeastActive, Cleanable
    <3> QED BY <2>4, <3>1, <3>2 DEF AcceptCleans, LeastActive, Cleanable
  <2>5. CASE Recv
    <3>1. input[xp[cur].fd] > 0 /\ pc = "recv"
      BY <2>5 DEF Recv
    <3>2. x = cur
      BY <2>1, <2>2, <2>5 DEF Recv
    <3> QED BY <3>1, <3>2 DEF HasEvent
  <2>6. CASE RecvNothing
    <3>1. pc = "recv" /\ IsConn(cur) /\ xp' = [xp EXCEPT ![cur].died = TRUE]
      BY <2>6 DEF RecvNothing
    <3>2. x = cur
      BY <2>1, <2>2, <3>1
    <3>3. ~stale => HasReason(xp[cur].fd)
      BY <2>1, <3>1 DEF EventsInv
    <3> QED BY <3>1, <3>2, <3>3 DEF HasReason
  <2>7. CASE Tick
    <3>1. \A r \in XprtRecords : /\ [r EXCEPT !.idle = @ + 1].died = r.died
                                 /\ [r EXCEPT !.idle = @ + 1].st = r.st
      BY DEF XprtRecords
    <3> QED BY <2>1, <2>7, <3>1 DEF Tick
  <2>8. CASE SvcExit \/ Connect \/ Send \/ Hangup
    BY <2>2, <2>8 DEF SvcExit, Connect, Send, Hangup
  <2>9. CASE CleanIdle
    <3>1. pc = "poll" /\ x \in IdleTooLong
      BY <2>1, <2>2, <2>9 DEF CleanIdle
    <3> QED BY <3>1 DEF IdleTooLong, Cleanable
  <2>10. CASE Stat
    <3>1. xp[cur].died /\ Destroy(cur)
      BY <2>2, <2>10 DEF Stat
    <3>2. x # cur
      BY <3>1
    <3> QED BY <2>1, <2>2, <3>1, <3>2, OthersKept
  <2>11. CASE Copy \/ PollEvents \/ PollFails \/ Interrupted \/ Serve \/ Dispatch \/ Check
    BY <2>2, <2>11 DEF Copy, PollEvents, PollFails, Interrupted, Serve, Dispatch, Check
  <2>12. CASE UNCHANGED vars
    BY <2>2, <2>12 DEF vars
  <2> QED BY <1>1, <2>3, <2>4, <2>5, <2>6, <2>7, <2>8, <2>9, <2>10, <2>11, <2>12
          DEF Next, Loop, Peers
<1>2. Spec => [][Step]_vars
  BY <1>1, IInvHolds, PTL DEF Spec
<1> QED BY <1>2 DEF ConnectionsEndForACause
=============================================================================
