------------------------- MODULE RpcbForwardProofs -------------------------
(***************************************************************************)
(* Proofs about RpcbForward, for any number of slots, transaction ids,      *)
(* callers and descriptors.                                                 *)
(***************************************************************************)
EXTENDS RpcbForward, FiniteSetTheorems, WellFoundedInduction, TLAPS

(* Arithmetic: a transaction id is a turn of the table and a slot in it.    *)

LEMMA LeastMember ==
    ASSUME NEW T, T \subseteq Nat, T # {}
    PROVE  \E n \in T : \A m \in T : n <= m
<1> DEFINE R == OpToRel(<, Nat)
<1>1. IsWellFoundedOn(R, Nat)
  BY NatLessThanWellFounded
<1> HIDE DEF R
<1>2. PICK n \in T : \A m \in T : <<m, n>> \notin R
  BY <1>1, WFMin, Zenon
<1>3. \A m, k \in Nat : m < k => <<m, k>> \in R
  BY DEF R, OpToRel
<1>4. \A m \in T : ~(m < n)
  BY <1>2, <1>3
<1>5. \A m \in T : n <= m
  BY <1>4
<1> QED
  BY <1>5

LEMMA GreatestMember ==
    ASSUME NEW T, T \subseteq Nat, T # {}, NEW max \in Int, \A t \in T : t <= max
    PROVE  \E n \in T : \A m \in T : m <= n
<1> DEFINE D == {max - t : t \in T}
<1>1. D \subseteq Nat /\ D # {}
  <2>1. ASSUME NEW t \in T PROVE max - t \in Nat
    <3>1. t \in Nat /\ t <= max
      OBVIOUS
    <3> QED
      BY <3>1
  <2> QED
    BY <2>1
<1>2. PICK d \in D : \A e \in D : d <= e
  BY <1>1, LeastMember
<1>3. PICK n \in T : d = max - n
  OBVIOUS
<1>4. ASSUME NEW m \in T PROVE m <= n
  BY <1>2, <1>3
<1> QED
  BY <1>4

LEMMA Division ==
    ASSUME NEW n \in Nat \ {0}, NEW x \in Int
    PROVE  /\ x = n * (x \div n) + (x % n)
           /\ x % n \in 0 .. n - 1 /\ x \div n \in Int
OBVIOUS

LEMMA Times ==
    ASSUME NEW n \in Nat \ {0}, NEW a \in Int, NEW c \in Int, a < c
    PROVE  n * a + n <= n * c
<1>1. PICK e \in Nat : c = a + 1 + e
  <2>1. c - a - 1 \in Nat /\ c = a + 1 + (c - a - 1)
    OBVIOUS
  <2> QED
    BY <2>1
<1>2. n * c = n * a + n + n * e
  BY <1>1
<1>3. n * e >= 0
  OBVIOUS
<1>4. n * c \in Int /\ n * a \in Int /\ n * e \in Int
  OBVIOUS
<1> QED
  BY <1>2, <1>3, <1>4

\* Quotient and remainder are unique.
LEMMA Digits ==
    ASSUME NEW n \in Nat \ {0}, NEW a \in Int, NEW b \in 0 .. n - 1
    PROVE  /\ n * a + b \in Int
           /\ (n * a + b) \div n = a /\ (n * a + b) % n = b
<1> DEFINE x == n * a + b
           c == x \div n
           d == x % n
<1>1. x \in Int /\ n * a \in Int
  OBVIOUS
<1>2. x = n * c + d /\ d \in 0 .. n - 1 /\ c \in Int /\ n * c \in Int
  BY <1>1, Division
<1>3. x = n * a + b
  OBVIOUS
<1> HIDE DEF x, c, d
<1>4. ~(a < c)
  <2> SUFFICES ASSUME a < c PROVE FALSE
    OBVIOUS
  <2> QED
    BY <1>1, <1>2, <1>3, Times
<1>5. ~(c < a)
  <2> SUFFICES ASSUME c < a PROVE FALSE
    OBVIOUS
  <2> QED
    BY <1>1, <1>2, <1>3, Times
<1>6. a = c
  BY <1>2, <1>4, <1>5
<1> QED
  BY <1>1, <1>2, <1>3, <1>6 DEF x, c, d

\* How often the table fits into the space of transaction ids, and the turn an
\* id belongs to.
Turns == XidMod \div NFORWARD
Turn(xid) == xid \div NFORWARD

LEMMA XidSpace ==
    /\ Turns \in Nat /\ Turns >= 2 /\ XidMod = NFORWARD * Turns
    /\ MaxForwards <= Turns - 2
<1>1. XidMod = NFORWARD * Turns + (XidMod % NFORWARD) /\ Turns \in Int
  BY ForwardAssumption, Division DEF Turns
<1>2. XidMod % NFORWARD = 0 /\ MaxForwards + 1 < Turns
  BY ForwardAssumption DEF Turns
<1> QED
  BY <1>1, <1>2, ForwardAssumption

\* The id of a turn and a slot.
LEMMA XidOfTurn ==
    ASSUME NEW a \in 0 .. Turns - 1, NEW j \in Slots
    PROVE  /\ NFORWARD * a + j \in Xids
           /\ Turn(NFORWARD * a + j) = a /\ (NFORWARD * a + j) % NFORWARD = j
           /\ (NFORWARD * a + j = 0 => a = 0)
<1>1. j \in 0 .. NFORWARD - 1 /\ NFORWARD \in Nat \ {0} /\ a \in Int
  BY ForwardAssumption DEF Slots
<1>2. Turn(NFORWARD * a + j) = a /\ (NFORWARD * a + j) % NFORWARD = j
  BY <1>1, Digits DEF Turn
<1>3. NFORWARD * a \in Int /\ NFORWARD * a >= 0 /\ NFORWARD * Turns \in Int
  BY <1>1, XidSpace
<1>4. NFORWARD * a + NFORWARD <= NFORWARD * Turns
  BY <1>1, XidSpace, Times
<1>5. NFORWARD * a + j \in Xids
  BY <1>1, <1>3, <1>4, XidSpace DEF Xids
<1>6. ASSUME a # 0 PROVE NFORWARD * a + j # 0
  <2>1. NFORWARD * 0 + NFORWARD <= NFORWARD * a
    BY <1>1, <1>6, Times
  <2> QED
    BY <1>1, <1>3, <2>1
<1> QED
  BY <1>2, <1>5, <1>6

\* The remainder of a multiple of NFORWARD in the space of ids.
LEMMA Wrapped ==
    ASSUME NEW a \in Nat
    PROVE  /\ (NFORWARD * a) % XidMod = NFORWARD * (a % Turns)
           /\ a % Turns \in 0 .. Turns - 1
<1> DEFINE q == a \div Turns
           r == a % Turns
<1>1. a = Turns * q + r /\ r \in 0 .. Turns - 1 /\ q \in Int
  BY XidSpace, Division
<1> HIDE DEF q, r
<1>2. NFORWARD \in Nat \ {0} /\ XidMod \in Nat \ {0}
  BY ForwardAssumption
<1>3. 0 \in Slots
  BY <1>2 DEF Slots
<1>4. NFORWARD * r + 0 \in Xids
  BY <1>1, <1>3, XidOfTurn
<1>5. NFORWARD * r \in 0 .. XidMod - 1
  BY <1>1, <1>2, <1>4 DEF Xids
<1>6. NFORWARD * a = NFORWARD * (Turns * q) + NFORWARD * r
  BY <1>1, <1>2, XidSpace
<1>7. NFORWARD * (Turns * q) = (NFORWARD * Turns) * q
  BY <1>1, <1>2, XidSpace
<1>8. NFORWARD * a = XidMod * q + NFORWARD * r
  BY <1>6, <1>7, XidSpace
<1>9. (XidMod * q + NFORWARD * r) % XidMod = NFORWARD * r
  BY <1>1, <1>2, <1>5, Digits
<1> QED
  BY <1>1, <1>8, <1>9 DEF r

\* The ids that are given out come from the turns 1 .. Turns - 2, one turn after
\* the other.
After(t) == IF t = Turns - 2 THEN 1 ELSE t + 1

LEMMA NextXidFacts ==
    ASSUME lastxid \in Xids, lastxid % NFORWARD = 0, NEW seed \in StartTimes,
           1 <= Turns - 2
    PROVE  /\ NextXid(seed) = NFORWARD * Turn(NextXid(seed))
           /\ NextXid(seed) \in Xids /\ NextXid(seed) % NFORWARD = 0
           /\ Turn(NextXid(seed)) \in 1 .. Turns - 2
           /\ Turn(lastxid) \in 1 .. Turns - 2 => Turn(NextXid(seed)) = After(Turn(lastxid))
<1> DEFINE before == IF lastxid = 0 THEN seed * NFORWARD ELSE lastxid
           last == (before + NFORWARD) % XidMod
<1>1. NFORWARD \in Nat \ {0} /\ seed \in Nat /\ 0 \in Slots
  BY ForwardAssumption DEF Slots
<1>2. lastxid = NFORWARD * Turn(lastxid) /\ Turn(lastxid) \in 0 .. Turns - 1
  <2>1. lastxid = NFORWARD * Turn(lastxid) + 0 /\ Turn(lastxid) \in Int
    BY <1>1, Division DEF Turn, Xids
  <2>2. ~(Turn(lastxid) < 0)
    <3> SUFFICES ASSUME Turn(lastxid) < 0 PROVE FALSE
      OBVIOUS
    <3>1. NFORWARD * Turn(lastxid) + NFORWARD <= NFORWARD * 0
      BY <1>1, <2>1, Times
    <3> QED
      BY <1>1, <2>1, <3>1 DEF Xids
  <2>3. ~(Turn(lastxid) > Turns - 1)
    <3> SUFFICES ASSUME Turn(lastxid) > Turns - 1 PROVE FALSE
      OBVIOUS
    <3>1. NFORWARD * (Turns - 1) + NFORWARD <= NFORWARD * Turn(lastxid)
      BY <1>1, <2>1, XidSpace, Times
    <3>2. NFORWARD * (Turns - 1) + NFORWARD = XidMod
      BY <1>1, XidSpace
    <3> QED
      BY <1>1, <2>1, <3>1, <3>2, XidSpace DEF Xids
  <2>4. NFORWARD * Turn(lastxid) \in Int
    BY <1>1, <2>1
  <2>5. lastxid = NFORWARD * Turn(lastxid)
    BY <2>1, <2>4
  <2> QED
    BY <2>1, <2>2, <2>3, <2>5, XidSpace
<1>3. PICK b \in Nat : /\ before = NFORWARD * b
                       /\ Turn(lastxid) \in 1 .. Turns - 2 => b = Turn(lastxid)
  <2>1. CASE lastxid = 0
    <3>1. Turn(lastxid) = 0
      <4>1. NFORWARD * 0 + 0 = 0 /\ 0 \in 0 .. NFORWARD - 1
        BY <1>1
      <4> QED
        BY <1>1, <2>1, <4>1, Digits DEF Turn
    <3>2. before = NFORWARD * seed
      BY <1>1, <2>1
    <3>3. ~(Turn(lastxid) \in 1 .. Turns - 2)
      BY <3>1
    <3> HIDE DEF before
    <3> QED
      BY <1>1, <3>2, <3>3
  <2>2. CASE lastxid # 0
    <3>1. before = NFORWARD * Turn(lastxid)
      BY <1>2, <2>2
    <3>2. Turn(lastxid) \in Nat
      BY <1>2, XidSpace
    <3> HIDE DEF before
    <3> QED
      BY <3>1, <3>2
  <2> QED
    BY <2>1, <2>2
<1>4. last = NFORWARD * ((b + 1) % Turns)
  <2>1. NFORWARD * b + NFORWARD = NFORWARD * (b + 1)
    BY <1>1
  <2>2. before = NFORWARD * b
    BY <1>3
  <2>3. b + 1 \in Nat
    OBVIOUS
  <2> HIDE DEF before
  <2> QED
    BY <2>1, <2>2, <2>3, Wrapped
<1> DEFINE r == (b + 1) % Turns
<1>5. r \in 0 .. Turns - 1
  BY <1>3, Wrapped
<1> HIDE DEF r
<1>6. (last + NFORWARD) % XidMod = NFORWARD * ((r + 1) % Turns)
  <2>1. last + NFORWARD = NFORWARD * (r + 1)
    BY <1>1, <1>4, <1>5 DEF r
  <2> QED
    BY <1>5, <2>1, Wrapped
<1>7. (r + 1) % Turns = IF r = Turns - 1 THEN 0 ELSE r + 1
  <2>1. CASE r = Turns - 1
    <3>1. Turns * 1 + 0 = r + 1
      BY <2>1, XidSpace
    <3> QED
      BY <2>1, <3>1, XidSpace, Digits
  <2>2. CASE r # Turns - 1
    <3>1. Turns * 0 + (r + 1) = r + 1 /\ r + 1 \in 0 .. Turns - 1
      BY <1>5, <2>2, XidSpace
    <3> QED
      BY <2>2, <3>1, XidSpace, Digits
  <2> QED
    BY <2>1, <2>2
<1>8. (NFORWARD * ((r + 1) % Turns) <= NFORWARD) <=> r \in {0, Turns - 1}
  <2>1. CASE r = Turns - 1
    BY <1>1, <1>7, <2>1, XidSpace
  <2>2. CASE r = 0
    BY <1>1, <1>7, <2>2, XidSpace
  <2>3. CASE r # Turns - 1 /\ r # 0
    <3>1. (r + 1) % Turns = r + 1 /\ 1 < r + 1
      BY <1>5, <1>7, <2>3
    <3>2. NFORWARD * 1 + NFORWARD <= NFORWARD * (r + 1)
      BY <1>1, <1>5, <3>1, Times
    <3>3. ~(NFORWARD * (r + 1) <= NFORWARD)
      <4>1. NFORWARD * (r + 1) \in Int
        BY <1>1, <1>5
      <4> QED
        BY <1>1, <3>2, <4>1
    <3> QED
      BY <2>3, <3>1, <3>3
  <2> QED
    BY <2>1, <2>2, <2>3
<1>9. NextXid(seed) = IF r \in {0, Turns - 1} THEN NFORWARD ELSE NFORWARD * r
  <2>1. NextXid(seed) = IF (last + NFORWARD) % XidMod <= NFORWARD THEN NFORWARD ELSE last
    BY DEF NextXid
  <2> HIDE DEF last
  <2> QED
    BY <1>4, <1>6, <1>8, <2>1 DEF r
<1> DEFINE t == IF r \in {0, Turns - 1} THEN 1 ELSE r
<1>10. NextXid(seed) = NFORWARD * t + 0 /\ t \in 1 .. Turns - 2
  BY <1>1, <1>5, <1>9, XidSpace
<1> HIDE DEF t
<1>11. t \in 0 .. Turns - 1
  BY <1>10, XidSpace
<1>12. Turn(NextXid(seed)) = t /\ NextXid(seed) \in Xids /\ NextXid(seed) % NFORWARD = 0
  BY <1>1, <1>10, <1>11, XidOfTurn
<1>13. ASSUME Turn(lastxid) \in 1 .. Turns - 2
       PROVE  t = After(Turn(lastxid))
  <2>1. b = Turn(lastxid) /\ b + 1 \in 0 .. Turns - 1
    BY <1>3, <1>13, XidSpace
  <2>2. r = b + 1
    <3>1. Turns * 0 + (b + 1) = b + 1
      BY <2>1, XidSpace
    <3> QED
      BY <2>1, <3>1, XidSpace, Digits DEF r
  <2> QED
    BY <1>13, <2>1, <2>2, XidSpace DEF t, After
<1>14. NextXid(seed) = NFORWARD * t
  BY <1>1, <1>10
<1> QED
  BY <1>10, <1>12, <1>13, <1>14

\* The descriptor maximum sinks, but not below a descriptor that is set.
LEMMA SanitizeFacts ==
    ASSUME NEW max \in Int, NEW set, set \subseteq AllFds
    PROVE  /\ svc_fdset_sanitize(max, set) \in Int
           /\ \A fd \in set : fd <= max => fd <= svc_fdset_sanitize(max, set)
<1> DEFINE below == {fd \in set : fd <= max}
<1>1. set \subseteq Nat
  BY ForwardAssumption
<1>2. CASE max < 0 \/ below = {}
  <2>1. svc_fdset_sanitize(max, set) = IF max < 0 THEN max ELSE -1
    BY <1>2 DEF svc_fdset_sanitize
  <2>2. ASSUME NEW fd \in set, fd <= max PROVE FALSE
    BY <1>1, <1>2, <2>2
  <2> QED
    BY <2>1, <2>2
<1>3. CASE ~(max < 0) /\ below # {}
  <2>1. \E fd \in below : \A g \in below : g <= fd
    BY <1>1, <1>3, GreatestMember
  <2>2. svc_fdset_sanitize(max, set) = CHOOSE fd \in below : \A g \in below : g <= fd
    BY <1>3 DEF svc_fdset_sanitize
  <2>3. /\ svc_fdset_sanitize(max, set) \in below
        /\ \A g \in below : g <= svc_fdset_sanitize(max, set)
    BY <2>1, <2>2
  <2>4. svc_fdset_sanitize(max, set) \in Int
    <3>1. svc_fdset_sanitize(max, set) \in set
      BY <2>3, Zenon
    <3> HIDE DEF below
    <3>2. svc_fdset_sanitize(max, set) \in Nat
      BY <1>1, <3>1
    <3> QED
      BY <3>2
  <2>5. ASSUME NEW fd \in set, fd <= max PROVE fd <= svc_fdset_sanitize(max, set)
    <3>1. fd \in below
      BY <2>5
    <3> QED
      BY <2>3, <3>1
  <2> QED
    BY <2>4, <2>5
<1> QED
  BY <1>2, <1>3

(* Loops: a function defined by recursion over the rounds exists, and goes    *)
(* through the sets V if each round leads from one to the next.               *)

Recursion(N, first, step, f) ==
    f = [n \in 0 .. N |-> IF n = 0 THEN first ELSE step[<<f[n - 1], n>>]]
Leads(N, V, step) == \A n \in 1 .. N : \A s \in V[n - 1] : step[<<s, n>>] \in V[n]
Through(N, V, f) == \A n \in 0 .. N : f[n] \in V[n]

LEMMA RecursionExists ==
    ASSUME NEW N \in Nat, NEW V, NEW first, NEW step, first \in V[0], Leads(N, V, step)
    PROVE  \E f : Recursion(N, first, step, f) /\ Through(N, V, f)
<1> USE DEF Recursion, Leads, Through
<1> DEFINE Upto(m, f) ==
             /\ f = [n \in 0 .. m |-> IF n = 0 THEN first ELSE step[<<f[n - 1], n>>]]
             /\ \A n \in 0 .. m : f[n] \in V[n]
           Bad == {m \in 0 .. N : ~ \E f : Upto(m, f)}
<1>1. SUFFICES ASSUME Bad # {} PROVE FALSE
  <2>1. N \in 0 .. N /\ N \notin Bad
    BY <1>1
  <2> QED
    BY <2>1
<1>2. PICK m \in Bad : \A k \in Bad : m <= k
  <2>1. Bad \subseteq Nat
    OBVIOUS
  <2> HIDE DEF Bad
  <2> QED
    BY <1>1, <2>1, LeastMember
<1>3. CASE m = 0
  <2> DEFINE f == [n \in 0 .. 0 |-> first]
  <2>1. f = [n \in 0 .. 0 |-> IF n = 0 THEN first ELSE step[<<f[n - 1], n>>]]
    OBVIOUS
  <2>2. \A n \in 0 .. 0 : f[n] \in V[n]
    OBVIOUS
  <2>3. Upto(m, f)
    BY <1>3, <2>1, <2>2
  <2> QED
    BY <2>3
<1>4. CASE m # 0
  <2>1. m \in 1 .. N /\ m - 1 \in 0 .. N /\ ~(m <= m - 1)
    BY <1>4
  <2>2. m - 1 \notin Bad
    BY <1>2, <2>1
  <2>3. PICK f : Upto(m - 1, f)
    BY <2>1, <2>2
  <2> DEFINE last == step[<<f[m - 1], m>>]
             g == [n \in 0 .. m |-> IF n = m THEN last ELSE f[n]]
  <2>4. last \in V[m]
    BY <2>1, <2>3
  <2>5. \A n \in 0 .. m : g[n] \in V[n]
    BY <2>1, <2>3, <2>4
  <2>6. ASSUME NEW n \in 0 .. m
        PROVE  g[n] = IF n = 0 THEN first ELSE step[<<g[n - 1], n>>]
    <3>1. CASE n = m
      <4>1. n # 0 /\ n - 1 \in 0 .. m /\ n - 1 # m
        BY <2>1, <3>1
      <4>2. g[n] = last /\ g[n - 1] = f[m - 1]
        BY <3>1, <4>1
      <4> QED
        BY <3>1, <4>1, <4>2
    <3>2. CASE n # m
      <4>1. n \in 0 .. m - 1 /\ g[n] = f[n]
        BY <2>1, <3>2
      <4>2. f[n] = IF n = 0 THEN first ELSE step[<<f[n - 1], n>>]
        BY <2>3, <4>1
      <4>3. n # 0 => n - 1 \in 0 .. m /\ n - 1 # m /\ g[n - 1] = f[n - 1]
        BY <2>1, <4>1
      <4> QED
        BY <4>1, <4>2, <4>3
    <3> QED
      BY <3>1, <3>2
  <2>7. g = [n \in 0 .. m |-> IF n = 0 THEN first ELSE step[<<g[n - 1], n>>]]
    <3> HIDE DEF last
    <3>1. g = [n \in 0 .. m |-> g[n]]
      OBVIOUS
    <3> HIDE DEF g
    <3> QED
      BY <2>6, <3>1
  <2>8. Upto(m, g)
    BY <2>5, <2>7
  <2> QED
    BY <2>1, <2>8
<1> QED
  BY <1>3, <1>4

LEMMA RecursionStays ==
    ASSUME NEW N \in Nat, NEW V, NEW f, f[0] \in V[0],
           \A n \in 1 .. N : f[n - 1] \in V[n - 1] => f[n] \in V[n]
    PROVE  \A n \in 0 .. N : f[n] \in V[n]
<1> DEFINE Bad == {m \in 0 .. N : f[m] \notin V[m]}
<1>1. SUFFICES ASSUME Bad # {} PROVE FALSE
  OBVIOUS
<1>2. PICK m \in Bad : \A k \in Bad : m <= k
  <2>1. Bad \subseteq Nat
    OBVIOUS
  <2> HIDE DEF Bad
  <2> QED
    BY <1>1, <2>1, LeastMember
<1>3. m \in 1 .. N /\ m - 1 \in 0 .. N /\ ~(m <= m - 1)
  OBVIOUS
<1>4. m - 1 \notin Bad
  BY <1>2, <1>3
<1> QED
  BY <1>3, <1>4

(* The table.                                                               *)

Live(f) == {i \in Slots : f[i].active}

\* What holds of each slot, alone: its id encodes it and is not zero.
SlotsSound(f) ==
    \A i \in Live(f) :
        /\ f[i].call \in Calls /\ f[i].forward_fd \in FwdFds
        /\ f[i].forward_xid % NFORWARD = i /\ f[i].forward_xid # 0

OneEach(f) == \A i, j \in Live(f) : f[i].call = f[j].call => i = j

\* A listening descriptor above all the forwarding ones keeps the maximum up.
Above(l) == \A fd \in FwdFds : fd < l
Watched(max) == \A l \in ListenFds : Above(l) => l <= max

TableSound(f, rmt, max) ==
    /\ f \in [Slots -> FInfo] /\ SlotsSound(f) /\ OneEach(f)
    /\ rmt = Cardinality(Live(f))
    /\ max \in Int /\ Watched(max)

\* Descriptors rpcbind opened as it started stay in the set.
FdsSound == fdset \subseteq AllFds /\ AllFds \ ConnFds \subseteq fdset

LEMMA LiveFacts ==
    ASSUME NEW f
    PROVE  /\ IsFiniteSet(Live(f)) /\ Cardinality(Live(f)) \in 0 .. NFORWARD
           /\ Live(f) = {} <=> Cardinality(Live(f)) = 0
<1>1. NFORWARD \in Nat /\ 0 \in Int /\ NFORWARD - 1 \in Int
  BY ForwardAssumption
<1>2. IsFiniteSet(Slots) /\ Cardinality(Slots) = NFORWARD
  BY <1>1, FS_Interval DEF Slots
<1>3. Live(f) \subseteq Slots
  BY DEF Live
<1>4. IsFiniteSet(Live(f)) /\ Cardinality(Live(f)) <= NFORWARD
  BY <1>2, <1>3, FS_Subset
<1>5. Cardinality(Live(f)) \in Nat
  BY <1>4, FS_CardinalityType
<1> QED
  BY <1>1, <1>4, <1>5, FS_EmptySet

FreedMax(max, fd) ==
    LET m == svc_fdset_sanitize(max, fdset) IN IF fd >= m THEN m - 1 ELSE m

\* Freeing a slot keeps the table sound: the forwarding descriptor of a slot is
\* below the listening one, so the maximum is not lowered past it.
LEMMA FreedTable ==
    ASSUME NEW f, NEW rmt, NEW max, TableSound(f, rmt, max), FdsSound,
           NEW i \in Slots, f[i].active
    PROVE  TableSound([f EXCEPT ![i].active = FALSE], rmt - 1, FreedMax(max, f[i].forward_fd))
<1> DEFINE g == [f EXCEPT ![i].active = FALSE]
           m == svc_fdset_sanitize(max, fdset)
<1>1. g \in [Slots -> FInfo]
  BY DEF TableSound, FInfo
<1>2. ASSUME NEW k \in Slots
      PROVE  /\ g[k].call = f[k].call /\ g[k].forward_fd = f[k].forward_fd
             /\ g[k].forward_xid = f[k].forward_xid /\ g[k].time = f[k].time
             /\ g[k].active <=> f[k].active /\ k # i
  <2>1. f \in [Slots -> FInfo]
    BY DEF TableSound
  <2>2. CASE k = i
    <3>1. g[k] = [f[k] EXCEPT !.active = FALSE]
      BY <2>1, <2>2
    <3> QED
      BY <2>1, <2>2, <3>1 DEF FInfo
  <2>3. CASE k # i
    BY <2>1, <2>3
  <2> QED
    BY <2>2, <2>3
<1> HIDE DEF g
<1>3. Live(g) = Live(f) \ {i} /\ i \in Live(f)
  BY <1>2 DEF Live
<1>4. SlotsSound(g)
  <2> SUFFICES ASSUME NEW k \in Live(g)
               PROVE  /\ g[k].call \in Calls /\ g[k].forward_fd \in FwdFds
                      /\ g[k].forward_xid % NFORWARD = k /\ g[k].forward_xid # 0
    BY DEF SlotsSound
  <2>1. k \in Live(f) /\ k \in Slots
    BY <1>3 DEF Live
  <2> QED
    BY <1>2, <2>1 DEF SlotsSound, TableSound
<1>5. OneEach(g)
  <2> SUFFICES ASSUME NEW k \in Live(g), NEW l \in Live(g), g[k].call = g[l].call
               PROVE  k = l
    BY DEF OneEach
  <2>1. k \in Live(f) /\ l \in Live(f) /\ k \in Slots /\ l \in Slots
    BY <1>3 DEF Live
  <2> QED
    BY <1>2, <2>1 DEF OneEach, TableSound
<1>6. rmt - 1 = Cardinality(Live(g))
  <2>1. IsFiniteSet(Live(f)) /\ rmt = Cardinality(Live(f))
    BY LiveFacts DEF TableSound
  <2> QED
    BY <1>3, <2>1, FS_RemoveElement
<1>7. f[i].forward_fd \in FwdFds /\ f[i].forward_fd \in Int
  <2>1. f[i].forward_fd \in FwdFds
    BY <1>3 DEF TableSound, SlotsSound
  <2>2. FwdFds \subseteq Nat
    BY ForwardAssumption DEF AllFds
  <2>3. f[i].forward_fd \in Nat
    BY <2>1, <2>2
  <2> QED
    BY <2>1, <2>3
<1>8. m \in Int /\ \A fd \in fdset : fd <= max => fd <= m
  BY SanitizeFacts DEF TableSound, FdsSound
<1> HIDE DEF m
<1>9. FreedMax(max, f[i].forward_fd) = IF f[i].forward_fd >= m THEN m - 1 ELSE m
  BY DEF FreedMax, m
<1>10. ASSUME NEW l \in ListenFds, Above(l)
       PROVE  l <= FreedMax(max, f[i].forward_fd)
  <2>1. l \in fdset /\ l \in Int
    BY ForwardAssumption DEF FdsSound, AllFds
  <2>2. l <= max
    BY <1>10 DEF TableSound, Watched
  <2>3. f[i].forward_fd < l
    BY <1>7, <1>10 DEF Above
  <2> QED
    BY <1>7, <1>8, <1>9, <2>1, <2>2, <2>3
<1> QED
  BY <1>1, <1>4, <1>5, <1>6, <1>7, <1>8, <1>9, <1>10 DEF TableSound, Watched, g

\* The values free_slot_by_index works on: the table, or the state of the loop.
Tables == [finfo : [Slots -> FInfo], rmt : Int, max : Int]
Loops == [finfo : [Slots -> FInfo], rmt : Int, max : Int, dup : BOOLEAN,
          entry : Slots \cup {-1}, j : Slots, min : 0 .. MaxTime]

Sound(s) == TableSound(s.finfo, s.rmt, s.max)

\* free_slot_by_index empties the slot and changes nothing else that is in the table.
Emptied(s, t, i) ==
    /\ Sound(t)
    /\ t.finfo = [s.finfo EXCEPT ![i].active = FALSE]

LEMMA FreedWhole ==
    ASSUME FdsSound, NEW i \in Slots
    PROVE  /\ \A s \in Tables : Sound(s) =>
                 /\ free_slot_by_index(s, i) \in Tables
                 /\ Emptied(s, free_slot_by_index(s, i), i)
           /\ \A s \in Loops : Sound(s) =>
                 /\ free_slot_by_index(s, i) \in Loops
                 /\ Emptied(s, free_slot_by_index(s, i), i)
                 /\ free_slot_by_index(s, i).dup = s.dup
                 /\ free_slot_by_index(s, i).entry = s.entry
                 /\ free_slot_by_index(s, i).j = s.j
                 /\ free_slot_by_index(s, i).min = s.min
<1>1. ASSUME NEW f \in [Slots -> FInfo], ~f[i].active
      PROVE  [f EXCEPT ![i].active = FALSE] = f
  <2>1. [f[i] EXCEPT !.active = FALSE] = f[i]
    BY <1>1 DEF FInfo
  <2> QED
    BY <2>1
<1>2. ASSUME NEW s \in Tables, Sound(s)
      PROVE  /\ free_slot_by_index(s, i) \in Tables
             /\ Emptied(s, free_slot_by_index(s, i), i)
  <2>1. CASE ~s.finfo[i].active
    <3>1. free_slot_by_index(s, i) = s
      BY <2>1 DEF free_slot_by_index
    <3>2. s.finfo \in [Slots -> FInfo]
      BY DEF Tables
    <3> QED
      BY <1>1, <1>2, <2>1, <3>1, <3>2 DEF Emptied
  <2>2. CASE s.finfo[i].active
    <3> DEFINE t == [s EXCEPT !.finfo[i].active = FALSE, !.rmt = @ - 1,
                              !.max = FreedMax(s.max, s.finfo[i].forward_fd)]
    <3>1. free_slot_by_index(s, i) = t
      BY <2>2 DEF free_slot_by_index, FreedMax
    <3>2. /\ t.finfo = [s.finfo EXCEPT ![i].active = FALSE] /\ t.rmt = s.rmt - 1
          /\ t.max = FreedMax(s.max, s.finfo[i].forward_fd)
      BY DEF Tables
    <3>3. Sound(t)
      BY <1>2, <2>2, <3>2, FreedTable DEF Sound
    <3>4. t \in Tables
      <4>1. t.finfo \in [Slots -> FInfo] /\ t.rmt \in Int /\ t.max \in Int
        <5>1. Cardinality(Live(t.finfo)) \in Int
          BY LiveFacts
        <5> QED
          BY <3>3, <5>1 DEF Sound, TableSound
      <4>2. t = [s EXCEPT !.finfo = t.finfo, !.rmt = t.rmt, !.max = t.max]
        BY DEF Tables
      <4> HIDE DEF t
      <4> QED
        BY <4>1, <4>2 DEF Tables
    <3> HIDE DEF t
    <3> QED
      BY <3>1, <3>2, <3>3, <3>4 DEF Emptied
  <2> QED
    BY <2>1, <2>2
<1>3. ASSUME NEW s \in Loops, Sound(s)
      PROVE  /\ free_slot_by_index(s, i) \in Loops
             /\ Emptied(s, free_slot_by_index(s, i), i)
             /\ free_slot_by_index(s, i).dup = s.dup
             /\ free_slot_by_index(s, i).entry = s.entry
             /\ free_slot_by_index(s, i).j = s.j
             /\ free_slot_by_index(s, i).min = s.min
  <2>1. CASE ~s.finfo[i].active
    <3>1. free_slot_by_index(s, i) = s
      BY <2>1 DEF free_slot_by_index
    <3>2. s.finfo \in [Slots -> FInfo]
      BY DEF Loops
    <3> QED
      BY <1>1, <1>3, <2>1, <3>1, <3>2 DEF Emptied
  <2>2. CASE s.finfo[i].active
    <3> DEFINE t == [s EXCEPT !.finfo[i].active = FALSE, !.rmt = @ - 1,
                              !.max = FreedMax(s.max, s.finfo[i].forward_fd)]
    <3>1. free_slot_by_index(s, i) = t
      BY <2>2 DEF free_slot_by_index, FreedMax
    <3>2. /\ t.finfo = [s.finfo EXCEPT ![i].active = FALSE] /\ t.rmt = s.rmt - 1
          /\ t.max = FreedMax(s.max, s.finfo[i].forward_fd)
      BY DEF Loops
    <3>3. Sound(t)
      BY <1>3, <2>2, <3>2, FreedTable DEF Sound
    <3>4. t \in Loops
      <4>1. t.finfo \in [Slots -> FInfo] /\ t.rmt \in Int /\ t.max \in Int
        <5>1. Cardinality(Live(t.finfo)) \in Int
          BY LiveFacts
        <5> QED
          BY <3>3, <5>1 DEF Sound, TableSound
      <4>2. t = [s EXCEPT !.finfo = t.finfo, !.rmt = t.rmt, !.max = t.max]
        BY DEF Loops
      <4> HIDE DEF t
      <4> QED
        BY <4>1, <4>2 DEF Loops
    <3>5. t.dup = s.dup /\ t.entry = s.entry /\ t.j = s.j /\ t.min = s.min
      BY DEF Loops
    <3> HIDE DEF t
    <3> QED
      BY <3>1, <3>2, <3>3, <3>4, <3>5 DEF Emptied
  <2> QED
    BY <2>1, <2>2
<1> QED
  BY <1>2, <1>3

(* The loop of forward_register.                                            *)

\* A slot of the loop's table is as it was, but may have been freed, and only
\* because it had expired; its time may have been renewed.
Descends(f) ==
    \A i \in Slots :
        /\ f[i].call = FINFO[i].call /\ f[i].forward_xid = FINFO[i].forward_xid
        /\ f[i].forward_fd = FINFO[i].forward_fd
        /\ f[i].active => FINFO[i].active
        /\ FINFO[i].active /\ ~f[i].active => now - FINFO[i].time > MAXTIME_OFF

\* What the loop knows after n rounds that have not met the call: no slot so far
\* has it, and either an empty slot or the oldest so far, all of them being in use.
Searching(s, n, call) ==
    /\ \A i \in Slots : s.finfo[i].time = FINFO[i].time
    /\ \A i \in Slots : i < n /\ s.finfo[i].active => FINFO[i].call # call
    /\ s.entry # -1 => ~s.finfo[s.entry].active
    /\ s.entry = -1 =>
          /\ s.min = FINFO[s.j].time
          /\ \A i \in Slots : i < n => s.finfo[i].active /\ s.min <= FINFO[i].time

Scanning(n, call) ==
    {s \in Loops : Sound(s) /\ Descends(s.finfo) /\ (~s.dup => Searching(s, n, call))}

\* What holds of the table and the clock between two requests.
TableNow ==
    /\ TableSound(FINFO, rpcb_rmtcalls, fdmax)
    /\ FdsSound /\ now \in 0 .. MaxTime

LEMMA EmptiedDescends ==
    ASSUME TableNow, NEW s \in Loops, NEW t \in Loops, NEW i \in Slots,
           Descends(s.finfo), Emptied(s, t, i)
    PROVE  /\ \A k \in Slots :
                 /\ t.finfo[k].call = s.finfo[k].call
                 /\ t.finfo[k].forward_xid = s.finfo[k].forward_xid
                 /\ t.finfo[k].forward_fd = s.finfo[k].forward_fd
                 /\ t.finfo[k].time = s.finfo[k].time
                 /\ t.finfo[k].active <=> s.finfo[k].active /\ k # i
           /\ (FINFO[i].active => now - FINFO[i].time > MAXTIME_OFF) => Descends(t.finfo)
<1>1. s.finfo \in [Slots -> FInfo]
  BY DEF Loops
<1>2. ASSUME NEW k \in Slots
      PROVE  /\ t.finfo[k].call = s.finfo[k].call
             /\ t.finfo[k].forward_xid = s.finfo[k].forward_xid
             /\ t.finfo[k].forward_fd = s.finfo[k].forward_fd
             /\ t.finfo[k].time = s.finfo[k].time
             /\ t.finfo[k].active <=> s.finfo[k].active /\ k # i
  <2>1. t.finfo = [s.finfo EXCEPT ![i].active = FALSE]
    BY DEF Emptied
  <2>2. CASE k = i
    <3>1. t.finfo[k] = [s.finfo[k] EXCEPT !.active = FALSE]
      BY <1>1, <2>1, <2>2
    <3> QED
      BY <1>1, <2>2, <3>1 DEF FInfo
  <2>3. CASE k # i
    BY <1>1, <2>1, <2>3
  <2> QED
    BY <2>2, <2>3
<1>3. ASSUME FINFO[i].active => now - FINFO[i].time > MAXTIME_OFF PROVE Descends(t.finfo)
  BY <1>2, <1>3 DEF Descends
<1> QED
  BY <1>2, <1>3

LEMMA ScanStep ==
    ASSUME TableNow, NEW call \in Calls, NEW n \in 1 .. NFORWARD,
           NEW s \in Scanning(n - 1, call)
    PROVE  Scan(s, n - 1, call) \in Scanning(n, call)
<1> DEFINE i == n - 1
           f == s.finfo[i]
           expired == f.active /\ now - f.time > MAXTIME_OFF
           t == IF expired THEN free_slot_by_index(s, i) ELSE s
<1>1. i \in Slots /\ i \in Nat /\ n \in Nat /\ i < n /\ \A k \in Slots : k < n => k < i \/ k = i
  BY ForwardAssumption DEF Slots
<1>2. /\ s \in Loops /\ Sound(s) /\ Descends(s.finfo) /\ (~s.dup => Searching(s, i, call))
      /\ s.finfo \in [Slots -> FInfo] /\ f \in FInfo
  BY <1>1 DEF Scanning, Loops
<1>3. FINFO \in [Slots -> FInfo] /\ now \in 0 .. MaxTime /\ FdsSound
  BY DEF TableNow, TableSound
<1>4. Scan(s, i, call) =
        IF s.dup THEN s
        ELSE IF f.active /\ f.call = call THEN [s EXCEPT !.dup = TRUE, !.finfo[i].time = now]
        ELSE IF t.entry # -1 THEN t
        ELSE IF ~t.finfo[i].active THEN [t EXCEPT !.entry = i]
        ELSE IF f.time < t.min THEN [t EXCEPT !.j = i, !.min = f.time]
        ELSE t
  BY DEF Scan
<1>5. CASE s.dup
  BY <1>2, <1>4, <1>5 DEF Scanning
<1>6. CASE ~s.dup /\ f.active /\ f.call = call
  <2> DEFINE u == [s EXCEPT !.dup = TRUE, !.finfo[i].time = now]
  <2>1. u \in Loops /\ u.dup /\ u.rmt = s.rmt /\ u.max = s.max
        /\ u.finfo = [s.finfo EXCEPT ![i].time = now]
    BY <1>1, <1>2, <1>3 DEF Loops, FInfo
  <2>2. u.finfo \in [Slots -> FInfo]
    BY <2>1 DEF Loops
  <2>3. ASSUME NEW k \in Slots
        PROVE  /\ u.finfo[k].call = s.finfo[k].call
               /\ u.finfo[k].forward_xid = s.finfo[k].forward_xid
               /\ u.finfo[k].forward_fd = s.finfo[k].forward_fd
               /\ u.finfo[k].active = s.finfo[k].active
    <3>1. CASE k = i
      <4>1. u.finfo[k] = [s.finfo[k] EXCEPT !.time = now]
        BY <1>2, <2>1, <3>1
      <4> QED
        BY <1>2, <3>1, <4>1 DEF FInfo
    <3>2. CASE k # i
      BY <1>2, <2>1, <3>2
    <3> QED
      BY <3>1, <3>2
  <2> HIDE DEF u
  <2>4. Live(u.finfo) = Live(s.finfo)
    BY <2>3 DEF Live
  <2>5. Sound(u)
    <3>1. SlotsSound(u.finfo)
      <4> SUFFICES ASSUME NEW k \in Live(u.finfo)
                   PROVE  /\ u.finfo[k].call \in Calls /\ u.finfo[k].forward_fd \in FwdFds
                          /\ u.finfo[k].forward_xid % NFORWARD = k
                          /\ u.finfo[k].forward_xid # 0
        BY DEF SlotsSound
      <4>1. k \in Live(s.finfo) /\ k \in Slots
        BY <2>4 DEF Live
      <4> QED
        BY <1>2, <2>3, <4>1 DEF Sound, TableSound, SlotsSound
    <3>2. OneEach(u.finfo)
      <4> SUFFICES ASSUME NEW k \in Live(u.finfo), NEW l \in Live(u.finfo),
                          u.finfo[k].call = u.finfo[l].call
                   PROVE  k = l
        BY DEF OneEach
      <4>1. k \in Live(s.finfo) /\ l \in Live(s.finfo) /\ k \in Slots /\ l \in Slots
        BY <2>4 DEF Live
      <4> QED
        BY <1>2, <2>3, <4>1 DEF Sound, TableSound, OneEach
    <3> QED
      BY <1>2, <2>1, <2>2, <2>4, <3>1, <3>2 DEF Sound, TableSound
  <2>6. Descends(u.finfo)
    BY <1>2, <2>3 DEF Descends
  <2> QED
    BY <1>4, <1>6, <2>1, <2>5, <2>6 DEF Scanning, u
<1>7. CASE ~s.dup /\ ~(f.active /\ f.call = call)
  <2>1. /\ f.time = FINFO[i].time /\ f.call = FINFO[i].call
        /\ f.active => FINFO[i].active
    BY <1>1, <1>2, <1>7 DEF Searching, Descends
  <2>2. /\ t \in Loops /\ Sound(t) /\ Descends(t.finfo)
        /\ ~t.dup /\ t.entry = s.entry /\ t.j = s.j /\ t.min = s.min
        /\ \A k \in Slots : t.finfo[k].time = s.finfo[k].time
        /\ \A k \in Slots : k # i => (t.finfo[k].active <=> s.finfo[k].active)
        /\ t.finfo[i].active => f.active
    <3>1. CASE expired
      <4>1. /\ t \in Loops /\ Emptied(s, t, i) /\ t.dup = s.dup
            /\ t.entry = s.entry /\ t.j = s.j /\ t.min = s.min
        BY <1>1, <1>2, <1>3, <3>1, FreedWhole
      <4> HIDE DEF t
      <4>2. Sound(t)
        BY <4>1 DEF Emptied
      <4>3. FINFO[i].active => now - FINFO[i].time > MAXTIME_OFF
        BY <2>1, <3>1
      <4> QED
        BY <1>1, <1>2, <1>7, <4>1, <4>2, <4>3, EmptiedDescends
    <3>2. CASE ~expired
      <4>1. t = s
        BY <3>2
      <4> QED
        BY <1>2, <1>7, <4>1
    <3> QED
      BY <3>1, <3>2
  <2> HIDE DEF t, expired
  <2>3. /\ \A k \in Slots : t.finfo[k].time = FINFO[k].time
        /\ \A k \in Slots : k < n /\ t.finfo[k].active => FINFO[k].call # call
    BY <1>1, <1>2, <1>7, <2>1, <2>2 DEF Searching
  <2>4. CASE t.entry # -1
    <3>1. t.entry \in Slots /\ ~s.finfo[t.entry].active
      BY <1>2, <1>7, <2>2, <2>4 DEF Searching, Loops
    <3>2. ~t.finfo[t.entry].active
      BY <2>2, <3>1
    <3>3. Scan(s, i, call) = t
      BY <1>4, <1>7, <2>4
    <3> QED
      BY <2>2, <2>3, <2>4, <3>2, <3>3 DEF Scanning, Searching
  <2>5. CASE t.entry = -1 /\ ~t.finfo[i].active
    <3> DEFINE u == [t EXCEPT !.entry = i]
    <3>1. /\ u \in Loops /\ u.entry = i /\ u.finfo = t.finfo /\ u.rmt = t.rmt
          /\ u.max = t.max /\ u.dup = t.dup
      BY <1>1, <2>2 DEF Loops
    <3>2. Scan(s, i, call) = u
      BY <1>4, <1>7, <2>5
    <3> HIDE DEF u
    <3>3. i # -1
      BY <1>1
    <3> QED
      BY <2>2, <2>3, <2>5, <3>1, <3>2, <3>3 DEF Scanning, Searching, Sound
  <2>6. CASE t.entry = -1 /\ t.finfo[i].active
    <3>1. /\ t.min = FINFO[t.j].time
          /\ \A k \in Slots : k < i => t.finfo[k].active /\ t.min <= FINFO[k].time
      BY <1>1, <1>2, <1>7, <2>2, <2>6 DEF Searching
    <3>2. /\ t.min \in Int /\ f.time \in 0 .. MaxTime /\ f.time \in Int
          /\ \A k \in Slots : FINFO[k].time \in Int
      <4>1. t.min \in 0 .. MaxTime /\ f.time \in 0 .. MaxTime
            /\ \A k \in Slots : FINFO[k].time \in 0 .. MaxTime
        BY <1>2, <1>3, <2>2 DEF Loops, FInfo
      <4>2. MaxTime \in Nat
        BY ForwardAssumption
      <4> QED
        BY <4>1, <4>2
    <3>3. CASE f.time < t.min
      <4> DEFINE u == [t EXCEPT !.j = i, !.min = f.time]
      <4>1. /\ u \in Loops /\ u.entry = t.entry /\ u.finfo = t.finfo /\ u.rmt = t.rmt
            /\ u.max = t.max /\ u.dup = t.dup /\ u.j = i /\ u.min = f.time
        BY <1>1, <2>2, <3>2 DEF Loops
      <4>2. Scan(s, i, call) = u
        BY <1>4, <1>7, <2>6, <3>3
      <4> HIDE DEF u
      <4>3. \A k \in Slots : k < n => u.finfo[k].active /\ u.min <= FINFO[k].time
        <5> SUFFICES ASSUME NEW k \in Slots, k < n
                     PROVE  u.finfo[k].active /\ u.min <= FINFO[k].time
          OBVIOUS
        <5>1. CASE k < i
          BY <3>1, <3>2, <3>3, <4>1, <5>1
        <5>2. CASE k = i
          BY <2>1, <2>6, <3>2, <4>1, <5>2
        <5> QED
          BY <1>1, <5>1, <5>2
      <4>4. u.min = FINFO[u.j].time
        BY <2>1, <4>1
      <4> QED
        BY <2>2, <2>3, <2>6, <4>1, <4>2, <4>3, <4>4 DEF Scanning, Searching, Sound
    <3>4. CASE ~(f.time < t.min)
      <4>1. Scan(s, i, call) = t
        BY <1>4, <1>7, <2>6, <3>4
      <4>2. \A k \in Slots : k < n => t.finfo[k].active /\ t.min <= FINFO[k].time
        <5> SUFFICES ASSUME NEW k \in Slots, k < n
                     PROVE  t.finfo[k].active /\ t.min <= FINFO[k].time
          OBVIOUS
        <5>1. CASE k < i
          BY <3>1, <5>1
        <5>2. CASE k = i
          BY <2>1, <2>6, <3>2, <3>4, <5>2
        <5> QED
          BY <1>1, <5>1, <5>2
      <4> QED
        BY <2>2, <2>3, <2>6, <3>1, <4>1, <4>2 DEF Scanning, Searching
    <3> QED
      BY <3>3, <3>4
  <2> QED
    BY <2>4, <2>5, <2>6
<1> QED
  BY <1>5, <1>6, <1>7

LEMMA RoundsFacts ==
    ASSUME TableNow, NEW call \in Calls
    PROVE  Rounds(call)[NFORWARD] \in Scanning(NFORWARD, call)
<1> DEFINE V == [n \in 0 .. NFORWARD |-> Scanning(n, call)]
           first == [finfo |-> FINFO, rmt |-> rpcb_rmtcalls, max |-> fdmax,
                     dup |-> FALSE, entry |-> -1, j |-> 0, min |-> FINFO[0].time]
           step == [p \in Loops \X (1 .. NFORWARD) |-> Scan(p[1], p[2] - 1, call)]
           f == Rounds(call)
<1>1. NFORWARD \in Nat \ {0} /\ 0 \in Slots /\ 0 \in 0 .. NFORWARD /\ NFORWARD \in 0 .. NFORWARD
  BY ForwardAssumption DEF Slots
<1>2. first \in V[0]
  <2>1. FINFO \in [Slots -> FInfo] /\ rpcb_rmtcalls \in Int /\ fdmax \in Int
    BY LiveFacts DEF TableNow, TableSound
  <2>2. FINFO[0].time \in 0 .. MaxTime
    BY <1>1, <2>1 DEF FInfo
  <2>3. first \in Loops
    BY <1>1, <2>1, <2>2 DEF Loops
  <2>4. Sound(first)
    BY DEF Sound, TableNow
  <2>5. Descends(first.finfo)
    BY DEF Descends
  <2>6. Searching(first, 0, call)
    BY DEF Searching, Slots
  <2> HIDE DEF first
  <2> QED
    BY <1>1, <2>3, <2>4, <2>5, <2>6 DEF Scanning
<1>3. ASSUME NEW n \in 1 .. NFORWARD, NEW s \in V[n - 1]
      PROVE  s \in Loops /\ step[<<s, n>>] = Scan(s, n - 1, call) /\ Scan(s, n - 1, call) \in V[n]
  <2>1. n - 1 \in 0 .. NFORWARD /\ n \in 0 .. NFORWARD
    BY <1>1
  <2>2. s \in Scanning(n - 1, call)
    BY <2>1
  <2>3. s \in Loops
    BY <2>2 DEF Scanning
  <2>4. Scan(s, n - 1, call) \in V[n]
    BY <2>1, <2>2, ScanStep
  <2> QED
    BY <2>3, <2>4
<1> HIDE DEF V, first, step
<1>4. PICK g : Recursion(NFORWARD, first, step, g) /\ Through(NFORWARD, V, g)
  <2>1. Leads(NFORWARD, V, step)
    BY <1>3 DEF Leads
  <2>2. NFORWARD \in Nat
    BY <1>1
  <2> QED
    BY <1>2, <2>1, <2>2, RecursionExists
<1>5. g = [n \in 0 .. NFORWARD |-> IF n = 0 THEN first ELSE Scan(g[n - 1], n - 1, call)]
  <2>1. ASSUME NEW n \in 0 .. NFORWARD, n # 0
        PROVE  step[<<g[n - 1], n>>] = Scan(g[n - 1], n - 1, call)
    <3>1. n \in 1 .. NFORWARD /\ n - 1 \in 0 .. NFORWARD
      BY <1>1, <2>1
    <3>2. g[n - 1] \in V[n - 1]
      BY <1>4, <3>1 DEF Through
    <3> QED
      BY <1>3, <3>1, <3>2
  <2>2. g = [n \in 0 .. NFORWARD |-> IF n = 0 THEN first ELSE step[<<g[n - 1], n>>]]
    BY <1>4 DEF Recursion
  <2>3. \A n \in 0 .. NFORWARD :
          (IF n = 0 THEN first ELSE step[<<g[n - 1], n>>])
            = (IF n = 0 THEN first ELSE Scan(g[n - 1], n - 1, call))
    BY <2>1
  <2> QED
    BY <2>2, <2>3
<1>6. f = [n \in 0 .. NFORWARD |-> IF n = 0 THEN first ELSE Scan(f[n - 1], n - 1, call)]
  <2>1. f = CHOOSE h : h = [n \in 0 .. NFORWARD |->
                             IF n = 0 THEN first ELSE Scan(h[n - 1], n - 1, call)]
    BY DEF Rounds, first
  <2> HIDE DEF f
  <2> QED
    BY <1>5, <2>1
<1> HIDE DEF f
<1>7. f[0] \in V[0]
  BY <1>1, <1>2, <1>6
<1>8. ASSUME NEW n \in 1 .. NFORWARD, f[n - 1] \in V[n - 1]
      PROVE  f[n] \in V[n]
  <2>1. n \in 0 .. NFORWARD /\ n # 0
    BY <1>1
  <2>2. f[n] = Scan(f[n - 1], n - 1, call)
    BY <1>6, <2>1
  <2> QED
    BY <1>3, <1>8, <2>2
<1>9. \A n \in 0 .. NFORWARD : f[n] \in V[n]
  BY <1>1, <1>7, <1>8, RecursionStays
<1> QED
  BY <1>1, <1>9 DEF V, f

\* What forward_register has done when it fills a slot, or finds the call.
ScannedTo(s, call) ==
    /\ s \in Loops /\ Sound(s)
    /\ \A i \in Slots :
          /\ s.finfo[i].call = FINFO[i].call
          /\ s.finfo[i].forward_xid = FINFO[i].forward_xid
          /\ s.finfo[i].forward_fd = FINFO[i].forward_fd
          /\ s.finfo[i].active => FINFO[i].active
    /\ ~s.dup =>
          /\ ~s.finfo[s.j].active
          /\ \A i \in Live(s.finfo) : s.finfo[i].call # call
          /\ FINFO[s.j].active =>
                \/ now - FINFO[s.j].time > MAXTIME_OFF
                \/ /\ \A k \in Slots : FINFO[k].active
                   /\ \A k \in Slots : FINFO[s.j].time <= FINFO[k].time

LEMMA ScannedFacts ==
    ASSUME TableNow, NEW call \in Calls
    PROVE  ScannedTo(Scanned(call), call)
<1>1. PICK s \in Scanning(NFORWARD, call) : s = Rounds(call)[NFORWARD]
  BY RoundsFacts
<1>2. Scanned(call) = IF s.dup THEN s
                      ELSE IF s.entry # -1 THEN [s EXCEPT !.j = s.entry]
                      ELSE free_slot_by_index(s, s.j)
  BY <1>1 DEF Scanned
<1>3. s \in Loops /\ Sound(s) /\ Descends(s.finfo) /\ (~s.dup => Searching(s, NFORWARD, call))
  BY DEF Scanning
<1>4. \A i \in Slots : i < NFORWARD
  BY ForwardAssumption DEF Slots
<1>5. CASE s.dup
  BY <1>2, <1>3, <1>5 DEF ScannedTo, Descends
<1>6. CASE ~s.dup /\ s.entry # -1
  <2> DEFINE u == [s EXCEPT !.j = s.entry]
  <2>1. /\ u \in Loops /\ u.finfo = s.finfo /\ u.rmt = s.rmt /\ u.max = s.max
        /\ u.dup = s.dup /\ u.j = s.entry /\ u.j \in Slots
    BY <1>3, <1>6 DEF Loops
  <2> HIDE DEF u
  <2>2. Scanned(call) = u
    BY <1>2, <1>6 DEF u
  <2>3. Sound(u)
    BY <1>3, <2>1 DEF Sound
  <2>4. ~u.finfo[u.j].active
    BY <1>3, <1>6, <2>1 DEF Searching
  <2>5. \A i \in Live(u.finfo) : u.finfo[i].call # call
    BY <1>3, <1>4, <1>6, <2>1 DEF Searching, Live, Descends
  <2>6. FINFO[u.j].active => now - FINFO[u.j].time > MAXTIME_OFF
    BY <1>3, <2>1, <2>4 DEF Descends
  <2> QED
    BY <1>3, <2>1, <2>2, <2>3, <2>4, <2>5, <2>6 DEF ScannedTo, Descends
<1>7. CASE ~s.dup /\ s.entry = -1
  <2> DEFINE u == free_slot_by_index(s, s.j)
  <2>1. s.j \in Slots
    BY <1>3 DEF Loops
  <2>2. u \in Loops /\ Emptied(s, u, s.j) /\ u.dup = s.dup /\ u.j = s.j
    BY <1>3, <2>1, FreedWhole DEF TableNow
  <2> HIDE DEF u
  <2>3. Scanned(call) = u
    BY <1>2, <1>7 DEF u
  <2>4. \A k \in Slots :
           /\ u.finfo[k].call = s.finfo[k].call
           /\ u.finfo[k].forward_xid = s.finfo[k].forward_xid
           /\ u.finfo[k].forward_fd = s.finfo[k].forward_fd
           /\ u.finfo[k].active <=> s.finfo[k].active /\ k # s.j
    BY <1>3, <2>1, <2>2, EmptiedDescends
  <2>5. \A i \in Live(u.finfo) : u.finfo[i].call # call
    BY <1>3, <1>4, <1>7, <2>4 DEF Searching, Live, Descends
  <2>6. /\ \A k \in Slots : FINFO[k].active
        /\ \A k \in Slots : FINFO[u.j].time <= FINFO[k].time
    BY <1>3, <1>4, <1>7, <2>2 DEF Searching, Descends
  <2>7. \A i \in Slots :
          /\ u.finfo[i].call = FINFO[i].call
          /\ u.finfo[i].forward_xid = FINFO[i].forward_xid
          /\ u.finfo[i].forward_fd = FINFO[i].forward_fd
          /\ u.finfo[i].active => FINFO[i].active
    BY <1>3, <2>4 DEF Descends
  <2>8. Sound(u) /\ ~u.finfo[u.j].active
    BY <2>1, <2>2, <2>4 DEF Emptied
  <2> QED
    BY <2>2, <2>3, <2>5, <2>6, <2>7, <2>8 DEF ScannedTo
<1> QED
  BY <1>5, <1>6, <1>7

(* The inductive invariant.                                                 *)

InFlight == atService \cup UNION {ToSet(inbox[fd]) : fd \in FwdFds}

Types ==
    /\ lastxid \in Xids /\ lastxid % NFORWARD = 0
    /\ pc \in {"poll", "replies", "getreq"} /\ revents \subseteq AllFds
    /\ pending \in 0 .. NFORWARD
    /\ atService \subseteq Msgs /\ inbox \in [FwdFds -> Seq(Msgs)]
    /\ \A fd \in FwdFds : Len(inbox[fd]) <= MaxQueue
    /\ out \in [to : Calls, of : Calls \cup {Error}] \cup {None}
    /\ forwards \in 0 .. MaxForwards

\* How many turns ago a turn was given out.
Since(turn, last) == IF turn <= last THEN last - turn ELSE last - turn + (Turns - 2)

\* The ids under way were given out by the requests counted, hence a new id is not
\* among them, although lastxid wraps.
XidInv ==
    /\ forwards > 0 => Turn(lastxid) \in 1 .. Turns - 2
    /\ \A m \in InFlight : /\ forwards > 0 /\ Turn(m.xid) \in 1 .. Turns - 2
                            /\ Since(Turn(m.xid), Turn(lastxid)) < forwards
    /\ \A i \in Live(FINFO), m \in InFlight :
          m.xid = FINFO[i].forward_xid => m.call = FINFO[i].call

\* While check_rmtcalls is at work a call is pending, and a forwarding descriptor
\* that poll() reported has a reply until it is served.
LoopInv ==
    /\ pc = "replies" => pending > 0
    /\ \A fd \in revents \cap FwdFds : inbox[fd] # << >>

IInv == Types /\ TableNow /\ XidInv /\ LoopInv /\ AnswersGoToTheirCaller

\* Unless a reply was counted for nothing, check_rmtcalls has as many left to handle as
\* calls are pending; hence what it leaves to svc_getreq_poll is awaited by none.
CountInv ==
    /\ wasted \in BOOLEAN
    /\ pc = "replies" /\ ~wasted => pending = rpcb_rmtcalls
    /\ pc = "getreq" /\ ~wasted =>
          \A fd \in revents \cap FwdFds, i \in Live(FINFO) :
             FINFO[i].forward_xid # Head(inbox[fd]).xid

\* Nothing is put into the table.
Shrunk ==
    \A i \in Slots :
        /\ FINFO'[i].call = FINFO[i].call /\ FINFO'[i].forward_xid = FINFO[i].forward_xid
        /\ FINFO'[i].active => FINFO[i].active

LEMMA XidKept ==
    ASSUME XidInv, Shrunk, InFlight' \subseteq InFlight, UNCHANGED <<lastxid, forwards>>
    PROVE  XidInv'
BY DEF XidInv, Shrunk, Live

\* Whatever happens to the descriptor set.
LEMMA FdsChange ==
    ASSUME TableNow, UNCHANGED <<FINFO, rpcb_rmtcalls, now>>,
           fdset' \subseteq AllFds, AllFds \ ConnFds \subseteq fdset', fdmax' \in Int,
           \A l \in ListenFds : l <= fdmax => l <= fdmax'
    PROVE  TableNow' /\ Shrunk
BY DEF TableNow, TableSound, FdsSound, Watched, Shrunk, Live, SlotsSound, OneEach

LEMMA ListenersSet ==
    ASSUME TableNow
    PROVE  /\ \A l \in ListenFds : l \in fdset /\ l \notin ConnFds /\ l \in Int
           /\ fdset \subseteq AllFds /\ fdmax \in Int /\ AllFds \ ConnFds \subseteq fdset
<1>1. ListenFds \subseteq AllFds /\ AllFds \subseteq Nat /\ ListenFds \cap ConnFds = {}
  BY ForwardAssumption DEF AllFds
<1>2. \A l \in ListenFds : l \in Nat
  BY <1>1
<1> QED
  BY <1>1, <1>2 DEF TableNow, TableSound, FdsSound

LEMMA SetFd ==
    ASSUME TableNow, UNCHANGED <<FINFO, rpcb_rmtcalls, now>>,
           NEW fd \in ConnFds, svc_fdset_set(fd)
    PROVE  TableNow' /\ Shrunk
<1> DEFINE max == IF fd > fdmax THEN fd ELSE fdmax
<1>1. fd \in AllFds /\ fd \in Int /\ fdmax \in Int /\ max \in Int /\ fdmax <= max
  <2>1. fd \in AllFds /\ AllFds \subseteq Nat
    BY ForwardAssumption DEF AllFds
  <2>2. fd \in Nat
    BY <2>1
  <2> QED
    BY <2>1, <2>2, ListenersSet
<1>2. fdset' = fdset \cup {fd} /\ fdmax' = svc_fdset_sanitize(max, fdset')
  BY DEF svc_fdset_set
<1>3. fdset' \subseteq AllFds /\ AllFds \ ConnFds \subseteq fdset'
  BY <1>1, <1>2, ListenersSet
<1>4. fdmax' \in Int /\ \A g \in fdset' : g <= max => g <= fdmax'
  BY <1>1, <1>2, <1>3, SanitizeFacts
<1>5. \A l \in ListenFds : l <= fdmax => l <= fdmax'
  <2> SUFFICES ASSUME NEW l \in ListenFds, l <= fdmax PROVE l <= fdmax'
    OBVIOUS
  <2>1. l \in fdset' /\ l \in Int
    BY <1>2, ListenersSet
  <2>2. l <= max
    BY <1>1, <2>1
  <2> QED
    BY <1>4, <2>1, <2>2
<1> QED
  BY <1>3, <1>4, <1>5, FdsChange

LEMMA ClearFd ==
    ASSUME TableNow, UNCHANGED <<FINFO, rpcb_rmtcalls, now>>,
           NEW fd \in ConnFds, svc_fdset_clr(fd)
    PROVE  TableNow' /\ Shrunk
<1>1. fdset' = fdset \ {fd} /\ fdmax' = svc_fdset_sanitize(fdmax, fdset')
  BY DEF svc_fdset_clr
<1>2. fdset' \subseteq AllFds /\ AllFds \ ConnFds \subseteq fdset'
  BY <1>1, ListenersSet
<1>3. fdmax' \in Int /\ \A g \in fdset' : g <= fdmax => g <= fdmax'
  BY <1>1, <1>2, ListenersSet, SanitizeFacts
<1>4. \A l \in ListenFds : l \in fdset'
  BY <1>1, ListenersSet
<1> QED
  BY <1>2, <1>3, <1>4, FdsChange

LEMMA SanitizeFd ==
    ASSUME TableNow, UNCHANGED <<FINFO, rpcb_rmtcalls, now, fdset>>,
           fdmax' = svc_fdset_sanitize(fdmax, fdset)
    PROVE  TableNow' /\ Shrunk
<1>1. fdset' \subseteq AllFds /\ AllFds \ ConnFds \subseteq fdset'
  BY ListenersSet
<1>2. fdmax' \in Int /\ \A g \in fdset : g <= fdmax => g <= fdmax'
  BY ListenersSet, SanitizeFacts
<1> QED
  BY <1>1, <1>2, ListenersSet, FdsChange

LEMMA SameTable ==
    ASSUME TableNow, UNCHANGED <<FINFO, rpcb_rmtcalls, fdset, fdmax>>, now' \in 0 .. MaxTime
    PROVE  TableNow' /\ Shrunk
BY DEF TableNow, TableSound, FdsSound, Watched, Shrunk, Live, SlotsSound, OneEach

\* At "done:" a slot is freed, or none.
LEMMA DoneFacts ==
    ASSUME TableNow, NEW xid \in Xids, Done(xid), UNCHANGED <<fdset, now>>
    PROVE  TableNow' /\ Shrunk
<1>1. Table \in Tables /\ Sound(Table)
  BY LiveFacts DEF TableNow, TableSound, Table, Tables, Sound
<1>2. CASE xid = 0
  <2>1. UNCHANGED <<FINFO, rpcb_rmtcalls, fdmax>>
    BY <1>2 DEF Done, SetTable, Table
  <2> QED
    BY <2>1, SameTable DEF TableNow
<1>3. CASE xid # 0
  <2> DEFINE i == xid % NFORWARD
             t == free_slot_by_index(Table, i)
  <2>1. i \in Slots
    <3>1. NFORWARD \in Nat \ {0} /\ xid \in Int
      BY ForwardAssumption DEF Xids
    <3> QED
      BY <3>1, Division DEF Slots
  <2>2. t \in Tables /\ Emptied(Table, t, i)
    BY <1>1, <2>1, FreedWhole DEF TableNow
  <2>3. FINFO' = t.finfo /\ rpcb_rmtcalls' = t.rmt /\ fdmax' = t.max
    BY <1>3 DEF Done, SetTable, free_slot_by_xid
  <2> HIDE DEF t, i
  <2>4. TableSound(FINFO', rpcb_rmtcalls', fdmax')
    BY <2>2, <2>3 DEF Emptied, Sound
  <2>5. TableNow'
    BY <2>4 DEF TableNow, FdsSound, TableSound, SlotsSound, OneEach, Live, Watched
  <2>6. FINFO' = [FINFO EXCEPT ![i].active = FALSE] /\ FINFO \in [Slots -> FInfo]
    BY <2>2, <2>3 DEF Emptied, Table, TableNow, TableSound
  <2>7. ASSUME NEW k \in Slots
        PROVE  /\ FINFO'[k].call = FINFO[k].call /\ FINFO'[k].forward_xid = FINFO[k].forward_xid
               /\ FINFO'[k].active => FINFO[k].active
    <3>1. CASE k = i
      <4>1. FINFO'[k] = [FINFO[k] EXCEPT !.active = FALSE] /\ FINFO[k] \in FInfo
        BY <2>6, <3>1
      <4> HIDE DEF i
      <4> QED
        BY <4>1 DEF FInfo
    <3>2. CASE k # i
      BY <2>6, <3>2
    <3> QED
      BY <3>1, <3>2
  <2> QED
    BY <2>5, <2>7 DEF Shrunk
<1> QED
  BY <1>2, <1>3

(* The datagrams.                                                           *)

LEMMA InFlightIs ==
    /\ \A m : m \in InFlight <=> m \in atService \/ \E fd \in FwdFds : m \in ToSet(inbox[fd])
    /\ \A m : m \in InFlight' <=> m \in atService' \/ \E fd \in FwdFds : m \in ToSet(inbox'[fd])
BY DEF InFlight

LEMMA InFlightSame ==
    ASSUME UNCHANGED <<atService, inbox>>
    PROVE  InFlight' = InFlight
BY DEF InFlight

LEMMA ReceivedFacts ==
    ASSUME Types, NEW fd \in FwdFds, inbox[fd] # << >>, Received(fd), UNCHANGED atService
    PROVE  /\ Head(inbox[fd]) \in InFlight /\ Head(inbox[fd]) \in Msgs
           /\ InFlight' \subseteq InFlight
           /\ inbox' \in [FwdFds -> Seq(Msgs)]
           /\ \A g \in FwdFds : Len(inbox'[g]) <= MaxQueue
           /\ \A g \in FwdFds : g # fd => inbox'[g] = inbox[g]
<1> DEFINE s == inbox[fd]
<1>1. s \in Seq(Msgs) /\ s # << >> /\ Len(s) <= MaxQueue /\ MaxQueue \in Nat
  BY ForwardAssumption DEF Types
<1>2. inbox' = [inbox EXCEPT ![fd] = Tail(s)] /\ inbox \in [FwdFds -> Seq(Msgs)]
  BY DEF Received, Types
<1> HIDE DEF s
<1>3. /\ Len(s) \in Nat \ {0} /\ Tail(s) \in Seq(Msgs) /\ Len(Tail(s)) = Len(s) - 1
      /\ \A i \in 1 .. Len(Tail(s)) : Tail(s)[i] = s[i + 1]
      /\ Head(s) = s[1] /\ s[1] \in Msgs
  BY <1>1
<1>4. Head(s) \in ToSet(s)
  BY <1>1, <1>3 DEF ToSet
<1>5. ToSet(Tail(s)) \subseteq ToSet(s)
  <2> SUFFICES ASSUME NEW i \in 1 .. Len(Tail(s)) PROVE Tail(s)[i] \in ToSet(s)
    BY <1>3 DEF ToSet
  <2>1. i + 1 \in 1 .. Len(s) /\ Tail(s)[i] = s[i + 1]
    BY <1>3
  <2> QED
    BY <1>1, <2>1 DEF ToSet
<1>6. /\ inbox' \in [FwdFds -> Seq(Msgs)] /\ inbox'[fd] = Tail(s)
      /\ \A g \in FwdFds : g # fd => inbox'[g] = inbox[g]
  BY <1>2, <1>3
<1>7. ASSUME NEW g \in FwdFds PROVE Len(inbox'[g]) <= MaxQueue
  <2>1. CASE g = fd
    <3>1. Len(s) - 1 <= MaxQueue
      BY <1>1, <1>3
    <3> QED
      BY <1>3, <1>6, <2>1, <3>1
  <2>2. CASE g # fd
    BY <1>6, <2>2 DEF Types
  <2> QED
    BY <2>1, <2>2
<1>8. \A g \in FwdFds : ToSet(inbox'[g]) \subseteq ToSet(inbox[g])
  BY <1>5, <1>6 DEF s
<1>9. InFlight' \subseteq InFlight
  BY <1>8, InFlightIs
<1>10. Head(inbox[fd]) \in InFlight
  BY <1>4, InFlightIs DEF s
<1> QED
  BY <1>3, <1>6, <1>7, <1>9, <1>10 DEF s

LEMMA SentFacts ==
    ASSUME Types, NEW m \in atService, Len(inbox[m.fd]) < MaxQueue,
           inbox' = [inbox EXCEPT ![m.fd] = Append(@, m)],
           atService' \in {atService, atService \ {m}}
    PROVE  /\ atService' \subseteq Msgs /\ InFlight' \subseteq InFlight
           /\ inbox' \in [FwdFds -> Seq(Msgs)]
           /\ \A g \in FwdFds : Len(inbox'[g]) <= MaxQueue
           /\ \A g \in FwdFds : inbox[g] # << >> =>
                 inbox'[g] # << >> /\ Head(inbox'[g]) = Head(inbox[g])
<1>1. m \in Msgs /\ m.fd \in FwdFds /\ m \in InFlight /\ atService' \subseteq atService
  BY InFlightIs DEF Types, Msgs
<1> DEFINE s == inbox[m.fd]
<1>2. s \in Seq(Msgs) /\ Len(s) < MaxQueue /\ MaxQueue \in Nat
  BY <1>1, ForwardAssumption DEF Types
<1>3. inbox' = [inbox EXCEPT ![m.fd] = Append(s, m)] /\ inbox \in [FwdFds -> Seq(Msgs)]
  BY DEF Types
<1> HIDE DEF s
<1>4. /\ Append(s, m) \in Seq(Msgs) /\ Len(Append(s, m)) = Len(s) + 1
      /\ \A i \in 1 .. Len(s) : Append(s, m)[i] = s[i]
      /\ Append(s, m)[Len(s) + 1] = m /\ Len(s) \in Nat
  BY <1>1, <1>2
<1>5. /\ inbox' \in [FwdFds -> Seq(Msgs)] /\ inbox'[m.fd] = Append(s, m)
      /\ \A g \in FwdFds : g # m.fd => inbox'[g] = inbox[g]
  BY <1>1, <1>3, <1>4
<1>6. \A x \in ToSet(Append(s, m)) : x \in ToSet(s) \/ x = m
  <2> SUFFICES ASSUME NEW i \in 1 .. Len(s) + 1
               PROVE  Append(s, m)[i] \in ToSet(s) \/ Append(s, m)[i] = m
    BY <1>4 DEF ToSet
  <2>1. CASE i = Len(s) + 1
    BY <1>4, <2>1
  <2>2. CASE i \in 1 .. Len(s)
    BY <1>2, <1>4, <2>2 DEF ToSet
  <2> QED
    BY <1>4, <2>1, <2>2
<1>7. InFlight' \subseteq InFlight
  <2> SUFFICES ASSUME NEW x \in InFlight' PROVE x \in InFlight
    OBVIOUS
  <2>1. CASE x \in atService'
    BY <1>1, <2>1, InFlightIs
  <2>2. ASSUME NEW g \in FwdFds, x \in ToSet(inbox'[g]) PROVE x \in InFlight
    <3>1. CASE g = m.fd
      BY <1>1, <1>5, <1>6, <2>2, <3>1, InFlightIs DEF s
    <3>2. CASE g # m.fd
      BY <1>5, <2>2, <3>2, InFlightIs
    <3> QED
      BY <3>1, <3>2
  <2> QED
    BY <2>1, <2>2, InFlightIs
<1>8. \A g \in FwdFds : Len(inbox'[g]) <= MaxQueue
  BY <1>2, <1>4, <1>5 DEF Types
<1>9. ASSUME NEW g \in FwdFds, inbox[g] # << >>
      PROVE  inbox'[g] # << >> /\ Head(inbox'[g]) = Head(inbox[g])
  <2>1. CASE g = m.fd
    <3>1. s # << >> /\ Len(s) # 0
      BY <1>2, <1>9, <2>1 DEF s
    <3>2. 1 \in 1 .. Len(s) /\ Len(Append(s, m)) # 0
      BY <1>4, <3>1
    <3>3. Append(s, m) # << >> /\ Head(Append(s, m)) = Append(s, m)[1] /\ Head(s) = s[1]
      BY <1>2, <1>4, <3>1, <3>2
    <3> QED
      BY <1>4, <1>5, <2>1, <3>2, <3>3 DEF s
  <2>2. CASE g # m.fd
    BY <1>5, <1>9, <2>2
  <2> QED
    BY <2>1, <2>2
<1> QED
  BY <1>1, <1>5, <1>7, <1>8, <1>9 DEF Types

(* A request is forwarded.                                                  *)

\* The new id is of a turn none of the ids under way is of.
LEMMA Freshness ==
    ASSUME Types, XidInv, forwards < MaxForwards, NEW seed \in StartTimes
    PROVE  /\ NextXid(seed) \in Xids /\ NextXid(seed) % NFORWARD = 0
           /\ Turn(NextXid(seed)) \in 1 .. Turns - 2
           /\ \A j \in Slots : /\ NextXid(seed) + j \in Xids
                               /\ Turn(NextXid(seed) + j) = Turn(NextXid(seed))
                               /\ (NextXid(seed) + j) % NFORWARD = j
                               /\ NextXid(seed) + j # 0
           /\ \A m \in InFlight : /\ Turn(m.xid) # Turn(NextXid(seed))
                                  /\ Since(Turn(m.xid), Turn(NextXid(seed))) < forwards + 1
<1> DEFINE x == NextXid(seed)
           a == Turn(x)
           last == Turn(lastxid)
<1>1. /\ forwards \in Nat /\ MaxForwards \in Nat /\ Turns \in Nat
      /\ forwards <= Turns - 3 /\ 1 <= Turns - 2
  BY XidSpace, ForwardAssumption DEF Types
<1>2. /\ x = NFORWARD * a /\ x \in Xids /\ x % NFORWARD = 0
      /\ a \in 1 .. Turns - 2
      /\ last \in 1 .. Turns - 2 => a = After(last)
  BY <1>1, NextXidFacts DEF Types
<1> HIDE DEF x, a, last
<1>3. ASSUME NEW j \in Slots
      PROVE  x + j \in Xids /\ Turn(x + j) = a /\ (x + j) % NFORWARD = j /\ x + j # 0
  <2>1. a \in 0 .. Turns - 1 /\ a # 0
    BY <1>1, <1>2
  <2> QED
    BY <1>2, <2>1, XidOfTurn
<1>4. ASSUME NEW m \in InFlight
      PROVE  Turn(m.xid) # a /\ Since(Turn(m.xid), a) < forwards + 1
  <2>1. /\ last \in 1 .. Turns - 2 /\ Turn(m.xid) \in 1 .. Turns - 2
        /\ Since(Turn(m.xid), last) < forwards
    BY <1>1 DEF XidInv, last
  <2>2. PICK u \in 1 .. Turns - 2 : u = Turn(m.xid)
    BY <2>1
  <2>3. a = IF last = Turns - 2 THEN 1 ELSE last + 1
    BY <1>2, <2>1 DEF After
  <2>4. (IF u <= last THEN last - u ELSE last - u + (Turns - 2)) < forwards
    BY <2>1, <2>2 DEF Since
  <2>5. u # a /\ (IF u <= a THEN a - u ELSE a - u + (Turns - 2)) < forwards + 1
    BY <1>1, <2>1, <2>3, <2>4
  <2> QED
    BY <2>2, <2>5 DEF Since
<1> QED
  BY <1>2, <1>3, <1>4 DEF x, a

LEMMA FilledFacts ==
    ASSUME Types, TableNow, XidInv, forwards < MaxForwards,
           NEW call \in Calls, NEW seed \in StartTimes,
           NEW s, s = Scanned(call), ~s.dup
    PROVE  /\ s.j \in Slots
           /\ Fill(s, call, NextXid(seed)) \in Loops
           /\ Sound(Fill(s, call, NextXid(seed)))
           /\ \A i \in Slots :
                 Fill(s, call, NextXid(seed)).finfo[i] =
                   IF i = s.j
                   THEN [active |-> TRUE, call |-> call, time |-> now,
                         forward_xid |-> NextXid(seed) + s.j, forward_fd |-> FwdOf[call.fd]]
                   ELSE s.finfo[i]
<1> DEFINE x == NextXid(seed)
           j == s.j
           e == [active |-> TRUE, call |-> call, time |-> now,
                 forward_xid |-> x + j, forward_fd |-> FwdOf[call.fd]]
           t == Fill(s, call, x)
<1>1. ScannedTo(s, call)
  BY ScannedFacts
<1>2. s \in Loops /\ Sound(s) /\ j \in Slots /\ s.finfo \in [Slots -> FInfo] /\ s.rmt \in Int
  BY <1>1 DEF ScannedTo, Loops
<1>3. /\ x + j \in Xids /\ (x + j) % NFORWARD = j /\ x + j # 0
  BY <1>2, Freshness
<1>4. FwdOf[call.fd] \in FwdFds /\ now \in 0 .. MaxTime
  BY ForwardAssumption DEF FwdFds, TableNow
<1> HIDE DEF x
<1>5. e \in FInfo
  BY <1>3, <1>4 DEF FInfo
<1>6. t = [s EXCEPT !.rmt = @ + 1, !.finfo[j] = e]
  BY DEF Fill
<1>7. /\ e.active /\ e.call = call /\ e.forward_xid = x + j
      /\ e.forward_fd = FwdOf[call.fd]
  OBVIOUS
<1> HIDE DEF e, t
<1>8. /\ t \in Loops /\ t.finfo = [s.finfo EXCEPT ![j] = e] /\ t.rmt = s.rmt + 1 /\ t.max = s.max
  <2> DEFINE g == [s.finfo EXCEPT ![j] = e]
  <2>1. t = [s EXCEPT !.rmt = s.rmt + 1, !.finfo = g]
    BY <1>2, <1>6 DEF Loops
  <2>2. g \in [Slots -> FInfo] /\ s.rmt + 1 \in Int
    BY <1>2, <1>5
  <2> HIDE DEF g, j
  <2>3. t \in Loops /\ t.finfo = g /\ t.rmt = s.rmt + 1 /\ t.max = s.max
    BY <1>2, <2>1, <2>2 DEF Loops
  <2> QED
    BY <2>3 DEF g
<1>9. /\ t.finfo \in [Slots -> FInfo]
      /\ \A i \in Slots : t.finfo[i] = IF i = j THEN e ELSE s.finfo[i]
  BY <1>2, <1>5, <1>8
<1>10. /\ ~s.finfo[j].active /\ \A i \in Live(s.finfo) : s.finfo[i].call # call
  BY <1>1 DEF ScannedTo
<1>11. Live(t.finfo) = Live(s.finfo) \cup {j} /\ j \notin Live(s.finfo)
  BY <1>2, <1>7, <1>9, <1>10 DEF Live
<1>12. SlotsSound(t.finfo)
  <2> SUFFICES ASSUME NEW k \in Live(t.finfo)
               PROVE  /\ t.finfo[k].call \in Calls /\ t.finfo[k].forward_fd \in FwdFds
                      /\ t.finfo[k].forward_xid % NFORWARD = k
                      /\ t.finfo[k].forward_xid # 0
    BY DEF SlotsSound
  <2>1. CASE k = j
    BY <1>2, <1>3, <1>4, <1>7, <1>9, <2>1
  <2>2. CASE k # j
    <3>1. k \in Live(s.finfo) /\ k \in Slots /\ t.finfo[k] = s.finfo[k]
      BY <1>9, <1>11, <2>2 DEF Live
    <3> QED
      BY <1>2, <3>1 DEF Sound, TableSound, SlotsSound
  <2> QED
    BY <2>1, <2>2
<1>13. OneEach(t.finfo)
  <2> SUFFICES ASSUME NEW k \in Live(t.finfo), NEW l \in Live(t.finfo),
                      t.finfo[k].call = t.finfo[l].call
               PROVE  k = l
    BY DEF OneEach
  <2>1. ASSUME NEW i \in Live(t.finfo), i # j
        PROVE  i \in Live(s.finfo) /\ t.finfo[i] = s.finfo[i] /\ t.finfo[i].call # call
    <3>1. i \in Live(s.finfo) /\ i \in Slots /\ t.finfo[i] = s.finfo[i]
      BY <1>9, <1>11, <2>1 DEF Live
    <3> QED
      BY <1>10, <3>1
  <2>2. t.finfo[j].call = call
    BY <1>2, <1>7, <1>9
  <2> QED
    BY <1>2, <2>1, <2>2 DEF Sound, TableSound, OneEach
<1>14. t.rmt = Cardinality(Live(t.finfo))
  <2>1. IsFiniteSet(Live(s.finfo)) /\ s.rmt = Cardinality(Live(s.finfo))
    BY <1>2, LiveFacts DEF Sound, TableSound
  <2> QED
    BY <1>8, <1>11, <2>1, FS_AddElement
<1>15. Sound(t)
  BY <1>2, <1>8, <1>9, <1>12, <1>13, <1>14 DEF Sound, TableSound
<1> QED
  BY <1>2, <1>8, <1>9, <1>15 DEF t, x, e

LEMMA NotForwardedFacts ==
    ASSUME Types, TableNow, XidInv, NEW call \in Calls,
           CallitNotForwarded(call), UNCHANGED <<fdset, now>>
    PROVE  TableNow' /\ Shrunk /\ XidInv' /\ lastxid' \in Xids /\ lastxid' % NFORWARD = 0
<1>1. ScannedTo(Scanned(call), call)
  BY ScannedFacts
<1>2. /\ FINFO' = Scanned(call).finfo /\ rpcb_rmtcalls' = Scanned(call).rmt
      /\ fdmax' = Scanned(call).max
  BY DEF CallitNotForwarded, SetTable
<1>3. TableSound(FINFO', rpcb_rmtcalls', fdmax')
  BY <1>1, <1>2 DEF ScannedTo, Sound
<1>4. TableNow'
  BY <1>3 DEF TableNow, FdsSound, TableSound, SlotsSound, OneEach, Live, Watched
<1>5. Shrunk
  BY <1>1, <1>2 DEF ScannedTo, Shrunk
<1>6. InFlight' = InFlight /\ forwards' = forwards
  BY InFlightSame DEF CallitNotForwarded
<1>7. CASE lastxid # 0
  <2>1. lastxid' = lastxid
    BY <1>7 DEF CallitNotForwarded
  <2> QED
    BY <1>4, <1>5, <1>6, <2>1, XidKept DEF Types
<1>8. CASE lastxid = 0
  <2>1. PICK seed \in StartTimes : lastxid' = (seed * NFORWARD) % XidMod
    BY <1>8 DEF CallitNotForwarded
  <2>2. seed \in Nat /\ NFORWARD \in Nat \ {0} /\ 0 \in Slots
    BY ForwardAssumption DEF Slots
  <2>3. seed * NFORWARD = NFORWARD * seed
    BY <2>2
  <2>4. lastxid' = NFORWARD * (seed % Turns) /\ seed % Turns \in 0 .. Turns - 1
    BY <2>1, <2>2, <2>3, Wrapped
  <2>5. NFORWARD * (seed % Turns) + 0 \in Xids /\ (NFORWARD * (seed % Turns) + 0) % NFORWARD = 0
    BY <2>2, <2>4, XidOfTurn
  <2>6. NFORWARD * (seed % Turns) + 0 = NFORWARD * (seed % Turns)
    <3>1. NFORWARD * (seed % Turns) \in Int
      BY <2>2, <2>4, XidSpace
    <3> QED
      BY <3>1
  <2>7. Turn(lastxid) = 0
    <3>1. 0 \in 0 .. Turns - 1 /\ NFORWARD * 0 + 0 = 0
      BY <2>2, XidSpace
    <3> QED
      BY <1>8, <2>2, <3>1, XidOfTurn
  <2>8. ~(forwards > 0)
    BY <2>7 DEF XidInv
  <2>9. XidInv'
    BY <1>6, <2>8 DEF XidInv
  <2> QED
    BY <1>4, <1>5, <2>4, <2>5, <2>6, <2>9
<1> QED
  BY <1>7, <1>8

\* A slot is left alone or freed, or given to the call: an empty one, an expired
\* one, or one that has waited longest when all are taken.
GivenUp(i) ==
    FINFO[i].active =>
       \/ now - FINFO[i].time > MAXTIME_OFF
       \/ /\ \A k \in Slots : FINFO[k].active
          /\ \A k \in Slots : FINFO[i].time <= FINFO[k].time

Given(call, x) ==
    \E j \in Slots :
       /\ GivenUp(j)
       /\ \A i \in Slots :
             IF i = j THEN FINFO'[i].forward_xid = x + j /\ FINFO'[i].call = call
             ELSE /\ FINFO'[i].call = FINFO[i].call
                  /\ FINFO'[i].forward_xid = FINFO[i].forward_xid
                  /\ FINFO'[i].active => FINFO[i].active
       /\ \/ atService' = atService
          \/ atService' = atService \cup {[xid |-> x + j, fd |-> FwdOf[call.fd], call |-> call]}

LEMMA ForwardedFacts ==
    ASSUME Types, TableNow, XidInv, NEW call \in Calls, NEW seed \in StartTimes,
           CallitForwarded(call, seed), UNCHANGED <<fdset, now>>
    PROVE  TableNow' /\ Given(call, NextXid(seed))
<1> DEFINE s == Scanned(call)
           x == NextXid(seed)
           t == Fill(s, call, x)
<1>1. ~s.dup /\ forwards < MaxForwards
  BY DEF CallitForwarded
<1>2. ScannedTo(s, call)
  BY ScannedFacts
<1>3. /\ s.j \in Slots /\ t \in Loops /\ Sound(t)
      /\ \A i \in Slots :
            t.finfo[i] = IF i = s.j
                         THEN [active |-> TRUE, call |-> call, time |-> now,
                               forward_xid |-> x + s.j, forward_fd |-> FwdOf[call.fd]]
                         ELSE s.finfo[i]
  BY <1>1, FilledFacts
<1>4. (x + s.j) % NFORWARD = s.j
  BY <1>1, <1>3, Freshness
<1>5. \/ /\ SetTable([finfo |-> t.finfo, rmt |-> t.rmt, max |-> t.max])
         /\ atService' = atService \cup {[xid |-> x + s.j, fd |-> FwdOf[call.fd], call |-> call]}
      \/ /\ SetTable([finfo |-> free_slot_by_xid(t, x + s.j).finfo,
                      rmt |-> free_slot_by_xid(t, x + s.j).rmt,
                      max |-> free_slot_by_xid(t, x + s.j).max])
         /\ atService' = atService
  BY DEF CallitForwarded
<1> HIDE DEF s, x, t
<1> DEFINE j == s.j
           u == free_slot_by_index(t, j)
<1>6. u \in Loops /\ Emptied(t, u, j)
  BY <1>3, FreedWhole DEF TableNow
<1>7. free_slot_by_xid(t, x + s.j) = u
  BY <1>4 DEF free_slot_by_xid
<1> HIDE DEF j, u
<1>8. PICK v \in {t, u} :
        /\ FINFO' = v.finfo /\ rpcb_rmtcalls' = v.rmt /\ fdmax' = v.max
        /\ \/ atService' = atService
           \/ atService' = atService \cup {[xid |-> x + j, fd |-> FwdOf[call.fd], call |-> call]}
  BY <1>5, <1>7 DEF SetTable, j
<1>9. Sound(v)
  BY <1>3, <1>6 DEF Emptied
<1>10. TableSound(FINFO', rpcb_rmtcalls', fdmax')
  BY <1>8, <1>9 DEF Sound
<1>11. TableNow'
  BY <1>10 DEF TableNow, FdsSound, TableSound, SlotsSound, OneEach, Live, Watched
<1>12. ASSUME NEW i \in Slots
       PROVE  /\ v.finfo[i].call = t.finfo[i].call
              /\ v.finfo[i].forward_xid = t.finfo[i].forward_xid
              /\ v.finfo[i].active => t.finfo[i].active
  <2>1. CASE v = t
    BY <2>1
  <2>2. CASE v = u
    <3>1. u.finfo = [t.finfo EXCEPT ![j].active = FALSE] /\ t.finfo \in [Slots -> FInfo]
      BY <1>3, <1>6 DEF Emptied, Loops
    <3>2. CASE i = j
      <4>1. u.finfo[i] = [t.finfo[i] EXCEPT !.active = FALSE] /\ t.finfo[i] \in FInfo
        BY <3>1, <3>2
      <4>2. u.finfo[i].call = t.finfo[i].call /\ u.finfo[i].forward_xid = t.finfo[i].forward_xid
            /\ ~u.finfo[i].active
        BY <4>1 DEF FInfo
      <4> QED
        BY <2>2, <4>2
    <3>3. CASE i # j
      BY <2>2, <3>1, <3>3
    <3> QED
      BY <3>2, <3>3
  <2> QED
    BY <2>1, <2>2
<1>13. ASSUME NEW i \in Slots
       PROVE  IF i = j THEN FINFO'[i].forward_xid = x + j /\ FINFO'[i].call = call
              ELSE /\ FINFO'[i].call = FINFO[i].call
                   /\ FINFO'[i].forward_xid = FINFO[i].forward_xid
                   /\ FINFO'[i].active => FINFO[i].active
  <2>1. CASE i = j
    BY <1>3, <1>8, <1>12, <2>1 DEF j
  <2>2. CASE i # j
    <3>1. t.finfo[i] = s.finfo[i]
      BY <1>3, <2>2 DEF j
    <3> QED
      BY <1>2, <1>8, <1>12, <2>2, <3>1 DEF ScannedTo
  <2> QED
    BY <2>1, <2>2
<1>14. GivenUp(j) /\ j \in Slots
  BY <1>1, <1>2, <1>3 DEF ScannedTo, GivenUp, j, s
<1>15. Given(call, x)
  BY <1>8, <1>13, <1>14 DEF Given
<1> QED
  BY <1>11, <1>15 DEF x

\* The new id is of no datagram under way, and the new datagram of no other slot.
LEMMA GivenXids ==
    ASSUME Types, TableNow, XidInv, TableNow', forwards < MaxForwards, forwards' = forwards + 1,
           NEW call \in Calls, NEW seed \in StartTimes, lastxid' = NextXid(seed),
           Given(call, NextXid(seed)), UNCHANGED inbox
    PROVE  /\ XidInv' /\ atService' \subseteq Msgs
           /\ \A i \in Live(FINFO'), m \in InFlight :
                 m.xid = FINFO'[i].forward_xid =>
                    FINFO[i].active /\ FINFO'[i].forward_xid = FINFO[i].forward_xid
<1> DEFINE x == NextXid(seed)
<1>1. PICK j \in Slots :
        /\ \A i \in Slots :
              IF i = j THEN FINFO'[i].forward_xid = x + j /\ FINFO'[i].call = call
              ELSE /\ FINFO'[i].call = FINFO[i].call
                   /\ FINFO'[i].forward_xid = FINFO[i].forward_xid
                   /\ FINFO'[i].active => FINFO[i].active
        /\ \/ atService' = atService
           \/ atService' = atService \cup {[xid |-> x + j, fd |-> FwdOf[call.fd], call |-> call]}
  BY DEF Given
<1>2. /\ Turn(x) \in 1 .. Turns - 2 /\ x + j \in Xids /\ Turn(x + j) = Turn(x)
      /\ (x + j) % NFORWARD = j
      /\ \A m \in InFlight : Turn(m.xid) # Turn(x) /\ Since(Turn(m.xid), Turn(x)) < forwards + 1
  BY Freshness
<1>3. lastxid' = x
  OBVIOUS
<1> HIDE DEF x
<1> DEFINE n == [xid |-> x + j, fd |-> FwdOf[call.fd], call |-> call]
<1>4. n \in Msgs /\ n.xid = x + j /\ n.call = call
  BY <1>2, ForwardAssumption DEF Msgs, FwdFds
<1>5. \A m \in InFlight' : m \in InFlight \/ m = n
  BY <1>1, InFlightIs
<1>6. forwards \in Nat /\ forwards' = forwards + 1 /\ forwards' > 0
  BY ForwardAssumption DEF Types
<1> HIDE DEF n
<1>7. ASSUME NEW m \in InFlight'
      PROVE  /\ Turn(m.xid) \in 1 .. Turns - 2
             /\ Since(Turn(m.xid), Turn(lastxid')) < forwards'
  <2>1. CASE m \in InFlight
    BY <1>2, <1>3, <1>6, <2>1 DEF XidInv
  <2>2. CASE m = n
    <3>1. Turn(m.xid) = Turn(x) /\ Since(Turn(x), Turn(x)) = 0
      <4>1. Turn(x) \in Int
        BY <1>2, XidSpace
      <4> QED
        BY <1>2, <1>4, <2>2, <4>1 DEF Since
    <3> QED
      BY <1>2, <1>3, <1>6, <3>1
  <2> QED
    BY <1>5, <2>1, <2>2
<1>8. ASSUME NEW i \in Live(FINFO'), NEW m \in InFlight, m.xid = FINFO'[i].forward_xid
      PROVE  /\ i # j /\ FINFO[i].active /\ FINFO'[i].forward_xid = FINFO[i].forward_xid
             /\ FINFO'[i].call = FINFO[i].call
  <2>1. i \in Slots /\ FINFO'[i].active
    BY DEF Live
  <2>2. Turn(m.xid) # Turn(x + j)
    BY <1>2
  <2>3. i # j
    BY <1>1, <1>8, <2>1, <2>2
  <2> QED
    BY <1>1, <2>1, <2>3
<1>9. ASSUME NEW i \in Live(FINFO'), NEW m \in InFlight', m.xid = FINFO'[i].forward_xid
      PROVE  m.call = FINFO'[i].call
  <2>1. CASE m \in InFlight
    <3>1. i \in Live(FINFO)
      BY <1>8, <1>9, <2>1 DEF Live
    <3> QED
      BY <1>8, <1>9, <2>1, <3>1 DEF XidInv
  <2>2. CASE m = n
    <3>1. i \in Slots /\ FINFO'[i].forward_xid % NFORWARD = i
      BY DEF TableNow, TableSound, SlotsSound, Live
    <3>2. i = j
      BY <1>2, <1>4, <1>9, <2>2, <3>1
    <3> QED
      BY <1>1, <1>4, <2>2, <3>2
  <2> QED
    BY <1>5, <2>1, <2>2
<1>10. atService' \subseteq Msgs
  BY <1>1, <1>4 DEF Types, n
<1>11. XidInv'
  <2>1. Turn(lastxid') \in 1 .. Turns - 2
    BY <1>2, <1>3
  <2>2. Live(FINFO)' = Live(FINFO')
    BY DEF Live
  <2>3. \A i \in Live(FINFO'), m \in InFlight' :
           m.xid = FINFO'[i].forward_xid => m.call = FINFO'[i].call
    BY <1>9
  <2> QED
    BY <1>6, <1>7, <2>1, <2>2, <2>3 DEF XidInv, Turn, Turns, Since
<1> QED
  BY <1>8, <1>10, <1>11

(* The steps.                                                               *)

LEMMA QueuedFacts ==
    ASSUME Types, NEW fd \in FwdFds, inbox[fd] # << >>
    PROVE  Head(inbox[fd]) \in InFlight /\ Head(inbox[fd]) \in Msgs
<1>1. inbox[fd] \in Seq(Msgs)
  BY DEF Types
<1>2. Head(inbox[fd]) = inbox[fd][1] /\ 1 \in 1 .. Len(inbox[fd]) /\ Head(inbox[fd]) \in Msgs
  BY <1>1
<1>3. Head(inbox[fd]) \in ToSet(inbox[fd])
  BY <1>1, <1>2 DEF ToSet
<1> QED
  BY <1>2, <1>3, InFlightIs

\* A step that leaves the datagrams, the counters alone, sends no answer and puts
\* nothing into the table.
Aside == UNCHANGED <<lastxid, atService, inbox, forwards>> /\ out' \in {out, None}

LEMMA AsideKeeps ==
    ASSUME IInv, Aside, TableNow', Shrunk,
           pc' \in {"poll", "replies", "getreq"}, revents' \subseteq AllFds, pending' \in 0 .. NFORWARD,
           pc' = "replies" => pending' > 0,
           \A fd \in revents' \cap FwdFds : inbox[fd] # << >>
    PROVE  IInv'
<1>1. Types'
  BY DEF IInv, Aside, Types
<1>2. XidInv'
  BY InFlightSame, XidKept DEF IInv, Aside
<1>3. LoopInv'
  BY DEF LoopInv, Aside
<1>4. AnswersGoToTheirCaller'
  BY DEF IInv, Aside, AnswersGoToTheirCaller
<1> QED
  BY <1>1, <1>2, <1>3, <1>4 DEF IInv

LEMMA InitKeeps ==
    ASSUME Init
    PROVE  IInv
<1>1. NFORWARD \in Nat \ {0} /\ XidMod \in Nat \ {0} /\ MaxTime \in Nat /\ MaxQueue \in Nat
      /\ MaxForwards \in Nat
  BY ForwardAssumption
<1>2. 0 \in Xids /\ 0 % NFORWARD = 0
  <2>1. NFORWARD * 0 + 0 = 0 /\ 0 \in 0 .. NFORWARD - 1
    BY <1>1
  <2> QED
    BY <1>1, <2>1, Digits DEF Xids
<1>3. FINFO \in [Slots -> FInfo] /\ Live(FINFO) = {} /\ \A i \in Slots : ~FINFO[i].active
  <2>1. [active |-> FALSE, call |-> None, forward_xid |-> 0, forward_fd |-> 0, time |-> 0] \in FInfo
    BY <1>1, <1>2 DEF FInfo
  <2> QED
    BY <2>1 DEF Init, Live
<1>4. InFlight = {}
  <2>1. \A fd \in FwdFds : inbox[fd] = << >>
    BY DEF Init
  <2>2. \A fd \in FwdFds : ToSet(inbox[fd]) = {}
    BY <2>1 DEF ToSet
  <2>3. atService = {}
    BY DEF Init
  <2> QED
    BY <2>2, <2>3, InFlightIs
<1>5. fdset = AllFds \ ConnFds /\ fdset # {} /\ fdset \subseteq Nat
  BY ForwardAssumption DEF Init
<1>6. PICK top \in fdset : /\ \A g \in fdset : g <= top
                           /\ top = CHOOSE m \in fdset : \A g \in fdset : g <= m
  <2>1. PICK max \in AllFds : \A fd \in AllFds : fd <= max
    BY ForwardAssumption
  <2>2. max \in Nat
    BY ForwardAssumption
  <2>3. \A g \in fdset : g <= max
    BY <1>5, <2>1
  <2>4. max \in Int
    BY <2>2
  <2>5. \E m \in fdset : \A g \in fdset : g <= m
    BY <1>5, <2>3, <2>4, GreatestMember
  <2> QED
    BY <2>5
<1>7. fdmax = svc_fdset_sanitize(top, fdset)
  BY <1>6 DEF Init
<1>8. top \in Nat
  BY <1>5
<1>9. top \in Int /\ fdset \subseteq AllFds
  BY <1>5, <1>8
<1>10. fdmax \in Int /\ \A fd \in fdset : fd <= fdmax
  BY <1>6, <1>7, <1>9, SanitizeFacts
<1>11. \A l \in ListenFds : l \in fdset
  BY <1>5, ForwardAssumption DEF AllFds
<1>12. TableNow
  <2>1. SlotsSound(FINFO) /\ OneEach(FINFO)
    BY <1>3 DEF SlotsSound, OneEach
  <2>2. rpcb_rmtcalls = Cardinality(Live(FINFO))
    BY <1>3, FS_EmptySet DEF Init
  <2>3. Watched(fdmax)
    BY <1>10, <1>11 DEF Watched
  <2>4. FdsSound
    BY <1>5 DEF FdsSound
  <2>5. now \in 0 .. MaxTime
    BY <1>1 DEF Init
  <2> QED
    BY <1>3, <1>10, <2>1, <2>2, <2>3, <2>4, <2>5 DEF TableNow, TableSound
<1>13. Types
  <2>1. inbox \in [FwdFds -> Seq(Msgs)] /\ \A fd \in FwdFds : Len(inbox[fd]) <= MaxQueue
    BY <1>1 DEF Init
  <2> QED
    BY <1>1, <1>2, <2>1 DEF Init, Types
<1>14. XidInv /\ LoopInv /\ AnswersGoToTheirCaller
  BY <1>3, <1>4 DEF Init, XidInv, LoopInv, AnswersGoToTheirCaller
<1> QED
  BY <1>12, <1>13, <1>14 DEF IInv

LEMMA PollKeeps ==
    ASSUME IInv, Poll
    PROVE  IInv' /\ Shrunk
<1>1. TableNow' /\ Shrunk
  BY SanitizeFd DEF Poll, IInv
<1>2. revents' \subseteq AllFds /\ \A fd \in revents' \cap FwdFds : inbox[fd] # << >>
  BY DEF Poll, Polled, Replies, IInv, TableNow, FdsSound
<1>3. rpcb_rmtcalls \in 0 .. NFORWARD /\ (rpcb_rmtcalls = 0 => Live(FINFO) = {})
  BY LiveFacts DEF IInv, TableNow, TableSound
<1>a. pending' \in 0 .. NFORWARD /\ pc' \in {"replies", "getreq"}
      /\ (pc' = "replies" => pending' > 0)
  BY <1>3, ForwardAssumption DEF Poll
<1>4. Types'
  <2>1. UNCHANGED <<lastxid, atService, inbox, forwards>> /\ out' = None
    BY DEF Poll
  <2> QED
    BY <1>2, <1>a, <2>1 DEF IInv, Types
<1>5. XidInv'
  BY <1>1, InFlightSame, XidKept DEF Poll, IInv
<1>6. LoopInv'
  BY <1>2, <1>a DEF Poll, LoopInv
<1>7. AnswersGoToTheirCaller'
  BY DEF Poll, AnswersGoToTheirCaller
<1> QED
  BY <1>1, <1>4, <1>5, <1>6, <1>7 DEF IInv

LEMMA GetreqDoneKeeps ==
    ASSUME IInv, GetreqDone
    PROVE  IInv' /\ Shrunk
<1>1. TableNow' /\ Shrunk
  BY SameTable DEF GetreqDone, IInv, TableNow
<1> QED
  BY <1>1, AsideKeeps DEF GetreqDone, Aside, IInv, Types, LoopInv

LEMMA CleanIdleKeeps ==
    ASSUME IInv, CleanIdle
    PROVE  IInv' /\ Shrunk
<1>1. TableNow' /\ Shrunk
  <2>1. CASE UNCHANGED <<fdset, fdmax>>
    BY <2>1, SameTable DEF CleanIdle, IInv, TableNow
  <2>2. CASE \E fd \in fdset \cap ConnFds : svc_fdset_clr(fd)
    BY <2>2, ClearFd DEF CleanIdle, IInv
  <2> QED
    BY <2>1, <2>2 DEF CleanIdle
<1> QED
  BY <1>1, AsideKeeps DEF CleanIdle, Aside, IInv, Types, LoopInv

LEMMA TickKeeps ==
    ASSUME IInv, Tick
    PROVE  IInv' /\ Shrunk
<1>1. now' \in 0 .. MaxTime
  BY ForwardAssumption DEF Tick, IInv, TableNow
<1>2. TableNow' /\ Shrunk
  BY <1>1, SameTable DEF Tick, IInv
<1> QED
  BY <1>2, AsideKeeps DEF Tick, Aside, IInv, Types, LoopInv

LEMMA ConnectionKeeps ==
    ASSUME IInv, NEW fd \in ListenFds \cup ConnFds, Connection(fd)
    PROVE  IInv' /\ Shrunk
<1>1. TableNow' /\ Shrunk
  <2>1. CASE UNCHANGED <<fdset, fdmax>>
    BY <2>1, SameTable DEF Connection, IInv, TableNow
  <2>2. CASE \E c \in ConnFds \ fdset : svc_fdset_set(c)
    BY <2>2, SetFd DEF Connection, IInv
  <2>3. CASE fd \in ConnFds /\ svc_fdset_clr(fd)
    BY <2>3, ClearFd DEF Connection, IInv
  <2> QED
    BY <2>1, <2>2, <2>3 DEF Connection
<1>2. revents' \subseteq revents
  BY DEF Connection
<1> QED
  BY <1>1, <1>2, AsideKeeps DEF Connection, Aside, IInv, Types, LoopInv

\* A step of check_rmtcalls.
LEMMA HandledKeeps ==
    ASSUME IInv, NEW fd \in FwdFds, Handled(fd), TableNow', Shrunk,
           inbox' \in [FwdFds -> Seq(Msgs)],
           \A g \in FwdFds : Len(inbox'[g]) <= MaxQueue,
           \A g \in FwdFds : g # fd => inbox'[g] = inbox[g],
           InFlight' \subseteq InFlight,
           out' \in [to : Calls, of : Calls \cup {Error}] \cup {None},
           AnswersGoToTheirCaller'
    PROVE  IInv'
<1>1. /\ pc = "replies" /\ revents' = revents \ {fd}
      /\ \/ pc' = "getreq" /\ pending' = 0
         \/ pc' = "replies" /\ pending # 1 /\ pending' = pending - 1
      /\ UNCHANGED <<lastxid, fdset, atService, now, forwards>>
  BY DEF Handled
<1>2. pending \in 0 .. NFORWARD /\ pending > 0 /\ NFORWARD \in Nat
  BY <1>1, ForwardAssumption DEF IInv, Types, LoopInv
<1>3. pending' \in 0 .. NFORWARD /\ (pc' = "replies" => pending' > 0)
  BY <1>1, <1>2
<1>4. Types'
  BY <1>1, <1>3 DEF IInv, Types
<1>5. XidInv'
  BY <1>1, XidKept DEF IInv
<1>6. LoopInv'
  BY <1>1, <1>3 DEF LoopInv, IInv
<1> QED
  BY <1>4, <1>5, <1>6 DEF IInv

\* An error reply names no request.
LEMMA ComplainFacts ==
    ASSUME IInv, NEW call \in Calls, Complain(call)
    PROVE  /\ out' \in [to : Calls, of : Calls \cup {Error}] \cup {None}
           /\ AnswersGoToTheirCaller'
<1>1. CASE out' = None
  BY <1>1 DEF AnswersGoToTheirCaller
<1>2. CASE out' = [to |-> call, of |-> Error]
  <2>1. out'.of = Error /\ out' \in [to : Calls, of : Calls \cup {Error}]
    BY <1>2
  <2> QED
    BY <2>1 DEF AnswersGoToTheirCaller
<1> QED
  BY <1>1, <1>2 DEF Complain

LEMMA ReplyForwardedKeeps ==
    ASSUME IInv, NEW fd \in FwdFds, ReplyForwarded(fd)
    PROVE  IInv' /\ Shrunk
<1> DEFINE m == Head(inbox[fd])
<1>1. Handled(fd) /\ Received(fd) /\ Done(m.xid) /\ inbox[fd] # << >>
      /\ UNCHANGED <<fdset, now, atService>>
  BY DEF ReplyForwarded, Handled, IInv, LoopInv
<1>2. m \in InFlight /\ m \in Msgs /\ m.xid \in Xids /\ m.call \in Calls
  <2>1. m \in InFlight /\ m \in Msgs
    BY <1>1, QueuedFacts DEF IInv
  <2> HIDE DEF m
  <2> QED
    BY <2>1 DEF Msgs
<1>3. PICK i \in forward_find(m.xid) :
         out' = [to |-> FINFO[i].call, of |-> m.call] \/ Complain(FINFO[i].call)
  BY DEF ReplyForwarded
<1>4. /\ inbox' \in [FwdFds -> Seq(Msgs)] /\ InFlight' \subseteq InFlight
      /\ \A g \in FwdFds : Len(inbox'[g]) <= MaxQueue
      /\ \A g \in FwdFds : g # fd => inbox'[g] = inbox[g]
  BY <1>1, ReceivedFacts DEF IInv
<1> HIDE DEF m
<1>5. i \in Live(FINFO) /\ FINFO[i].forward_xid = m.xid /\ FINFO[i].call \in Calls
  BY DEF forward_find, Live, IInv, TableNow, TableSound, SlotsSound
<1>6. m.call = FINFO[i].call
  BY <1>2, <1>5 DEF IInv, XidInv
<1>7. /\ out' \in [to : Calls, of : Calls \cup {Error}] \cup {None}
      /\ AnswersGoToTheirCaller'
  <2>1. CASE out' = [to |-> FINFO[i].call, of |-> m.call]
    <3>1. out'.to = out'.of /\ out' \in [to : Calls, of : Calls \cup {Error}]
      BY <1>2, <1>5, <1>6, <2>1
    <3> QED
      BY <3>1 DEF AnswersGoToTheirCaller
  <2>2. CASE Complain(FINFO[i].call)
    BY <1>5, <2>2, ComplainFacts
  <2> QED
    BY <1>3, <2>1, <2>2
<1>8. TableNow' /\ Shrunk
  BY <1>1, <1>2, DoneFacts DEF IInv
<1> QED
  BY <1>1, <1>4, <1>7, <1>8, HandledKeeps

LEMMA ReplyUnknownKeeps ==
    ASSUME IInv, NEW fd \in FwdFds, ReplyUnknown(fd)
    PROVE  IInv' /\ Shrunk
<1> DEFINE m == Head(inbox[fd])
<1>1. Handled(fd) /\ Received(fd) /\ Done(m.xid) /\ out' = None
      /\ inbox[fd] # << >> /\ UNCHANGED <<fdset, now, atService>>
  BY DEF ReplyUnknown, Handled, IInv, LoopInv
<1>2. m.xid \in Xids
  <2>1. m \in Msgs
    BY <1>1, QueuedFacts DEF IInv
  <2> HIDE DEF m
  <2> QED
    BY <2>1 DEF Msgs
<1>3. /\ inbox' \in [FwdFds -> Seq(Msgs)] /\ InFlight' \subseteq InFlight
      /\ \A g \in FwdFds : Len(inbox'[g]) <= MaxQueue
      /\ \A g \in FwdFds : g # fd => inbox'[g] = inbox[g]
  BY <1>1, ReceivedFacts DEF IInv
<1> HIDE DEF m
<1>4. TableNow' /\ Shrunk
  BY <1>1, <1>2, DoneFacts DEF IInv
<1>5. /\ out' \in [to : Calls, of : Calls \cup {Error}] \cup {None}
      /\ AnswersGoToTheirCaller'
  BY <1>1 DEF AnswersGoToTheirCaller
<1> QED
  BY <1>1, <1>3, <1>4, <1>5, HandledKeeps

LEMMA ReplyFailsKeeps ==
    ASSUME IInv, NEW fd \in FwdFds, ReplyFails(fd)
    PROVE  IInv' /\ Shrunk
<1>1. PICK xid \in Xids : Done(xid)
  BY DEF ReplyFails
<1>2. Handled(fd) /\ UNCHANGED <<fdset, now, atService, inbox>> /\ out' = None
  BY DEF ReplyFails, Handled
<1>3. TableNow' /\ Shrunk
  BY <1>1, <1>2, DoneFacts DEF IInv
<1>4. InFlight' = InFlight
  BY <1>2, InFlightSame
<1>5. /\ inbox' \in [FwdFds -> Seq(Msgs)] /\ \A g \in FwdFds : Len(inbox'[g]) <= MaxQueue
      /\ out' \in [to : Calls, of : Calls \cup {Error}] \cup {None}
      /\ AnswersGoToTheirCaller'
  BY <1>2 DEF IInv, Types, AnswersGoToTheirCaller
<1> QED
  BY <1>2, <1>3, <1>4, <1>5, HandledKeeps

LEMMA NotACallKeeps ==
    ASSUME IInv, NEW fd \in FwdFds, NotACall(fd)
    PROVE  IInv' /\ Shrunk
<1>1. /\ pc = "getreq" /\ fd \in revents /\ revents' = revents \ {fd} /\ Received(fd)
      /\ inbox[fd] # << >>
      /\ UNCHANGED <<FINFO, rpcb_rmtcalls, lastxid, fdset, fdmax, pc, pending, atService,
                     now, forwards>>
      /\ out' = None
  BY DEF NotACall, Keep, FirstReady, IInv, LoopInv
<1>2. /\ inbox' \in [FwdFds -> Seq(Msgs)] /\ InFlight' \subseteq InFlight
      /\ \A g \in FwdFds : Len(inbox'[g]) <= MaxQueue
      /\ \A g \in FwdFds : g # fd => inbox'[g] = inbox[g]
  BY <1>1, ReceivedFacts DEF IInv
<1>3. TableNow' /\ Shrunk
  BY <1>1, SameTable DEF IInv, TableNow
<1>4. Types'
  BY <1>1, <1>2 DEF IInv, Types
<1>5. XidInv'
  BY <1>1, <1>2, <1>3, XidKept DEF IInv
<1>6. LoopInv'
  BY <1>1, <1>2 DEF IInv, LoopInv
<1>7. AnswersGoToTheirCaller'
  BY <1>1 DEF AnswersGoToTheirCaller
<1> QED
  BY <1>3, <1>4, <1>5, <1>6, <1>7 DEF IInv

LEMMA ServiceRepliesKeeps ==
    ASSUME IInv, NEW m \in atService, ServiceReplies(m)
    PROVE  IInv' /\ Shrunk
<1>1. /\ Len(inbox[m.fd]) < MaxQueue /\ inbox' = [inbox EXCEPT ![m.fd] = Append(@, m)]
      /\ atService' \in {atService, atService \ {m}}
      /\ UNCHANGED <<FINFO, rpcb_rmtcalls, lastxid, fdset, fdmax, pc, revents, pending,
                     now, forwards>>
      /\ out' = None
  BY DEF ServiceReplies
<1>2. /\ atService' \subseteq Msgs /\ InFlight' \subseteq InFlight
      /\ inbox' \in [FwdFds -> Seq(Msgs)]
      /\ \A g \in FwdFds : Len(inbox'[g]) <= MaxQueue
      /\ \A g \in FwdFds : inbox[g] # << >> =>
            inbox'[g] # << >> /\ Head(inbox'[g]) = Head(inbox[g])
  BY <1>1, SentFacts DEF IInv
<1>3. TableNow' /\ Shrunk
  BY <1>1, SameTable DEF IInv, TableNow
<1>4. Types'
  BY <1>1, <1>2 DEF IInv, Types
<1>5. XidInv'
  BY <1>1, <1>2, <1>3, XidKept DEF IInv
<1>6. LoopInv'
  BY <1>1, <1>2 DEF IInv, LoopInv
<1>7. AnswersGoToTheirCaller'
  BY <1>1 DEF AnswersGoToTheirCaller
<1> QED
  BY <1>3, <1>4, <1>5, <1>6, <1>7 DEF IInv

LEMMA CallitKeeps ==
    ASSUME IInv, NEW call \in Calls, rpcbproc_callit_com(call)
    PROVE  IInv' /\ (Shrunk \/ \E x \in Nat : Given(call, x))
<1>1. pc = "getreq" /\ revents' = revents \ {call.fd} /\ UNCHANGED <<pc, pending, fdset, now>>
  BY DEF rpcbproc_callit_com, Keep
<1>2. CASE CallitRefused(call)
  <2>1. UNCHANGED <<FINFO, rpcb_rmtcalls, lastxid, fdmax, atService, inbox, forwards>>
        /\ Complain(call)
    BY <1>2 DEF CallitRefused
  <2>2. TableNow' /\ Shrunk
    BY <1>1, <2>1, SameTable DEF IInv, TableNow
  <2>3. /\ out' \in [to : Calls, of : Calls \cup {Error}] \cup {None}
        /\ AnswersGoToTheirCaller'
    BY <2>1, ComplainFacts
  <2>4. Types'
    BY <1>1, <2>1, <2>3 DEF IInv, Types
  <2>5. XidInv'
    BY <2>1, <2>2, InFlightSame, XidKept DEF IInv
  <2>6. LoopInv'
    BY <1>1, <2>1 DEF IInv, LoopInv
  <2> QED
    BY <2>2, <2>3, <2>4, <2>5, <2>6 DEF IInv
<1>3. CASE CallitNotForwarded(call)
  <2>1. UNCHANGED <<atService, inbox, forwards>> /\ out' = None
    BY <1>3 DEF CallitNotForwarded
  <2>2. TableNow' /\ Shrunk /\ XidInv' /\ lastxid' \in Xids /\ lastxid' % NFORWARD = 0
    BY <1>1, <1>3, NotForwardedFacts DEF IInv
  <2>3. Types'
    BY <1>1, <2>1, <2>2 DEF IInv, Types
  <2>4. LoopInv'
    BY <1>1, <2>1 DEF IInv, LoopInv
  <2>5. AnswersGoToTheirCaller'
    BY <2>1 DEF AnswersGoToTheirCaller
  <2> QED
    BY <2>2, <2>3, <2>4, <2>5 DEF IInv
<1>4. ASSUME NEW seed \in StartTimes, CallitForwarded(call, seed)
      PROVE  IInv' /\ \E x \in Nat : Given(call, x)
  <2>1. /\ forwards < MaxForwards /\ forwards' = forwards + 1 /\ lastxid' = NextXid(seed)
        /\ UNCHANGED inbox
        /\ out' = None \/ Complain(call)
    BY <1>4 DEF CallitForwarded
  <2>2. TableNow' /\ Given(call, NextXid(seed))
    BY <1>1, <1>4, ForwardedFacts DEF IInv
  <2>3. /\ XidInv' /\ atService' \subseteq Msgs
        /\ \A i \in Live(FINFO'), m \in InFlight :
              m.xid = FINFO'[i].forward_xid =>
                 FINFO[i].active /\ FINFO'[i].forward_xid = FINFO[i].forward_xid
    BY <2>1, <2>2, GivenXids DEF IInv
  <2>4. lastxid' \in Xids /\ lastxid' % NFORWARD = 0 /\ lastxid' \in Nat
    <3>1. lastxid' \in Xids /\ lastxid' % NFORWARD = 0
      BY <2>1, Freshness DEF IInv
    <3>2. lastxid' \in 0 .. XidMod - 1
      BY <3>1 DEF Xids
    <3>3. lastxid' \in Nat
      BY <3>2, ForwardAssumption
    <3> QED
      BY <3>1, <3>3
  <2>5. /\ out' \in [to : Calls, of : Calls \cup {Error}] \cup {None}
        /\ AnswersGoToTheirCaller'
    BY <2>1, ComplainFacts DEF IInv, Types, AnswersGoToTheirCaller
  <2>6. forwards' \in 0 .. MaxForwards
    BY <2>1, ForwardAssumption DEF IInv, Types
  <2>7. Types'
    BY <1>1, <2>1, <2>3, <2>4, <2>5, <2>6 DEF IInv, Types
  <2>8. LoopInv'
    BY <1>1, <2>1 DEF IInv, LoopInv
  <2> QED
    BY <2>1, <2>2, <2>3, <2>4, <2>5, <2>7, <2>8 DEF IInv
<1> QED
  BY <1>2, <1>3, <1>4 DEF rpcbproc_callit_com

LEMMA StutterKeeps ==
    ASSUME IInv, UNCHANGED vars
    PROVE  IInv'
<1>1. UNCHANGED <<FINFO, rpcb_rmtcalls, lastxid, fdset, fdmax, pc, revents, pending,
                  atService, inbox, out, now, forwards>>
  BY DEF vars
<1>2. TableNow' /\ Shrunk
  BY <1>1, SameTable DEF IInv, TableNow
<1> QED
  BY <1>1, <1>2, AsideKeeps DEF Aside, IInv, Types, LoopInv

LEMMA NextKeeps ==
    ASSUME IInv, [Next]_vars
    PROVE  IInv'
<1>1. CASE Poll
  BY <1>1, PollKeeps
<1>2. CASE GetreqDone
  BY <1>2, GetreqDoneKeeps
<1>3. CASE CleanIdle
  BY <1>3, CleanIdleKeeps
<1>4. CASE Tick
  BY <1>4, TickKeeps
<1>5. ASSUME NEW fd \in ListenFds \cup ConnFds, Connection(fd) PROVE IInv'
  BY <1>5, ConnectionKeeps
<1>6. ASSUME NEW fd \in FwdFds,
             ReplyForwarded(fd) \/ ReplyUnknown(fd) \/ ReplyFails(fd) \/ NotACall(fd)
      PROVE  IInv'
  BY <1>6, ReplyForwardedKeeps, ReplyUnknownKeeps, ReplyFailsKeeps, NotACallKeeps
<1>7. ASSUME NEW call \in Calls, rpcbproc_callit_com(call) PROVE IInv'
  BY <1>7, CallitKeeps
<1>8. ASSUME NEW m \in atService, ServiceReplies(m) PROVE IInv'
  BY <1>8, ServiceRepliesKeeps
<1>9. CASE UNCHANGED vars
  BY <1>9, StutterKeeps
<1> QED
  BY <1>1, <1>2, <1>3, <1>4, <1>5, <1>6, <1>7, <1>8, <1>9 DEF Next

(* The count of check_rmtcalls.                                             *)

\* At "done:" the slot found for the reply is one pending call less.
LEMMA FoundFreed ==
    ASSUME TableNow, NEW xid \in Xids, Done(xid), NEW i \in forward_find(xid)
    PROVE  rpcb_rmtcalls' = rpcb_rmtcalls - 1
<1>1. i = xid % NFORWARD /\ FINFO[i].active /\ FINFO[i].forward_xid = xid /\ i \in Live(FINFO)
  BY DEF forward_find, Live
<1>2. xid # 0
  BY <1>1 DEF TableNow, TableSound, SlotsSound
<1>3. rpcb_rmtcalls' = free_slot_by_index(Table, i).rmt
  BY <1>1, <1>2 DEF Done, SetTable, free_slot_by_xid
<1> QED
  BY <1>1, <1>3 DEF free_slot_by_index, Table

\* A step beside the replies.
LEMMA BesideCount ==
    ASSUME CountInv, UNCHANGED <<rpcb_rmtcalls, pending, wasted>>, Shrunk,
           pc' \in {pc, "poll"}, revents' \subseteq revents,
           \A fd \in revents' \cap FwdFds : Head(inbox'[fd]) = Head(inbox[fd])
    PROVE  CountInv'
<1>1. Live(FINFO') \subseteq Live(FINFO)
  BY DEF Shrunk, Live
<1>2. \A i \in Live(FINFO') : FINFO'[i].forward_xid = FINFO[i].forward_xid
  BY DEF Shrunk, Live
<1> QED
  BY <1>1, <1>2 DEF CountInv

LEMMA PollCount ==
    ASSUME IInv, CountInv, Poll
    PROVE  CountInv'
<1>1. /\ IF rpcb_rmtcalls = 0 \/ revents' \cap FwdFds = {} THEN pc' = "getreq"
         ELSE pc' = "replies" /\ pending' = rpcb_rmtcalls
      /\ UNCHANGED <<FINFO, rpcb_rmtcalls, wasted>>
  BY DEF Poll
<1>2. rpcb_rmtcalls = 0 => Live(FINFO) = {}
  BY LiveFacts DEF IInv, TableNow, TableSound
<1> QED
  BY <1>1, <1>2 DEF CountInv

LEMMA HandledCount ==
    ASSUME IInv, CountInv, NEW fd \in FwdFds, Handled(fd),
           \/ Wasted(TRUE)
           \/ Wasted(FALSE) /\ rpcb_rmtcalls' = rpcb_rmtcalls - 1,
           TableNow'
    PROVE  CountInv'
<1>1. /\ pc = "replies"
      /\ IF pending = 1 \/ revents' \cap FwdFds = {} THEN pc' = "getreq"
         ELSE pc' = "replies" /\ pending' = pending - 1
  BY DEF Handled
<1>2. wasted' \in BOOLEAN
  BY DEF Wasted
<1>3. CASE revents' \cap FwdFds = {}
  BY <1>1, <1>2, <1>3 DEF CountInv
<1>4. CASE revents' \cap FwdFds # {} /\ wasted'
  BY <1>2, <1>4 DEF CountInv
<1>5. CASE revents' \cap FwdFds # {} /\ ~wasted'
  <2>1. ~wasted /\ rpcb_rmtcalls' = rpcb_rmtcalls - 1
    BY <1>5 DEF Wasted
  <2>2. pending = rpcb_rmtcalls /\ pending \in Int
    BY <1>1, <2>1 DEF CountInv, IInv, Types
  <2>3. CASE pending = 1
    <3>1. rpcb_rmtcalls' = 0
      BY <2>1, <2>2, <2>3
    <3>2. Live(FINFO') = {}
      BY <3>1, LiveFacts DEF TableNow, TableSound
    <3> QED
      BY <1>1, <1>2, <2>3, <3>2 DEF CountInv
  <2>4. CASE pending # 1
    <3>1. pc' = "replies" /\ pending' = pending - 1
      BY <1>1, <1>5, <2>4
    <3> QED
      BY <1>2, <2>1, <2>2, <3>1 DEF CountInv
  <2> QED
    BY <2>3, <2>4
<1> QED
  BY <1>2, <1>3, <1>4, <1>5

LEMMA ReplyForwardedCount ==
    ASSUME IInv, CountInv, NEW fd \in FwdFds, ReplyForwarded(fd)
    PROVE  CountInv'
<1> DEFINE m == Head(inbox[fd])
<1>1. Handled(fd) /\ Wasted(FALSE) /\ Done(m.xid) /\ forward_find(m.xid) # {}
      /\ inbox[fd] # << >>
  BY DEF ReplyForwarded, Handled, IInv, LoopInv
<1>2. m.xid \in Xids
  <2>1. m \in Msgs
    BY <1>1, QueuedFacts DEF IInv
  <2> HIDE DEF m
  <2> QED
    BY <2>1 DEF Msgs
<1> HIDE DEF m
<1>3. rpcb_rmtcalls' = rpcb_rmtcalls - 1
  BY <1>1, <1>2, FoundFreed DEF IInv
<1>4. TableNow'
  BY ReplyForwardedKeeps DEF IInv
<1> QED
  BY <1>1, <1>3, <1>4, HandledCount

LEMMA NotACallCount ==
    ASSUME IInv, CountInv, NEW fd \in FwdFds, NotACall(fd)
    PROVE  CountInv'
<1>1. /\ pc = "getreq" /\ revents' = revents \ {fd} /\ Wasted(FALSE)
      /\ UNCHANGED <<FINFO, rpcb_rmtcalls, pc, pending>>
      /\ inbox' = [inbox EXCEPT ![fd] = Tail(@)]
  BY DEF NotACall, Keep, Received
<1>2. \A g \in revents' \cap FwdFds : inbox'[g] = inbox[g]
  BY <1>1 DEF IInv, Types
<1>3. wasted' \in BOOLEAN /\ (~wasted' => ~wasted \/ revents' \cap FwdFds = {})
  BY <1>1 DEF Wasted
<1> QED
  BY <1>1, <1>2, <1>3 DEF CountInv

LEMMA CallitCount ==
    ASSUME IInv, CountInv, NEW call \in Calls, rpcbproc_callit_com(call)
    PROVE  CountInv'
<1>1. /\ pc = "getreq" /\ revents' = revents \ {call.fd}
      /\ UNCHANGED <<pc, pending, fdset, now, wasted>>
  BY DEF rpcbproc_callit_com, Keep
<1>2. UNCHANGED inbox
  BY DEF rpcbproc_callit_com, CallitRefused, CallitNotForwarded, CallitForwarded
<1>3. ASSUME Shrunk PROVE CountInv'
  <2>1. Live(FINFO') \subseteq Live(FINFO)
    BY <1>3 DEF Shrunk, Live
  <2>2. \A i \in Live(FINFO') : FINFO'[i].forward_xid = FINFO[i].forward_xid
    BY <1>3 DEF Shrunk, Live
  <2> QED
    BY <1>1, <1>2, <2>1, <2>2 DEF CountInv
<1>4. CASE CallitRefused(call)
  <2>1. Shrunk
    BY <1>4 DEF CallitRefused, Shrunk
  <2> QED
    BY <1>3, <2>1
<1>5. CASE CallitNotForwarded(call)
  BY <1>1, <1>3, <1>5, NotForwardedFacts DEF IInv
<1>6. ASSUME NEW seed \in StartTimes, CallitForwarded(call, seed)
      PROVE  CountInv'
  <2>1. /\ forwards < MaxForwards /\ forwards' = forwards + 1 /\ lastxid' = NextXid(seed)
    BY <1>6 DEF CallitForwarded
  <2>2. TableNow' /\ Given(call, NextXid(seed))
    BY <1>1, <1>6, ForwardedFacts DEF IInv
  <2>3. \A i \in Live(FINFO'), m \in InFlight :
           m.xid = FINFO'[i].forward_xid =>
              FINFO[i].active /\ FINFO'[i].forward_xid = FINFO[i].forward_xid
    BY <1>2, <2>1, <2>2, GivenXids DEF IInv
  <2>4. \A fd \in revents' \cap FwdFds : Head(inbox[fd]) \in InFlight
    BY <1>1, QueuedFacts DEF IInv, LoopInv
  <2>5. ASSUME ~wasted, NEW fd \in revents' \cap FwdFds, NEW i \in Live(FINFO'),
               FINFO'[i].forward_xid = Head(inbox'[fd]).xid
        PROVE  FALSE
    <3>1. Head(inbox[fd]) \in InFlight /\ Head(inbox[fd]).xid = FINFO'[i].forward_xid
      BY <1>2, <2>4, <2>5
    <3>2. FINFO[i].active /\ FINFO[i].forward_xid = Head(inbox[fd]).xid
      BY <2>3, <3>1
    <3>3. i \in Live(FINFO) /\ fd \in revents \cap FwdFds
      BY <1>1, <3>2 DEF Live
    <3> QED
      BY <1>1, <2>5, <3>2, <3>3 DEF CountInv
  <2> QED
    BY <1>1, <2>5 DEF CountInv
<1> QED
  BY <1>4, <1>5, <1>6 DEF rpcbproc_callit_com

LEMMA CountKept ==
    ASSUME IInv, CountInv, [Next]_vars
    PROVE  CountInv'
<1>1. CASE Poll
  BY <1>1, PollCount
<1>2. CASE GetreqDone \/ CleanIdle \/ Tick \/ UNCHANGED vars
  <2>1. /\ UNCHANGED <<FINFO, rpcb_rmtcalls, pending, revents, inbox, wasted>>
        /\ pc' \in {pc, "poll"}
    BY <1>2 DEF GetreqDone, CleanIdle, Tick, vars
  <2> QED
    BY <2>1, BesideCount DEF Shrunk
<1>3. ASSUME NEW fd \in ListenFds \cup ConnFds, Connection(fd) PROVE CountInv'
  BY <1>3, BesideCount DEF Connection, Shrunk
<1>4. ASSUME NEW fd \in FwdFds, ReplyForwarded(fd) PROVE CountInv'
  BY <1>4, ReplyForwardedCount
<1>5. ASSUME NEW fd \in FwdFds, ReplyUnknown(fd) \/ ReplyFails(fd) PROVE CountInv'
  <2>1. Handled(fd) /\ Wasted(TRUE)
    BY <1>5 DEF ReplyUnknown, ReplyFails
  <2>2. TableNow'
    BY <1>5, ReplyUnknownKeeps, ReplyFailsKeeps DEF IInv
  <2> QED
    BY <2>1, <2>2, HandledCount
<1>6. ASSUME NEW fd \in FwdFds, NotACall(fd) PROVE CountInv'
  BY <1>6, NotACallCount
<1>7. ASSUME NEW call \in Calls, rpcbproc_callit_com(call) PROVE CountInv'
  BY <1>7, CallitCount
<1>8. ASSUME NEW m \in atService, ServiceReplies(m) PROVE CountInv'
  <2>1. /\ UNCHANGED <<FINFO, rpcb_rmtcalls, pending, revents, pc, wasted>>
        /\ Len(inbox[m.fd]) < MaxQueue /\ inbox' = [inbox EXCEPT ![m.fd] = Append(@, m)]
        /\ atService' \in {atService, atService \ {m}}
    BY <1>8 DEF ServiceReplies
  <2>2. \A fd \in revents \cap FwdFds : Head(inbox'[fd]) = Head(inbox[fd])
    BY <2>1, SentFacts DEF IInv, LoopInv
  <2> QED
    BY <2>1, <2>2, BesideCount DEF Shrunk
<1> QED
  BY <1>1, <1>2, <1>3, <1>4, <1>5, <1>6, <1>7, <1>8 DEF Next

LEMMA Invariant == Spec => [](IInv /\ CountInv)
<1>1. Init => IInv /\ CountInv
  BY InitKeeps DEF Init, CountInv
<1>2. IInv /\ CountInv /\ [Next]_vars => (IInv /\ CountInv)'
  BY NextKeeps, CountKept
<1> QED
  BY <1>1, <1>2, PTL DEF Spec

(* The theorems.                                                            *)

LEMMA SoundTypes ==
    ASSUME IInv, CountInv
    PROVE  TypeOK /\ LiveXidsAreTheirSlots /\ RmtcallsCountsSlots /\ OneSlotPerCall
<1>1. Active = Live(FINFO)
  BY DEF Active, Live
<1>2. rpcb_rmtcalls \in 0 .. NFORWARD /\ rpcb_rmtcalls = Cardinality(Active)
  BY <1>1, LiveFacts DEF IInv, TableNow, TableSound
<1>3. TypeOK
  <2>1. \A fd \in FwdFds : inbox[fd] \in Seq(Msgs) /\ Len(inbox[fd]) <= MaxQueue
    BY DEF IInv, Types
  <2>2. lastxid \in {x \in Xids : x % NFORWARD = 0}
    BY DEF IInv, Types
  <2> QED
    BY <1>2, <2>1, <2>2 DEF IInv, CountInv, Types, TableNow, TableSound, FdsSound, TypeOK
<1>4. LiveXidsAreTheirSlots
  BY <1>1 DEF IInv, TableNow, TableSound, SlotsSound, XidInv, InFlight, LiveXidsAreTheirSlots
<1>5. OneSlotPerCall
  BY <1>1 DEF IInv, TableNow, TableSound, OneEach, OneSlotPerCall
<1> QED
  BY <1>2, <1>3, <1>4, <1>5 DEF RmtcallsCountsSlots

LEMMA SoundWaiting ==
    ASSUME IInv, NEW l \in ListenFds, Above(l)
    PROVE  WaitingFdIsPolled
<1> SUFFICES ASSUME NEW i \in Slots, FINFO[i].active PROVE FINFO[i].forward_fd \in Polled
  BY DEF WaitingFdIsPolled, Active
<1> DEFINE fd == FINFO[i].forward_fd
           max == svc_fdset_sanitize(fdmax, fdset)
<1>1. fd \in FwdFds
  BY DEF IInv, TableNow, TableSound, SlotsSound, Live
<1> HIDE DEF fd
<1>2. fd \in AllFds /\ fd \notin ConnFds /\ fd \in Nat
  <2>1. fd \in AllFds /\ fd \notin ConnFds /\ AllFds \subseteq Nat
    BY <1>1, ForwardAssumption DEF AllFds
  <2> QED
    BY <2>1
<1>3. fd \in fdset /\ l \in fdset /\ l \in Int /\ fdmax \in Int /\ fdset \subseteq AllFds
  BY <1>2, ListenersSet DEF IInv
<1>4. l <= fdmax /\ fd < l
  BY <1>1 DEF IInv, TableNow, TableSound, Watched, Above
<1>5. max \in Int /\ l <= max
  BY <1>3, <1>4, SanitizeFacts
<1> HIDE DEF max
<1>6. fd <= max
  BY <1>2, <1>3, <1>4, <1>5
<1> QED
  BY <1>3, <1>6 DEF Polled, fd, max

\* The table of forwarded requests, the count of pending calls, the transaction ids
\* and the polled descriptors fit together (forward_register, free_slot_by_index,
\* my_svc_run), if a descriptor rpcbind listens on is above the forwarding ones:
\* free_slot_by_index would else lower the maximum below them.
THEOREM TableSoundThroughout ==
    ASSUME \E l \in ListenFds : Above(l)
    PROVE  Spec => []TableIsSound
<1>1. IInv /\ CountInv => TableIsSound
  BY SoundTypes, SoundWaiting DEF TableIsSound
<1> QED
  BY <1>1, Invariant, PTL

\* Without that: each live slot has the id that encodes it, known to no reply under
\* way but its own, across the wrap of lastxid; the counter is the number of live
\* slots; and a retransmitted request has one (forward_register).
THEOREM SlotsAndXids ==
    Spec => [](TypeOK /\ LiveXidsAreTheirSlots /\ RmtcallsCountsSlots /\ OneSlotPerCall)
<1>1. IInv /\ CountInv => TypeOK /\ LiveXidsAreTheirSlots /\ RmtcallsCountsSlots /\ OneSlotPerCall
  BY SoundTypes
<1> QED
  BY <1>1, Invariant, PTL

\* handle_reply answers a caller with the reply to the caller's own request, whatever
\* is late, repeated or answered after its slot was given to another.
THEOREM AnswersReachTheirCaller == Spec => []AnswersGoToTheirCaller
<1>1. IInv => AnswersGoToTheirCaller
  BY DEF IInv
<1> QED
  BY <1>1, Invariant, PTL

LEMMA ShrunkOrGiven ==
    ASSUME IInv, [Next]_vars
    PROVE  Shrunk \/ \E call \in Calls, x \in Nat : Given(call, x)
<1>1. CASE Poll \/ GetreqDone \/ CleanIdle \/ Tick
  BY <1>1, PollKeeps, GetreqDoneKeeps, CleanIdleKeeps, TickKeeps
<1>2. ASSUME NEW fd \in ListenFds \cup ConnFds, Connection(fd) PROVE Shrunk
  BY <1>2, ConnectionKeeps
<1>3. ASSUME NEW fd \in FwdFds,
             ReplyForwarded(fd) \/ ReplyUnknown(fd) \/ ReplyFails(fd) \/ NotACall(fd)
      PROVE  Shrunk
  BY <1>3, ReplyForwardedKeeps, ReplyUnknownKeeps, ReplyFailsKeeps, NotACallKeeps
<1>4. ASSUME NEW call \in Calls, rpcbproc_callit_com(call)
      PROVE  Shrunk \/ \E x \in Nat : Given(call, x)
  BY <1>4, CallitKeeps
<1>5. ASSUME NEW m \in atService, ServiceReplies(m) PROVE Shrunk
  BY <1>5, ServiceRepliesKeeps
<1>6. CASE UNCHANGED vars
  BY <1>6 DEF vars, Shrunk
<1> QED
  BY <1>1, <1>2, <1>3, <1>4, <1>5, <1>6 DEF Next

\* forward_register takes a slot in use only if its request has timed out, or all
\* slots are taken and none has waited longer.
THEOREM OldestEvicted == Spec => OnlyTheOldestIsEvicted
<1> DEFINE A == \A i \in Active :
                   FINFO'[i].active /\ FINFO'[i].forward_xid # FINFO[i].forward_xid =>
                      \/ now - FINFO[i].time > MAXTIME_OFF
                      \/ /\ Active = Slots
                         /\ \A k \in Slots : FINFO[i].time <= FINFO[k].time
<1>1. ASSUME IInv, [Next]_vars PROVE A
  <2>1. CASE Shrunk
    BY <2>1 DEF Shrunk, Active
  <2>2. ASSUME NEW call \in Calls, NEW x \in Nat, Given(call, x) PROVE A
    <3>1. PICK j \in Slots :
            /\ GivenUp(j)
            /\ \A i \in Slots : i # j => FINFO'[i].forward_xid = FINFO[i].forward_xid
      BY <2>2 DEF Given
    <3>2. FINFO[j].active =>
            \/ now - FINFO[j].time > MAXTIME_OFF
            \/ Active = Slots /\ \A k \in Slots : FINFO[j].time <= FINFO[k].time
      BY <3>1 DEF GivenUp, Active
    <3> QED
      BY <3>1, <3>2 DEF Active
  <2> QED
    BY <1>1, <2>1, <2>2, ShrunkOrGiven
<1>2. IInv /\ [Next]_vars => [A]_vars
  BY <1>1
<1> QED
  BY <1>2, Invariant, PTL DEF Spec, OnlyTheOldestIsEvicted

\* The reply to a request in the table is handled, and not dropped by svc_getreq_poll as
\* no call, unless in this round check_rmtcalls counted a reply nobody waits for, or a
\* failure, against the number of calls pending: with any number of forwarding
\* descriptors (check_rmtcalls, handle_reply).
THEOREM AwaitedRepliesHandled == Spec => AwaitedReplyIsNotACall
<1> DEFINE A == \A fd \in Replies :
                   NotACall(fd) => wasted \/ forward_find(Head(inbox[fd]).xid) = {}
<1>1. ASSUME IInv, CountInv PROVE A
  <2> SUFFICES ASSUME NEW fd \in Replies, NotACall(fd), ~wasted,
                      NEW i \in forward_find(Head(inbox[fd]).xid)
               PROVE  FALSE
    OBVIOUS
  <2>1. pc = "getreq" /\ fd \in revents \cap FwdFds
    BY DEF NotACall, FirstReady
  <2>2. i \in Live(FINFO) /\ FINFO[i].forward_xid = Head(inbox[fd]).xid
    BY DEF forward_find, Live
  <2> QED
    BY <1>1, <2>1, <2>2 DEF CountInv
<1>2. IInv /\ CountInv /\ [Next]_vars => [A]_vars
  BY <1>1
<1> QED
  BY <1>2, Invariant, PTL DEF Spec, AwaitedReplyIsNotACall
=============================================================================
