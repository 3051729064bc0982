---------------------------- MODULE SparesProofs ----------------------------
(***************************************************************************)
(* Theorems about Elevator and CallerIterator, for any floors and callers. *)
(***************************************************************************)
EXTENDS SparesMC, Lemmas

-----------------------------------------------------------------------------
(* Lists.                                                                  *)

\* r is s with x before the m-th; s without the m-th.
Inserted(S, r, s, m, x) == /\ r \in Seq(S) /\ DOMAIN r = 1 .. Len(s) + 1
                           /\ \A i \in 1 .. m - 1 : r[i] = s[i]
                           /\ r[m] = x
                           /\ \A i \in m + 1 .. Len(s) + 1 : r[i] = s[i - 1]
Removed(S, r, s, m) == /\ r \in Seq(S) /\ Len(r) = Len(s) - 1
                       /\ \A j \in 1 .. Len(s) - 1 : r[j] = IF j < m THEN s[j] ELSE s[j + 1]

\* InsertAt, element by element.
LEMMA Inserting ==
    ASSUME NEW S, NEW s \in Seq(S), NEW m \in 1 .. Len(s), NEW x \in S, NEW r, r = InsertAt(s, m, x)
    PROVE  Inserted(S, r, s, m, x)
<1> DEFINE n == Len(s)
           a == SubSeq(s, 1, m - 1)
           b == SubSeq(s, m, n)
           t == <<x>>
           ax == a \o t
<1>0. r = ax \o b
  BY DEF InsertAt
<1>1. n \in Nat /\ m \in 1 .. n
  BY LenProperties
<1>4. t \in Seq(S) /\ Len(t) = 1 /\ t[1] = x
  OBVIOUS
<1> HIDE DEF t
<1>2. a \in Seq(S) /\ Len(a) = m - 1 /\ \A i \in 1 .. m - 1 : a[i] = s[i]
  <2>1. 1 \in 1 .. n + 1 /\ m - 1 \in 0 .. n /\ 1 <= m - 1 + 1
    BY <1>1
  <2>2. m - 1 + 1 - 1 = m - 1 /\ \A i \in 1 .. m - 1 : 1 + i - 1 = i
    BY <1>1
  <2>3. a = SubSeq(s, 1, m - 1)
    OBVIOUS
  <2> HIDE DEF a
  <2>4. Part(S, a, s, 1, m - 1)
    BY <2>1, <2>3, Cutting
  <2> QED
    BY <2>2, <2>4 DEF Part
<1>3. b \in Seq(S) /\ Len(b) = n + 1 - m /\ \A i \in 1 .. n + 1 - m : b[i] = s[m + i - 1]
  <2>1. m \in 1 .. n + 1 /\ n \in 0 .. n /\ m <= n + 1
    BY <1>1
  <2>2. b = SubSeq(s, m, n)
    OBVIOUS
  <2> HIDE DEF b
  <2>3. Part(S, b, s, m, n)
    BY <2>1, <2>2, Cutting
  <2> QED
    BY <2>3 DEF Part
<1>5. ax = a \o t
  OBVIOUS
<1> HIDE DEF a, b, ax
<1>6. /\ ax \in Seq(S) /\ Len(ax) = m
      /\ \A i \in 1 .. m - 1 : ax[i] = a[i]
      /\ ax[m] = x
  <2>1. Joined(S, ax, a, t)
    BY <1>2, <1>4, <1>5, Joining
  <2>2. m - 1 + 1 = m /\ 1 \in 1 .. 1
    BY <1>1
  <2> QED
    BY <1>2, <1>4, <2>1, <2>2 DEF Joined
<1>7. /\ r \in Seq(S) /\ DOMAIN r = 1 .. m + (n + 1 - m)
      /\ \A i \in 1 .. m : r[i] = ax[i]
      /\ \A i \in 1 .. n + 1 - m : r[m + i] = b[i]
  <2>1. Joined(S, r, ax, b)
    BY <1>0, <1>3, <1>6, Joining
  <2> QED
    BY <1>3, <1>6, <2>1 DEF Joined
<1>8. ASSUME NEW i \in m + 1 .. n + 1
      PROVE  r[i] = s[i - 1]
  <2>1. i - m \in 1 .. n + 1 - m /\ m + (i - m) = i /\ m + (i - m) - 1 = i - 1
    BY <1>1
  <2> QED
    BY <1>3, <1>7, <2>1
<1>9. m + (n + 1 - m) = n + 1 /\ m \in 1 .. m /\ \A i \in 1 .. m - 1 : i \in 1 .. m
  BY <1>1
<1> QED
  BY <1>2, <1>6, <1>7, <1>8, <1>9 DEF Inserted

\* RemoveFirst, element by element.
LEMMA Removing ==
    ASSUME NEW S, NEW s \in Seq(S), IsInjective(s), NEW i \in 1 .. Len(s), NEW r, r = RemoveFirst(s, s[i])
    PROVE  Removed(S, r, s, i)
<1> DEFINE n == Len(s)
           c == s[i]
           a == SubSeq(s, 1, i - 1)
           b == SubSeq(s, i + 1, n)
<1>1. DOMAIN s = 1 .. n /\ n \in Nat /\ i \in 1 .. n
  BY LenProperties
<1>2. r = a \o b
  <2>1. {j \in 1 .. n : s[j] = c} = {i}
    BY <1>1 DEF IsInjective
  <2>2. Min({i}) = i
    BY <1>1 DEF Min
  <2>3. SelectInSeq(s, LAMBDA v : v = c) = i
    BY <2>1, <2>2 DEF SelectInSeq
  <2> QED
    BY <1>1, <2>3 DEF RemoveFirst, RemoveAt
<1>3. a \in Seq(S) /\ Len(a) = i - 1 /\ \A j \in 1 .. i - 1 : a[j] = s[j]
  <2>1. 1 \in 1 .. n + 1 /\ i - 1 \in 0 .. n /\ 1 <= i - 1 + 1
    BY <1>1
  <2>2. i - 1 + 1 - 1 = i - 1 /\ \A j \in 1 .. i - 1 : 1 + j - 1 = j
    BY <1>1
  <2>3. a = SubSeq(s, 1, i - 1)
    OBVIOUS
  <2> HIDE DEF a
  <2>4. Part(S, a, s, 1, i - 1)
    BY <2>1, <2>3, Cutting
  <2> QED
    BY <2>2, <2>4 DEF Part
<1>4. b \in Seq(S) /\ Len(b) = n - i /\ \A j \in 1 .. n - i : b[j] = s[i + j]
  <2> DEFINE k == i + 1
  <2>1. k \in 1 .. n + 1 /\ n \in 0 .. n /\ k <= n + 1
    BY <1>1
  <2>2. b = SubSeq(s, k, n)
    OBVIOUS
  <2> HIDE DEF b, k
  <2>3. Part(S, b, s, k, n)
    BY <2>1, <2>2, Cutting
  <2>4. n + 1 - (i + 1) = n - i /\ \A j \in 1 .. n - i : i + 1 + j - 1 = i + j
    <3>1. n \in Int /\ i \in Int
      BY <1>1
    <3>2. ASSUME NEW j \in 1 .. n - i
          PROVE  i + 1 + j - 1 = i + j
      <4>1. j \in Int
        OBVIOUS
      <4> HIDE DEF n
      <4> QED
        BY <3>1, <4>1
    <3> HIDE DEF n
    <3> QED
      BY <3>1, <3>2
  <2> QED
    BY <2>3, <2>4 DEF Part, k
<1> HIDE DEF a, b
<1>5. /\ r \in Seq(S) /\ Len(r) = i - 1 + (n - i)
      /\ \A j \in 1 .. i - 1 : r[j] = a[j]
      /\ \A j \in 1 .. n - i : r[i - 1 + j] = b[j]
  <2>1. Joined(S, r, a, b)
    BY <1>2, <1>3, <1>4, Joining
  <2> QED
    BY <1>3, <1>4, <2>1 DEF Joined
<1>6. ASSUME NEW j \in 1 .. n - 1
      PROVE  r[j] = IF j < i THEN s[j] ELSE s[j + 1]
  <2>1. CASE j < i
    <3>1. j \in 1 .. i - 1
      BY <1>1, <2>1
    <3> QED
      BY <1>3, <1>5, <2>1, <3>1
  <2>2. CASE ~(j < i)
    <3>1. j - (i - 1) \in 1 .. n - i /\ i - 1 + (j - (i - 1)) = j /\ i + (j - (i - 1)) = j + 1
      BY <1>1, <2>2
    <3>2. r[j] = b[j - (i - 1)]
      BY <1>5, <3>1
    <3>3. b[j - (i - 1)] = s[j + 1]
      BY <1>4, <3>1
    <3> QED
      BY <2>2, <3>2, <3>3
  <2> QED
    BY <2>1, <2>2
<1>7. i - 1 + (n - i) = n - 1
  BY <1>1
<1> QED
  BY <1>5, <1>6, <1>7 DEF Removed

-----------------------------------------------------------------------------
(* The stops of the elevator.                                              *)

\* The invariant: without a direction there is no stop either.
ElevatorIsSteady ==
    /\ stops \in Seq(Floors)
    /\ direction \in {"none", "up", "down"}
    /\ direction = "none" => stops = <<>>
    /\ StopsAreOrdered

\* What is said of two stops, the first before the second.
Before(x, y) ==
    /\ x # y
    /\ direction' = "up" /\ x > floor /\ y > floor => x < y
    /\ direction' = "down" /\ x < floor /\ y < floor => x > y

\* An elevator without stops gets its first one.
LEMMA FirstStop ==
    ASSUME ElevatorIsSteady, direction = "none", NEW f \in Floors, Call(f)
    PROVE  ElevatorIsSteady'
<1>1. stops = <<>> /\ DOMAIN stops = {}
  BY DEF ElevatorIsSteady
<1>2. stops' = <<f>>
  <2>1. {i \in DOMAIN stops : stops[i] = f \/ Fits(Towards(stops[1]), f, stops[i])} = {}
    BY <1>1
  <2>2. stops' = Append(stops, f)
    BY <2>1 DEF Call, Stopping
  <2> QED
    BY <1>1, <2>2
<1>3. direction' \in {"up", "down"}
  BY DEF Call, Towards
<1>4. stops' \in Seq(Floors) /\ DOMAIN (stops') = {1}
  BY <1>2
<1> QED
  BY <1>3, <1>4 DEF ElevatorIsSteady, StopsAreOrdered

\* Where a stop is put, it is in order with those before and behind it.
LEMMA LaterStop ==
    ASSUME ElevatorIsSteady, direction # "none", NEW f \in Floors, Call(f)
    PROVE  ElevatorIsSteady'
<1> DEFINE n == Len(stops)
           ends == {i \in DOMAIN stops : stops[i] = f \/ Fits(direction, f, stops[i])}
           m == Min(ends)
<1>1. /\ stops \in Seq(Floors) /\ n \in Nat /\ DOMAIN stops = 1 .. n /\ f \in Int
      /\ \A i \in 1 .. n : stops[i] \in Floors /\ stops[i] \in Int
  BY FloorsAssumption, LenProperties, ElementOfSeq DEF ElevatorIsSteady
<1>2. direction' = direction /\ direction \in {"up", "down"}
  BY DEF Call, ElevatorIsSteady
<1>3. \A i, j \in 1 .. n : i < j => Before(stops[i], stops[j])
  BY <1>1, <1>2 DEF ElevatorIsSteady, StopsAreOrdered, Before
<1>4. stops' = IF ends = {} THEN Append(stops, f)
               ELSE IF stops[m] = f THEN stops ELSE InsertAt(stops, m, f)
  BY DEF Call, Stopping
<1>5. \A i \in 1 .. n : i \in ends <=> stops[i] = f \/ Fits(direction, f, stops[i])
  BY <1>1
<1>6. ends \subseteq 1 .. n
  BY <1>1
<1> HIDE DEF ends
<1>7. ASSUME NEW i \in 1 .. n, i \notin ends
      PROVE  Before(stops[i], f)
  BY <1>1, <1>2, <1>5, <1>7 DEF Before, Fits, floor
<1>8. SUFFICES /\ stops' \in Seq(Floors)
               /\ \A i, j \in DOMAIN (stops') : i < j => Before(stops'[i], stops'[j])
  BY <1>2 DEF ElevatorIsSteady, StopsAreOrdered, Before
<1>9. CASE ends = {}
  <2>1. stops' = Append(stops, f)
    BY <1>4, <1>9
  <2>2. /\ stops' \in Seq(Floors) /\ DOMAIN (stops') = 1 .. n + 1
        /\ \A i \in 1 .. n : stops'[i] = stops[i]
        /\ stops'[n + 1] = f
    BY <1>1, <2>1, Appending
  <2>3. ASSUME NEW i \in 1 .. n + 1, NEW j \in 1 .. n + 1, i < j
        PROVE  Before(stops'[i], stops'[j])
    <3>1. i \in 1 .. n
      BY <1>1, <2>3
    <3>2. CASE j = n + 1
      BY <1>7, <1>9, <2>2, <3>1, <3>2
    <3>3. CASE j # n + 1
      <4>1. j \in 1 .. n
        BY <1>1, <3>3
      <4> QED
        BY <1>3, <2>2, <2>3, <3>1, <4>1
    <3> QED
      BY <3>2, <3>3
  <2> QED
    BY <2>2, <2>3
<1>10. CASE ends # {}
  <2>1. m \in ends /\ \A i \in ends : m <= i
    <3>1. ends \in SUBSET Nat
      BY <1>1, <1>6
    <3>2. \E x \in ends : \A y \in ends : x <= y
      BY <1>10, <3>1, LeastNumber
    <3> QED
      BY <3>2 DEF Min
  <2>2. m \in 1 .. n
    BY <1>6, <2>1
  <2> HIDE DEF m
  <2>3. CASE stops[m] = f
    BY <1>1, <1>3, <1>4, <1>10, <2>3
  <2>4. CASE stops[m] # f
    <3>1. Fits(direction, f, stops[m])
      BY <1>5, <2>1, <2>2, <2>4
    <3>2. ASSUME NEW i \in m .. n
          PROVE  Before(f, stops[i])
      <4>1. i \in 1 .. n /\ (i # m => m < i)
        BY <1>1, <2>2
      <4>2. i # m => Before(stops[m], stops[i])
        BY <1>3, <2>2, <4>1
      <4>3. f \in Int /\ stops[m] \in Int /\ stops[i] \in Int
        BY <1>1, <2>2, <4>1
      <4>4. CASE i = m
        BY <1>2, <3>1, <4>3, <4>4 DEF Before, Fits, floor
      <4>5. CASE i # m
        BY <1>2, <3>1, <4>2, <4>3, <4>5 DEF Before, Fits, floor
      <4> QED
        BY <4>4, <4>5
    <3>3. ASSUME NEW i \in 1 .. m - 1
          PROVE  Before(stops[i], f)
      <4>1. i \in 1 .. n /\ ~(m <= i)
        BY <1>1, <2>2
      <4> QED
        BY <1>7, <2>1, <4>1
    <3>4. /\ stops' \in Seq(Floors) /\ DOMAIN (stops') = 1 .. n + 1
          /\ \A i \in 1 .. m - 1 : stops'[i] = stops[i]
          /\ stops'[m] = f
          /\ \A i \in m + 1 .. n + 1 : stops'[i] = stops[i - 1]
      <4>1. stops' = InsertAt(stops, m, f)
        BY <1>4, <1>10, <2>4
      <4>2. Inserted(Floors, stops', stops, m, f)
        BY <1>1, <2>2, <4>1, Inserting
      <4> QED
        BY <4>2 DEF Inserted
    <3>5. ASSUME NEW i \in 1 .. n + 1, NEW j \in 1 .. n + 1, i < j
          PROVE  Before(stops'[i], stops'[j])
      <4>1. m \in Int /\ n \in Int /\ m <= n /\ 1 <= m
        BY <1>1, <2>2
      <4>2. CASE j < m
        <5>1. i \in 1 .. m - 1 /\ j \in 1 .. m - 1 /\ i \in 1 .. n /\ j \in 1 .. n
          BY <3>5, <4>1, <4>2
        <5> QED
          BY <1>3, <3>4, <3>5, <5>1
      <4>3. CASE j = m
        <5>1. i \in 1 .. m - 1
          BY <3>5, <4>1, <4>3
        <5> QED
          BY <3>3, <3>4, <4>3, <5>1
      <4>4. CASE i < m /\ j > m
        <5>1. i \in 1 .. m - 1 /\ j \in m + 1 .. n + 1 /\ i \in 1 .. n /\ j - 1 \in 1 .. n /\ i < j - 1
          BY <4>1, <4>4
        <5> QED
          BY <1>3, <3>4, <5>1
      <4>5. CASE i = m
        <5>1. j \in m + 1 .. n + 1 /\ j - 1 \in m .. n
          BY <3>5, <4>1, <4>5
        <5> QED
          BY <3>2, <3>4, <4>5, <5>1
      <4>6. CASE i > m
        <5>1. i \in m + 1 .. n + 1 /\ j \in m + 1 .. n + 1 /\ i - 1 \in 1 .. n /\ j - 1 \in 1 .. n /\ i - 1 < j - 1
          BY <3>5, <4>1, <4>6
        <5> QED
          BY <1>3, <3>4, <5>1
      <4> QED
        BY <3>5, <4>1, <4>2, <4>3, <4>4, <4>5, <4>6
    <3> QED
      BY <3>4, <3>5
  <2> QED
    BY <2>3, <2>4
<1> QED
  BY <1>9, <1>10

-----------------------------------------------------------------------------
(* The walk of the iterator.                                               *)

\* What follows, r, are the callers behind the first k of s.
Behind(k, s, r) == /\ k \in 0 .. Len(s)
                   /\ r \in Seq(Callers) /\ Len(r) = Len(s) - k
                   /\ \A j \in 1 .. Len(r) : r[j] = s[k + j]

\* The invariant: behind the position are those that follow; the one at it is
\* among them when the one that was there has left.
WalkIsSteady ==
    /\ items \in Seq(Callers) /\ IsInjective(items)
    /\ pos \in Int /\ invalid \in BOOLEAN
    /\ raised = "none" =>
          /\ pos >= -1
          /\ pos = -1 => ~invalid /\ visited = Nobody
          /\ visited # Nobody => /\ pos \in 0 .. Len(items) - 1 /\ items[pos + 1] = visited
                                /\ Behind(pos + 1, items, rest)
          /\ pos # -1 /\ visited = Nobody => invalid /\ Behind(pos, items, rest)

\* Those behind the first k, as a subsequence.
LEMMA BehindIsPart ==
    ASSUME items \in Seq(Callers), NEW k \in 0 .. Len(items), Behind(k, items, rest)
    PROVE  rest = SubSeq(items, k + 1, Len(items))
<1> DEFINE n == Len(items)
           p == SubSeq(items, k + 1, n)
<1>1. n \in Nat
  BY LenProperties
<1>2. k + 1 \in 1 .. n + 1 /\ n \in 0 .. n /\ k + 1 <= n + 1
  BY <1>1
<1>3. Part(Callers, p, items, k + 1, n)
  BY <1>2, Cutting
<1>4. n + 1 - (k + 1) = n - k /\ \A j \in 1 .. n - k : k + 1 + j - 1 = k + j
  BY <1>1
<1> HIDE DEF p, n
<1>5. p \in Seq(Callers) /\ Len(p) = n - k /\ \A j \in 1 .. n - k : p[j] = items[k + j]
  BY <1>3, <1>4 DEF Part
<1>6. rest \in Seq(Callers) /\ Len(rest) = n - k /\ \A j \in 1 .. n - k : rest[j] = items[k + j]
  BY DEF Behind, n
<1>7. rest = p
  BY <1>5, <1>6, SeqEqual
<1> QED
  BY <1>7 DEF p, n

\* A call that returns the caller at position p.
LEMMA VisitFollows ==
    ASSUME items \in Seq(Callers), NEW p \in 0 .. Len(items) - 1, Visit(p)
    PROVE  Behind(p + 1, items, rest)'
<1>1. Len(items) \in Nat
  BY LenProperties
<1>2. rest' = SubSeq(items, p + 2, Len(items)) /\ items' = items
  BY DEF Visit
<1>3. p + 2 \in 1 .. Len(items) + 1 /\ Len(items) \in 0 .. Len(items) /\ p + 2 <= Len(items) + 1
  BY <1>1
<1>4. Part(Callers, rest', items, p + 2, Len(items))
  BY <1>2, <1>3, Cutting
<1>5. /\ Len(items) + 1 - (p + 2) = Len(items) - (p + 1)
      /\ p + 1 \in 0 .. Len(items)
      /\ \A j \in 1 .. Len(items) - (p + 1) : p + 2 + j - 1 = p + 1 + j
  BY <1>1
<1> QED
  BY <1>2, <1>4, <1>5 DEF Behind, Part

\* Remainders, as the provers know them.
LEMMA Remainder ==
    ASSUME NEW a \in Int, NEW n \in Nat, n > 0
    PROVE  /\ a % n \in 0 .. n - 1
           /\ a \in 0 .. n - 1 => a % n = a
           /\ a = n => a % n = 0
OBVIOUS

LEMMA InitIsSteady == SparesInit => ElevatorIsSteady /\ WalkIsSteady
<1> SUFFICES ASSUME SparesInit
             PROVE  ElevatorIsSteady /\ WalkIsSteady
  OBVIOUS
<1>1. ElevatorIsSteady
  BY DEF SparesInit, ElevatorInit, ElevatorIsSteady, StopsAreOrdered
<1>2. items = <<>> /\ pos = -1 /\ ~invalid /\ invalid \in BOOLEAN /\ visited = Nobody
  BY DEF SparesInit, Init
<1>3. items \in Seq(Callers) /\ IsInjective(items)
  BY <1>2 DEF IsInjective
<1> QED
  BY <1>1, <1>2, <1>3 DEF WalkIsSteady

\* A call that returns the caller at a position of the list.
LEMMA VisitKeeps ==
    ASSUME WalkIsSteady, raised = "none", NEW p \in 0 .. Len(items) - 1, Visit(p), invalid' \in BOOLEAN
    PROVE  WalkIsSteady'
<1>1. items \in Seq(Callers) /\ IsInjective(items) /\ Len(items) \in Nat
  BY LenProperties DEF WalkIsSteady
<1>2. items' = items /\ pos' = p /\ raised' = raised /\ visited' = items[p + 1]
  BY DEF Visit
<1>3. Behind(p + 1, items, rest)'
  BY <1>1, VisitFollows
<1>4. visited' # Nobody
  <2>1. p + 1 \in 1 .. Len(items)
    BY <1>1
  <2> QED
    BY <1>1, <1>2, <2>1, ElementOfSeq, NobodyAssumption
<1>5. p \in Int /\ p >= -1 /\ p # -1
  BY <1>1
<1> QED
  BY <1>1, <1>2, <1>3, <1>4, <1>5 DEF WalkIsSteady, Behind

LEMMA NextKeeps ==
    ASSUME WalkIsSteady, NextCaller
    PROVE  WalkIsSteady'
<1> DEFINE n == Len(items)
<1>0. /\ items \in Seq(Callers) /\ IsInjective(items) /\ n \in Nat /\ n > 0
      /\ pos \in Int /\ pos >= -1 /\ raised = "none" /\ invalid \in BOOLEAN
  BY LenProperties, EmptySeq DEF WalkIsSteady, NextCaller
<1>1. CASE pos = -1 /\ Visit(0) /\ UNCHANGED invalid
  <2>1. 0 \in 0 .. n - 1 /\ invalid' \in BOOLEAN
    BY <1>0, <1>1
  <2> QED
    BY <1>0, <1>1, <2>1, VisitKeeps
<1>2. CASE pos # -1 /\ invalid /\ n > 1 /\ Visit(pos % (n - 1)) /\ invalid' = FALSE
  <2> DEFINE p == pos % (n - 1)
  <2>1. n - 1 \in Nat /\ n - 1 > 0
    BY <1>0, <1>2
  <2>2. p \in 0 .. n - 1 - 1
    BY <1>0, <2>1, Remainder
  <2>3. p \in 0 .. n - 1 /\ Visit(p)
    BY <1>0, <1>2, <2>2
  <2> HIDE DEF p
  <2> QED
    BY <1>0, <1>2, <2>3, VisitKeeps
<1>3. CASE pos # -1 /\ invalid /\ n = 1 /\ Raise("ZeroDivisionError") /\ invalid' = FALSE /\ UNCHANGED pos
  <2>1. raised' = "ZeroDivisionError" /\ items' = items
    BY <1>3 DEF Raise
  <2> QED
    BY <1>0, <1>3, <2>1 DEF WalkIsSteady
<1>4. CASE pos # -1 /\ ~invalid /\ Visit((pos + 1) % n) /\ UNCHANGED invalid
  <2> DEFINE p == (pos + 1) % n
  <2>1. pos + 1 \in Int
    BY <1>0
  <2>2. p \in 0 .. n - 1
    BY <1>0, <2>1, Remainder
  <2>3. Visit(p)
    BY <1>4
  <2> HIDE DEF p
  <2> QED
    BY <1>0, <1>4, <2>2, <2>3, VisitKeeps
<1> QED
  BY <1>1, <1>2, <1>3, <1>4 DEF NextCaller

LEMMA PrevKeeps ==
    ASSUME WalkIsSteady, PrevCaller
    PROVE  WalkIsSteady'
<1> DEFINE n == Len(items)
           q == IF pos = -1 THEN n - 1 ELSE (pos - 1) % n
<1>0. n \in Nat /\ n > 0 /\ pos \in Int /\ raised = "none" /\ invalid \in BOOLEAN
  BY LenProperties, EmptySeq DEF WalkIsSteady, PrevCaller
<1>1. pos - 1 \in Int
  BY <1>0
<1>2. (pos - 1) % n \in 0 .. n - 1
  BY <1>0, <1>1, Remainder
<1>3. q \in 0 .. n - 1
  BY <1>0, <1>2
<1>4. Visit(q) /\ invalid' = invalid
  BY DEF PrevCaller
<1> HIDE DEF q
<1> QED
  BY <1>0, <1>3, <1>4, VisitKeeps

\* A caller that comes is the last of the list, and of those that follow.
LEMMA EnterKeeps ==
    ASSUME WalkIsSteady, NEW c \in Callers, Enter(c)
    PROVE  WalkIsSteady'
<1> DEFINE n == Len(items)
<1>1. /\ items \in Seq(Callers) /\ IsInjective(items) /\ raised = "none"
      /\ items' = Append(items, c) /\ rest' = Append(rest, c)
      /\ UNCHANGED <<pos, invalid, raised, visited>>
  BY DEF WalkIsSteady, Enter
<1>2. /\ items' \in Seq(Callers) /\ n \in Nat /\ Len(items') = n + 1
      /\ DOMAIN items = 1 .. n /\ DOMAIN (items') = 1 .. n + 1
      /\ \A i \in 1 .. n : items'[i] = items[i]
      /\ items'[n + 1] = c
  BY <1>1, Appending
<1>3. IsInjective(items')
  <2>1. \A i \in 1 .. n : items[i] # c
    BY <1>2 DEF Enter, Range
  <2> QED
    BY <1>1, <1>2, <2>1 DEF IsInjective
<1>4. ASSUME NEW k, Behind(k, items, rest)
      PROVE  Behind(k, items', rest')
  <2>1. k \in 0 .. n /\ rest \in Seq(Callers) /\ Len(rest) = n - k
    BY <1>4 DEF Behind
  <2>2. /\ rest' \in Seq(Callers) /\ Len(rest) \in Nat /\ Len(rest') = n - k + 1
        /\ \A i \in 1 .. n - k : rest'[i] = rest[i]
        /\ rest'[n - k + 1] = c
    BY <1>1, <2>1, Appending
  <2>3. ASSUME NEW j \in 1 .. n - k + 1
        PROVE  rest'[j] = items'[k + j]
    <3>1. CASE j = n - k + 1
      <4>1. k + j = n + 1
        BY <1>2, <2>1, <3>1
      <4> QED
        BY <1>2, <2>2, <3>1, <4>1
    <3>2. CASE j # n - k + 1
      <4>1. j \in 1 .. n - k /\ k + j \in 1 .. n
        BY <1>2, <2>1, <3>2
      <4>2. rest[j] = items[k + j]
        BY <1>4, <2>1, <4>1 DEF Behind
      <4> QED
        BY <1>2, <2>2, <4>1, <4>2
    <3> QED
      BY <3>1, <3>2
  <2>4. k \in 0 .. n + 1 /\ n - k + 1 = n + 1 - k
    BY <1>2, <2>1
  <2>5. k \in 0 .. Len(items') /\ Len(rest') = Len(items') - k
    BY <1>2, <2>2, <2>4
  <2>6. \A j \in 1 .. Len(rest') : rest'[j] = items'[k + j]
    BY <2>2, <2>3
  <2> QED
    BY <2>2, <2>5, <2>6 DEF Behind
<1>5. /\ Behind(pos, items, rest) => Behind(pos', items', rest')
      /\ Behind(pos + 1, items, rest) => Behind(pos' + 1, items', rest')
  BY <1>1, <1>4
<1>6. /\ Behind(pos, items, rest) => Behind(pos, items, rest)'
      /\ Behind(pos + 1, items, rest) => Behind(pos + 1, items, rest)'
  BY <1>5 DEF Behind
<1>7. ASSUME visited # Nobody
      PROVE  pos \in 0 .. n /\ items'[pos + 1] = visited
  <2>1. pos \in 0 .. n - 1 /\ items[pos + 1] = visited
    BY <1>1, <1>7 DEF WalkIsSteady
  <2>2. pos + 1 \in 1 .. n
    BY <1>2, <2>1
  <2> QED
    BY <1>2, <2>1, <2>2
<1>8. pos \in 0 .. n => pos \in 0 .. Len(items') - 1
  BY <1>2
<1> QED
  BY <1>1, <1>2, <1>3, <1>6, <1>7, <1>8 DEF WalkIsSteady

\* How many of the first k are left without the i-th.
Without(i, k) == IF i <= k THEN k - 1 ELSE k

\* A caller leaves that is the i-th of the list: of those that follow behind
\* the first k it is one when i > k.
LEMMA LeavingFollows ==
    ASSUME items \in Seq(Callers), IsInjective(items), NEW i \in 1 .. Len(items), NEW k, Behind(k, items, rest),
           items' = RemoveFirst(items, items[i]), rest' = RemoveFirst(rest, items[i]),
           NEW l, l = Without(i, k)
    PROVE  Behind(l, items', rest')
<1> DEFINE n == Len(items)
           c == items[i]
<1>1. n \in Nat /\ i \in 1 .. n /\ DOMAIN items = 1 .. n
  BY LenProperties
<1>2. /\ items' \in Seq(Callers) /\ Len(items') = n - 1
      /\ \A j \in 1 .. n - 1 : items'[j] = IF j < i THEN items[j] ELSE items[j + 1]
  <2>1. Removed(Callers, items', items, i)
    BY Removing
  <2> QED
    BY <2>1 DEF Removed
<1>3. /\ k \in 0 .. n /\ rest \in Seq(Callers) /\ Len(rest) = n - k /\ DOMAIN rest = 1 .. n - k
      /\ \A j \in 1 .. n - k : rest[j] = items[k + j]
  BY LenProperties DEF Behind
<1>4. CASE i <= k
  <2>1. ASSUME NEW j \in 1 .. n - k
        PROVE  rest[j] # c
    <3>1. k + j \in 1 .. n /\ k + j # i
      BY <1>1, <1>3, <1>4
    <3> QED
      BY <1>1, <1>3, <3>1 DEF IsInjective
  <2>2. rest' = rest
    BY <1>3, <2>1 DEF RemoveFirst
  <2>3. ASSUME NEW j \in 1 .. n - k
        PROVE  rest[j] = items'[k - 1 + j]
    <3>1. k - 1 + j \in 1 .. n - 1 /\ ~(k - 1 + j < i) /\ k - 1 + j + 1 = k + j
      BY <1>1, <1>3, <1>4
    <3> QED
      BY <1>2, <1>3, <3>1
  <2>4. l = k - 1 /\ k - 1 \in 0 .. n - 1 /\ n - 1 - (k - 1) = n - k
    BY <1>1, <1>3, <1>4 DEF Without
  <2> QED
    BY <1>2, <1>3, <2>2, <2>3, <2>4 DEF Behind
<1>5. CASE ~(i <= k)
  <2>1. l = k /\ i - k \in 1 .. n - k /\ k + (i - k) = i /\ k \in 0 .. n - 1 /\ n - k - 1 = n - 1 - k
    BY <1>1, <1>3, <1>5 DEF Without
  <2>2. rest[i - k] = c
    BY <1>3, <2>1
  <2>3. IsInjective(rest)
    <3>1. ASSUME NEW a \in 1 .. n - k, NEW b \in 1 .. n - k, rest[a] = rest[b]
          PROVE  a = b
      <4>1. k + a \in 1 .. n /\ k + b \in 1 .. n /\ items[k + a] = items[k + b]
        BY <1>1, <1>3, <3>1
      <4>2. k + a = k + b
        BY <1>1, <4>1 DEF IsInjective
      <4> QED
        BY <1>1, <1>3, <4>2
    <3> QED
      BY <1>3, <3>1 DEF IsInjective
  <2>4. /\ rest' \in Seq(Callers) /\ Len(rest') = n - k - 1
        /\ \A j \in 1 .. n - k - 1 : rest'[j] = IF j < i - k THEN rest[j] ELSE rest[j + 1]
    <3> DEFINE h == i - k
    <3>1. h \in 1 .. Len(rest)
      BY <1>3, <2>1
    <3> HIDE DEF h
    <3>2. rest' = RemoveFirst(rest, rest[h])
      BY <2>2 DEF h
    <3>3. Removed(Callers, rest', rest, h)
      BY <1>3, <2>3, <3>1, <3>2, Removing
    <3> QED
      BY <1>3, <3>3 DEF h, Removed
  <2>5. ASSUME NEW j \in 1 .. n - 1 - k
        PROVE  rest'[j] = items'[k + j]
    <3>1. k + j \in 1 .. n - 1 /\ j \in 1 .. n - k /\ j + 1 \in 1 .. n - k /\ k + (j + 1) = k + j + 1
      BY <1>1, <1>3, <2>1
    <3>2. j < i - k <=> k + j < i
      BY <1>1, <1>3
    <3> QED
      BY <1>2, <1>3, <2>1, <2>4, <3>1, <3>2
  <2> QED
    BY <1>2, <2>1, <2>4, <2>5 DEF Behind
<1> QED
  BY <1>4, <1>5

LEMMA LeaveKeeps ==
    ASSUME WalkIsSteady, NEW c \in Callers, Leave(c)
    PROVE  WalkIsSteady'
<1> DEFINE n == Len(items)
<1>0. /\ items \in Seq(Callers) /\ IsInjective(items) /\ n \in Nat /\ DOMAIN items = 1 .. n
      /\ pos \in Int /\ raised = "none" /\ invalid \in BOOLEAN /\ pos >= -1
  BY LenProperties DEF WalkIsSteady, Leave
<1>1. PICK i \in 1 .. n : items[i] = c
  BY <1>0 DEF Leave, Range
<1>2. /\ RemoveFirst(items, c) \in Seq(Callers) /\ IsInjective(RemoveFirst(items, c))
  <2> DEFINE r == RemoveFirst(items, c)
  <2>0. r = RemoveFirst(items, items[i])
    BY <1>1
  <2> HIDE DEF r
  <2>1. /\ r \in Seq(Callers) /\ Len(r) = n - 1
        /\ \A j \in 1 .. n - 1 : r[j] = IF j < i THEN items[j] ELSE items[j + 1]
    BY <1>0, <1>1, <2>0, Removing, ZenonT(40) DEF Removed
  <2>2. DOMAIN r = 1 .. n - 1
    BY <2>1, LenProperties
  <2>3. ASSUME NEW j \in 1 .. n - 1, NEW k \in 1 .. n - 1, r[j] = r[k]
        PROVE  j = k
    <3> DEFINE at(l) == IF l < i THEN l ELSE l + 1
    <3>1. at(j) \in 1 .. n /\ at(k) \in 1 .. n
      BY <1>0
    <3>2. items[at(j)] = items[at(k)]
      BY <2>1, <2>3
    <3>3. at(j) = at(k)
      BY <1>0, <3>1, <3>2 DEF IsInjective
    <3> QED
      BY <1>0, <3>3
  <2> QED
    BY <2>1, <2>2, <2>3 DEF IsInjective, r
<1>3. CASE pos = -1 /\ Raise("TypeError") /\ UNCHANGED <<pos, invalid>>
  <2>1. raised' = "TypeError" /\ items' = items /\ pos' = pos /\ invalid' = invalid
    BY <1>3 DEF Raise
  <2> QED
    BY <1>0, <2>1 DEF WalkIsSteady
<1>4. CASE pos # -1 /\ \E h \in DOMAIN items : items[h] = c /\ Invalidated(h - 1)
  <2>1. Invalidated(i - 1)
    BY <1>0, <1>1, <1>4 DEF IsInjective
  <2>2. /\ items' = RemoveFirst(items, items[i]) /\ rest' = RemoveFirst(rest, items[i])
        /\ visited' = IF visited = c THEN Nobody ELSE visited
        /\ raised' = raised
    BY <1>1, <1>4 DEF Leave, Raise
  <2>3. \A k : Behind(k, items, rest) => Behind(Without(i, k), items', rest')
    BY <1>0, <2>2, LeavingFollows
  <2>4. /\ Behind(pos', items', rest') => Behind(pos, items, rest)'
        /\ Behind(pos' + 1, items', rest') => Behind(pos + 1, items, rest)'
    BY DEF Behind
  <2>5. pos >= 0
    BY <1>0, <1>4
  <2>6. /\ items' \in Seq(Callers) /\ IsInjective(items') /\ Len(items') = n - 1
        /\ \A j \in 1 .. n - 1 : items'[j] = IF j < i THEN items[j] ELSE items[j + 1]
    <3>1. Removed(Callers, items', items, i)
      BY <1>0, <1>1, <2>2, Removing
    <3> QED
      BY <1>1, <1>2, <2>2, <3>1 DEF Removed
  <2>7. /\ visited # Nobody => /\ pos \in 0 .. n - 1 /\ items[pos + 1] = visited
                               /\ Behind(pos + 1, items, rest)
        /\ visited = Nobody => invalid /\ Behind(pos, items, rest)
    BY <1>0, <1>4 DEF WalkIsSteady
  <2>8. c # Nobody
    BY NobodyAssumption
  <2>9. CASE i - 1 < pos
    <3>1. pos' = pos - 1 /\ invalid' = invalid
      BY <1>0, <2>1, <2>9 DEF Invalidated
    <3>2. i <= pos /\ i <= pos + 1 /\ pos' + 1 = pos + 1 - 1 /\ pos' >= 0 /\ pos' \in Int /\ pos' # -1
      BY <1>0, <2>9, <3>1
    <3>3. pos' = Without(i, pos) /\ pos' + 1 = Without(i, pos + 1)
      BY <1>0, <3>1, <3>2 DEF Without
    <3>4. /\ Behind(pos, items, rest) => Behind(pos', items', rest')
          /\ Behind(pos + 1, items, rest) => Behind(pos' + 1, items', rest')
      BY <2>3, <3>3, Zenon
    <3>5. ASSUME visited # Nobody
          PROVE  visited' = visited /\ pos' \in 0 .. n - 1 - 1 /\ items'[pos' + 1] = visited
      <4>1. pos + 1 \in 1 .. n /\ pos + 1 # i /\ pos \in 1 .. n - 1 /\ ~(pos < i) /\ pos' + 1 = pos
        BY <1>0, <2>7, <2>9, <3>1, <3>5
      <4>2. items[pos + 1] # c
        BY <1>0, <1>1, <4>1 DEF IsInjective
      <4>3. visited' = visited
        BY <2>2, <2>7, <3>5, <4>2
      <4>4. pos' \in 0 .. n - 1 - 1
        BY <1>0, <3>1, <4>1
      <4>5. items'[pos' + 1] = items[pos + 1]
        BY <2>6, <4>1
      <4> QED
        BY <2>7, <3>5, <4>3, <4>4, <4>5
    <3>6. visited' # Nobody => /\ pos' \in 0 .. Len(items') - 1 /\ items'[pos' + 1] = visited'
                              /\ Behind(pos + 1, items, rest)'
      BY <2>2, <2>4, <2>6, <2>7, <3>4, <3>5
    <3>7. visited' = Nobody => invalid' /\ Behind(pos, items, rest)'
      BY <2>4, <2>7, <3>1, <3>4, <3>5
    <3> QED
      BY <1>0, <2>5, <2>6, <3>1, <3>2, <3>6, <3>7 DEF WalkIsSteady
  <2>10. CASE i - 1 = pos
    <3>1. pos' = pos
      BY <1>0, <2>1, <2>10 DEF Invalidated
    <3>2. invalid' = TRUE
      BY <2>1, <2>10, Zenon DEF Invalidated
    <3>3. ~(i <= pos) /\ i <= pos + 1 /\ pos = pos + 1 - 1 /\ pos + 1 = i
      BY <1>0, <2>10
    <3>4. pos' = Without(i, pos) /\ pos' = Without(i, pos + 1)
      BY <1>0, <3>1, <3>3 DEF Without
    <3>5. /\ Behind(pos, items, rest) => Behind(pos', items', rest')
          /\ Behind(pos + 1, items, rest) => Behind(pos', items', rest')
      BY <2>3, <3>4, Zenon
    <3>6. visited' = Nobody
      BY <1>1, <2>2, <2>7, <3>3
    <3> QED
      BY <1>0, <2>2, <2>4, <2>5, <2>6, <2>7, <3>1, <3>2, <3>5, <3>6 DEF WalkIsSteady
  <2>11. CASE i - 1 > pos
    <3>1. pos' = pos /\ invalid' = invalid
      BY <1>0, <2>1, <2>11 DEF Invalidated
    <3>2. ~(i <= pos) /\ ~(i <= pos + 1)
      BY <1>0, <2>11
    <3>3. pos' = Without(i, pos) /\ pos' + 1 = Without(i, pos + 1)
      BY <1>0, <3>1, <3>2 DEF Without
    <3>4. /\ Behind(pos, items, rest) => Behind(pos', items', rest')
          /\ Behind(pos + 1, items, rest) => Behind(pos' + 1, items', rest')
      BY <2>3, <3>3, Zenon
    <3>5. ASSUME visited # Nobody
          PROVE  visited' = visited /\ pos \in 0 .. n - 1 - 1 /\ items'[pos + 1] = visited
      <4>1. pos + 1 \in 1 .. n - 1 /\ pos + 1 < i /\ pos + 1 \in 1 .. n /\ pos + 1 # i
        BY <1>0, <2>5, <2>11
      <4>2. items[pos + 1] # c
        BY <1>0, <1>1, <4>1 DEF IsInjective
      <4>3. visited' = visited
        BY <2>2, <2>7, <3>5, <4>2
      <4>4. pos \in 0 .. n - 1 - 1
        BY <1>0, <2>5, <4>1
      <4>5. items'[pos + 1] = items[pos + 1]
        BY <2>6, <4>1
      <4> QED
        BY <2>7, <3>5, <4>3, <4>4, <4>5
    <3>6. visited' # Nobody => /\ pos' \in 0 .. Len(items') - 1 /\ items'[pos' + 1] = visited'
                              /\ Behind(pos + 1, items, rest)'
      BY <2>2, <2>4, <2>6, <2>7, <3>1, <3>4, <3>5
    <3>7. visited' = Nobody => invalid' /\ Behind(pos, items, rest)'
      BY <2>4, <2>7, <3>1, <3>4, <3>5
    <3> QED
      BY <1>0, <2>5, <2>6, <3>1, <3>6, <3>7 DEF WalkIsSteady
  <2> QED
    BY <1>0, <2>9, <2>10, <2>11
<1> QED
  BY <1>3, <1>4 DEF Leave

-----------------------------------------------------------------------------
(* The theorems.                                                           *)

SparesAreSteady == ElevatorIsSteady /\ WalkIsSteady

\* A step is one of either; the other is left alone.
SparesNext == \/ Next /\ UNCHANGED elevator
              \/ ElevatorNext /\ UNCHANGED vars

LEMMA SparesStep ==
    ASSUME SparesAreSteady, [SparesNext]_<<vars, elevator>>
    PROVE  SparesAreSteady'
<1>1. UNCHANGED elevator => ElevatorIsSteady'
  BY DEF SparesAreSteady, ElevatorIsSteady, StopsAreOrdered, elevator
<1>2. UNCHANGED vars => WalkIsSteady'
  BY DEF SparesAreSteady, WalkIsSteady, Behind, vars
<1>3. ElevatorNext => ElevatorIsSteady'
  <2>1. TimerFires => ElevatorIsSteady'
    BY DEF SparesAreSteady, ElevatorIsSteady, StopsAreOrdered, TimerFires
  <2>2. ASSUME NEW f \in Floors, Call(f)
        PROVE  ElevatorIsSteady'
    BY <2>2, FirstStop, LaterStop DEF SparesAreSteady
  <2> QED
    BY <2>1, <2>2 DEF ElevatorNext
<1>4. Next => WalkIsSteady'
  BY NextKeeps, PrevKeeps, EnterKeeps, LeaveKeeps DEF Next, SparesAreSteady
<1> QED
  BY <1>1, <1>2, <1>3, <1>4 DEF SparesNext, SparesAreSteady

\* Whatever floors are called in whatever order, no stop is there twice, and
\* those ahead are in the order in which the elevator passes them.
THEOREM StopsStayOrdered == SparesSpec => []StopsAreOrdered
<1>1. SparesAreSteady => StopsAreOrdered
  BY DEF SparesAreSteady, ElevatorIsSteady
<1>2. SparesInit => SparesAreSteady
  BY InitIsSteady DEF SparesAreSteady
<1>3. SparesAreSteady /\ [SparesNext]_<<vars, elevator>> => SparesAreSteady'
  BY SparesStep
<1> QED
  BY <1>1, <1>2, <1>3, PTL DEF SparesSpec, SparesNext

\* However many callers come and go during a walk, its position stays with the
\* caller that was returned last, or with those who followed it.
THEOREM PlaceStaysKept == SparesSpec => []PlaceIsKept
<1>1. SparesAreSteady => PlaceIsKept
  <2> SUFFICES ASSUME WalkIsSteady, raised = "none", pos # -1
               PROVE  IF visited # Nobody
                      THEN /\ pos < Len(items) /\ items[pos + 1] = visited
                           /\ rest = SubSeq(items, pos + 2, Len(items))
                      ELSE invalid /\ rest = SubSeq(items, pos + 1, Len(items))
    BY DEF SparesAreSteady, PlaceIsKept
  <2>1. items \in Seq(Callers) /\ Len(items) \in Nat /\ pos \in Int
    BY LenProperties DEF WalkIsSteady
  <2>2. CASE visited # Nobody
    <3>1. pos \in 0 .. Len(items) - 1 /\ items[pos + 1] = visited /\ Behind(pos + 1, items, rest)
      BY <2>2 DEF WalkIsSteady
    <3>2. pos + 1 \in 0 .. Len(items) /\ pos + 1 + 1 = pos + 2 /\ pos < Len(items)
      BY <2>1, <3>1
    <3>3. rest = SubSeq(items, pos + 1 + 1, Len(items))
      BY <2>1, <3>1, <3>2, BehindIsPart
    <3> QED
      BY <2>2, <3>1, <3>2, <3>3
  <2>3. CASE visited = Nobody
    <3>1. invalid /\ Behind(pos, items, rest)
      BY <2>3 DEF WalkIsSteady
    <3>2. pos \in 0 .. Len(items)
      BY <3>1 DEF Behind
    <3> QED
      BY <2>1, <2>3, <3>1, <3>2, BehindIsPart
  <2> QED
    BY <2>2, <2>3
<1>2. SparesInit => SparesAreSteady
  BY InitIsSteady DEF SparesAreSteady
<1>3. SparesAreSteady /\ [SparesNext]_<<vars, elevator>> => SparesAreSteady'
  BY SparesStep
<1> QED
  BY <1>1, <1>2, <1>3, PTL DEF SparesSpec, SparesNext
=============================================================================
