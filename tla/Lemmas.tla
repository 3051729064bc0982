------------------------------- MODULE Lemmas -------------------------------
(***************************************************************************)
(* Induction over the natural numbers, what it gives for functions that    *)
(* are defined by recursion over them, and facts about lists.  The         *)
(* theorems of NaturalsInduction take operators as parameters, which the   *)
(* provers used here cannot instantiate; these take sets and functions.    *)
(***************************************************************************)
EXTENDS Integers, Sequences, SequenceTheorems, WellFoundedInduction, TLAPS

\* Numbers that are some have a least one.
LEMMA LeastNumber ==
    ASSUME NEW U \in SUBSET Nat, U # {}
    PROVE  \E x \in U : \A y \in U : x <= y
<1> DEFINE R == {p \in Nat \X Nat : p[1] < p[2]}
<1>1. IsWellFoundedOn(R, Nat)
  BY NatLessThanWellFounded DEF OpToRel
<1>2. \A x, y \in Nat : <<y, x>> \in R <=> y < x
  OBVIOUS
<1> HIDE DEF R
<1>3. \E x \in U : \A y \in U : ~(<<y, x>> \in R)
  BY <1>1, WFMin, Zenon
<1>4. \A x, y \in U : x \in Nat /\ y \in Nat /\ (~(y < x) => x <= y)
  OBVIOUS
<1>5. \E x \in U : \A y \in U : ~(y < x)
  BY <1>2, <1>3, <1>4
<1> QED
  BY <1>4, <1>5

\* A set of numbers with 0, and with n + 1 for each of its n, has them all:
\* loops are reasoned about with the set of the numbers of passes after which
\* the loop invariant holds.
LEMMA SetInduction ==
    ASSUME NEW T \in SUBSET Nat, 0 \in T, \A n \in T : n + 1 \in T
    PROVE  T = Nat
<1> SUFFICES ASSUME Nat \ T # {}
             PROVE  FALSE
  OBVIOUS
<1> DEFINE U == Nat \ T
<1>1. U \in SUBSET Nat /\ U # {}
  OBVIOUS
<1> HIDE DEF U
<1>2. PICK x \in U : \A y \in U : x <= y
  BY <1>1, LeastNumber
<1>3. x - 1 \in T /\ x = (x - 1) + 1
  BY <1>2 DEF U
<1> QED
  BY <1>2, <1>3 DEF U

\* The passes of a loop over the states of S, and a function of the states
\* after each of n passes from base.
Passes(S) == [Nat -> [S -> S]]
Outcome(f, S, base, step, n) ==
    f \in [0 .. n -> S] /\ f[0] = base /\ \A i \in 1 .. n : f[i] = step[i][f[i - 1]]

\* A loop of n passes has an outcome, so that a function that is defined by
\* recursion over the numbers is what its definition says.
LEMMA Iteration ==
    ASSUME NEW S, NEW base \in S, NEW step \in Passes(S), NEW n \in Nat
    PROVE  \E f : Outcome(f, S, base, step, n)
<1>0. step \in [Nat -> [S -> S]]
  BY DEF Passes
<1> DEFINE Good(m, f) == f[0] = base /\ \A i \in 1 .. m : f[i] = step[i][f[i - 1]]
           T == {m \in Nat : \E f \in [0 .. m -> S] : Good(m, f)}
<1>1. 0 \in T
  <2> DEFINE f == [i \in 0 .. 0 |-> base]
  <2>1. f \in [0 .. 0 -> S] /\ Good(0, f)
    OBVIOUS
  <2> QED
    BY <2>1
<1>2. ASSUME NEW m \in T
      PROVE  m + 1 \in T
  <2>1. PICK f \in [0 .. m -> S] : Good(m, f)
    OBVIOUS
  <2> DEFINE g == [i \in 0 .. m + 1 |-> IF i = m + 1 THEN step[m + 1][f[m]] ELSE f[i]]
  <2>2. m \in Nat /\ f[m] \in S
    OBVIOUS
  <2>3. step[m + 1][f[m]] \in S
    BY <1>0, <2>2
  <2>4. g \in [0 .. m + 1 -> S]
    BY <2>2, <2>3
  <2>5. Good(m + 1, g)
    BY <2>1, <2>2
  <2> HIDE DEF Good, g
  <2> QED
    BY <2>2, <2>4, <2>5
<1> HIDE DEF T
<1>3. T = Nat
  <2>1. T \in SUBSET Nat
    BY DEF T
  <2> QED
    BY <1>1, <1>2, <2>1, SetInduction
<1> QED
  BY <1>3 DEF T, Outcome

\* Passes that start alike, and go on alike, are alike.
Alike(n, f, g) == g[0] = f[0] /\ \A i \in 1 .. n : g[i - 1] = f[i - 1] => g[i] = f[i]

LEMMA OneOutcome ==
    ASSUME NEW n \in Nat, NEW f, NEW g, Alike(n, f, g)
    PROVE  \A i \in 0 .. n : g[i] = f[i]
<1> DEFINE T == {k \in Nat : k <= n => g[k] = f[k]}
<1>1. 0 \in T
  BY DEF Alike
<1>2. ASSUME NEW k \in T
      PROVE  k + 1 \in T
  <2>1. SUFFICES ASSUME k + 1 <= n
                 PROVE  g[k + 1] = f[k + 1]
    OBVIOUS
  <2>2. k + 1 \in 1 .. n /\ (k + 1) - 1 = k /\ g[k] = f[k]
    BY <2>1
  <2> QED
    BY <2>2 DEF Alike
<1> HIDE DEF T
<1>3. T = Nat
  <2> T \in SUBSET Nat
    BY DEF T
  <2> QED
    BY <1>1, <1>2, SetInduction
<1> QED
  BY <1>3 DEF T

-----------------------------------------------------------------------------
(* Lists.                                                                  *)

\* Append, element by element.
LEMMA Appending ==
    ASSUME NEW S, NEW s \in Seq(S), NEW x \in S
    PROVE  /\ Append(s, x) \in Seq(S)
           /\ Len(s) \in Nat /\ Len(Append(s, x)) = Len(s) + 1
           /\ DOMAIN s = 1 .. Len(s) /\ DOMAIN Append(s, x) = 1 .. Len(s) + 1
           /\ \A i \in 1 .. Len(s) : Append(s, x)[i] = s[i]
           /\ Append(s, x)[Len(s) + 1] = x
BY AppendProperties, LenProperties

\* r is a list of S made of a and b; of the elements m to n of s.
Joined(S, r, a, b) == /\ r \in Seq(S)
                      /\ Len(r) = Len(a) + Len(b) /\ DOMAIN r = 1 .. Len(a) + Len(b)
                      /\ \A i \in 1 .. Len(a) : r[i] = a[i]
                      /\ \A i \in 1 .. Len(b) : r[Len(a) + i] = b[i]
Part(S, r, s, m, n) == /\ r \in Seq(S) /\ Len(r) = n + 1 - m
                       /\ \A i \in 1 .. n + 1 - m : r[i] = s[m + i - 1]

\* Two lists put together.
LEMMA Joining ==
    ASSUME NEW S, NEW a \in Seq(S), NEW b \in Seq(S), NEW r, r = a \o b
    PROVE  Joined(S, r, a, b)
<1>1. Len(a) \in Nat /\ Len(b) \in Nat
  BY LenProperties
<1>2. /\ r \in Seq(S) /\ Len(r) = Len(a) + Len(b)
      /\ \A i \in 1 .. Len(a) + Len(b) : r[i] = IF i <= Len(a) THEN a[i] ELSE b[i - Len(a)]
  BY ConcatProperties
<1>3. ASSUME NEW i \in 1 .. Len(b)
      PROVE  r[Len(a) + i] = b[i]
  <2>1. Len(a) + i \in 1 .. Len(a) + Len(b) /\ ~(Len(a) + i <= Len(a)) /\ Len(a) + i - Len(a) = i
    BY <1>1
  <2> QED
    BY <1>2, <2>1
<1>4. \A i \in 1 .. Len(a) : i \in 1 .. Len(a) + Len(b) /\ i <= Len(a)
  BY <1>1
<1>5. DOMAIN r = 1 .. Len(a) + Len(b)
  BY <1>2, LenProperties
<1> QED
  BY <1>2, <1>3, <1>4, <1>5 DEF Joined

\* A part of a list.
LEMMA Cutting ==
    ASSUME NEW S, NEW s \in Seq(S), NEW m \in 1 .. Len(s) + 1, NEW n \in 0 .. Len(s), m <= n + 1,
           NEW r, r = SubSeq(s, m, n)
    PROVE  Part(S, r, s, m, n)
<1>1. Len(s) \in Nat /\ \A i \in 1 .. Len(s) : s[i] \in S
  BY LenProperties, ElementOfSeq
<1>2. m \in Int /\ n \in Int /\ \A i \in m .. n : s[i] \in S
  BY <1>1
<1>3. /\ r \in Seq(S)
      /\ Len(r) = IF m <= n THEN n - m + 1 ELSE 0
      /\ \A i \in 1 .. n - m + 1 : r[i] = s[m + i - 1]
  BY <1>2, SubSeqProperties
<1>4. n - m + 1 = n + 1 - m /\ (~(m <= n) => n + 1 - m = 0)
  BY <1>1
<1> QED
  BY <1>3, <1>4 DEF Part
=============================================================================
