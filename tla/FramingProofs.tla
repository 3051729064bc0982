---------------------------- MODULE FramingProofs ----------------------------
(***************************************************************************)
(* Theorems about Framing, for any number of messages and any reads: what  *)
(* the framing of either side does to a stream of messages, and that it    *)
(* implements the safety part of Channel.                                  *)
(***************************************************************************)
EXTENDS Framing, Lemmas

Lines == Seq(Seq(Unit))

-----------------------------------------------------------------------------
(* The stream of messages, unit by unit.                                   *)

PieceOf(o) == IF o = 0 THEN "head" ELSE IF o = 1 THEN "tail" ELSE "end"

\* The unit that p units come before, when all of ms are sent.
Piece(ms, p) == [part |-> PieceOf(p % 3), of |-> ms[p \div 3 + 1]]

\* The first o units of m, fewer than all; two of them are a line.
Begun(m, o) == IF o = 0 THEN <<>>
               ELSE IF o = 1 THEN <<[part |-> "head", of |-> m]>>
               ELSE <<[part |-> "head", of |-> m], [part |-> "tail", of |-> m]>>

\* What is on the wire when the first p units were read.
Following(w, ms, p) == /\ w \in Seq(Unit) /\ p \in 0 .. 3 * Len(ms) /\ Len(w) = 3 * Len(ms) - p
                       /\ \A i \in 1 .. Len(w) : w[i] = Piece(ms, p + i - 1)

LEMMA Thirds ==
    ASSUME NEW p \in Nat
    PROVE  p % 3 \in 0 .. 2 /\ p \div 3 \in Nat /\ p = 3 * (p \div 3) + (p % 3)
OBVIOUS

LEMMA ThirdsAre ==
    ASSUME NEW k \in Nat, NEW o \in 0 .. 2
    PROVE  (3 * k + o) % 3 = o /\ (3 * k + o) \div 3 = k /\ 3 * k + o \in Nat
OBVIOUS

LEMMA PieceIs ==
    ASSUME NEW ms, NEW k \in Nat, NEW o \in 0 .. 2
    PROVE  Piece(ms, 3 * k + o) = [part |-> PieceOf(o), of |-> ms[k + 1]]
<1> DEFINE p == 3 * k + o
<1>1. p % 3 = o /\ p \div 3 = k
  BY ThirdsAre
<1> HIDE DEF p
<1>2. Piece(ms, p) = [part |-> PieceOf(o), of |-> ms[k + 1]]
  BY <1>1 DEF Piece
<1> QED
  BY <1>2 DEF p

LEMMA PieceType ==
    ASSUME NEW ms \in Seq(Message), NEW p \in 0 .. 3 * Len(ms) - 1
    PROVE  Piece(ms, p) \in Unit
<1>1. Len(ms) \in Nat /\ p \in Nat
  BY LenProperties
<1>2. p % 3 \in 0 .. 2 /\ p \div 3 \in Nat /\ p = 3 * (p \div 3) + (p % 3)
  BY <1>1, Thirds
<1>3. p \div 3 + 1 \in 1 .. Len(ms)
  BY <1>1, <1>2
<1>4. ms[p \div 3 + 1] \in Message
  BY <1>3, ElementOfSeq
<1> QED
  BY <1>4 DEF Piece, PieceOf, Unit

LEMMA UnitsType ==
    ASSUME NEW m \in Message
    PROVE  /\ Units(m) \in Seq(Unit) /\ Len(Units(m)) = 3
           /\ \A o \in 0 .. 2 : Units(m)[o + 1] = [part |-> PieceOf(o), of |-> m]
<1> DEFINE h == [part |-> "head", of |-> m]
           t == [part |-> "tail", of |-> m]
           e == [part |-> "end", of |-> m]
<1>1. h \in Unit /\ t \in Unit /\ e \in Unit
  BY DEF Unit
<1>2. PieceOf(0) = "head" /\ PieceOf(1) = "tail" /\ PieceOf(2) = "end"
  BY DEF PieceOf
<1>3. Units(m) = <<h, t, e>>
  BY DEF Units
<1>4. \A o \in 0 .. 2 : o = 0 \/ o = 1 \/ o = 2
  OBVIOUS
<1>5. /\ Units(m)[0 + 1] = [part |-> PieceOf(0), of |-> m]
      /\ Units(m)[1 + 1] = [part |-> PieceOf(1), of |-> m]
      /\ Units(m)[2 + 1] = [part |-> PieceOf(2), of |-> m]
  BY <1>2, <1>3
<1>6. \A o \in 0 .. 2 : Units(m)[o + 1] = [part |-> PieceOf(o), of |-> m]
  BY <1>4, <1>5
<1> HIDE DEF h, t, e
<1>7. Units(m) \in Seq(Unit) /\ Len(Units(m)) = 3
  BY <1>1, <1>3
<1> QED
  BY <1>6, <1>7

LEMMA BegunType ==
    ASSUME NEW m, NEW o \in 0 .. 2
    PROVE  /\ Len(Begun(m, o)) = o
           /\ \A i \in 1 .. o : Begun(m, o)[i] = [part |-> PieceOf(i - 1), of |-> m]
           /\ Begun(m, 0) = <<>>
<1>1. CASE o = 0
  BY <1>1 DEF Begun
<1>2. CASE o = 1
  BY <1>2 DEF Begun, PieceOf
<1>3. CASE o = 2
  BY <1>3 DEF Begun, PieceOf
<1> QED
  BY <1>1, <1>2, <1>3

\* A message is sent: the stream grows by its three units.
LEMMA SendingFollows ==
    ASSUME NEW ms \in Seq(Message), NEW m \in Message, NEW w, NEW p, Following(w, ms, p),
           NEW ns, ns = Append(ms, m), NEW v, v = w \o Units(m)
    PROVE  Following(v, ns, p)
<1> DEFINE n == Len(ms)
           u == Units(m)
<1>1. /\ n \in Nat /\ ns \in Seq(Message) /\ Len(ns) = n + 1 /\ ns[n + 1] = m
      /\ \A i \in 1 .. n : ns[i] = ms[i]
  BY Appending
<1>2. /\ w \in Seq(Unit) /\ p \in 0 .. 3 * n /\ Len(w) = 3 * n - p
      /\ \A i \in 1 .. Len(w) : w[i] = Piece(ms, p + i - 1)
  BY DEF Following
<1>3. u \in Seq(Unit) /\ Len(u) = 3 /\ \A o \in 0 .. 2 : u[o + 1] = [part |-> PieceOf(o), of |-> m]
  BY UnitsType
<1> HIDE DEF n, u
<1>4. Joined(Unit, v, w, u)
  BY <1>2, <1>3, Joining DEF u
<1>5. v \in Seq(Unit) /\ Len(v) = 3 * (n + 1) - p /\ p \in 0 .. 3 * (n + 1)
  BY <1>1, <1>2, <1>3, <1>4 DEF Joined
<1>6. ASSUME NEW i \in 1 .. Len(w)
      PROVE  v[i] = Piece(ns, p + i - 1)
  <2> DEFINE q == p + i - 1
  <2>1. q \in Nat /\ q < 3 * n
    BY <1>1, <1>2
  <2> HIDE DEF q
  <2>2. q % 3 \in 0 .. 2 /\ q \div 3 \in Nat /\ q = 3 * (q \div 3) + (q % 3)
    BY <2>1, Thirds
  <2>3. q \div 3 + 1 \in 1 .. n
    BY <1>1, <2>1, <2>2
  <2>4. Piece(ns, q) = Piece(ms, q)
    BY <1>1, <2>3 DEF Piece
  <2> QED
    BY <1>2, <1>4, <2>4 DEF Joined, q
<1>7. ASSUME NEW i \in Len(w) + 1 .. Len(w) + 3
      PROVE  v[i] = Piece(ns, p + i - 1)
  <2> DEFINE o == i - Len(w) - 1
  <2>1. o \in 0 .. 2 /\ p + i - 1 = 3 * n + o /\ i = Len(w) + (o + 1) /\ o + 1 \in 1 .. 3
    BY <1>1, <1>2
  <2> HIDE DEF o
  <2>2. Piece(ns, 3 * n + o) = [part |-> PieceOf(o), of |-> m]
    BY <1>1, <2>1, PieceIs
  <2>3. v[i] = u[o + 1]
    BY <1>3, <1>4, <2>1 DEF Joined
  <2> QED
    BY <1>3, <2>1, <2>2, <2>3
<1>8. \A i \in 1 .. Len(v) : i \in 1 .. Len(w) \/ i \in Len(w) + 1 .. Len(w) + 3
  BY <1>1, <1>2, <1>5
<1> QED
  BY <1>1, <1>5, <1>6, <1>7, <1>8 DEF Following
-----------------------------------------------------------------------------
(* Lines.                                                                  *)

Splitting == [lines : Lines, rest : Seq(Unit)]

LEMMA CutIs ==
    ASSUME NEW s \in Splitting, NEW u \in Unit
    PROVE  /\ Cut(s, u) \in Splitting
           /\ s.lines \in Lines /\ s.rest \in Seq(Unit)
           /\ u.part = "end" => Cut(s, u).lines = Append(s.lines, s.rest) /\ Cut(s, u).rest = <<>>
           /\ u.part # "end" => Cut(s, u).lines = s.lines /\ Cut(s, u).rest = Append(s.rest, u)
<1>1. s.lines \in Lines /\ s.rest \in Seq(Unit)
  BY DEF Splitting
<1>2. Append(s.lines, s.rest) \in Lines /\ Append(s.rest, u) \in Seq(Unit) /\ <<>> \in Seq(Unit)
  BY <1>1, AppendProperties, EmptySeq DEF Lines
<1>3. CASE u.part = "end"
  BY <1>1, <1>2, <1>3 DEF Cut, Splitting
<1>4. CASE u.part # "end"
  <2>1. Cut(s, u) = [lines |-> s.lines, rest |-> Append(s.rest, u)]
    BY <1>4 DEF Cut, Splitting
  <2> QED
    BY <1>1, <1>2, <1>4, <2>1 DEF Splitting
<1> QED
  BY <1>1, <1>3, <1>4

\* The states of the loop of Split.
Splits(at, x, n) == /\ at \in [0 .. n -> Splitting] /\ Split(x) = at[n] /\ at[0] = [lines |-> <<>>, rest |-> <<>>]
                       /\ \A i \in 1 .. n : at[i] = Cut(at[i - 1], x[i])

LEMMA SplitPasses ==
    ASSUME NEW x \in Seq(Unit), NEW n, n = Len(x)
    PROVE  \E at : Splits(at, x, n)
<1> DEFINE base == [lines |-> <<>>, rest |-> <<>>]
           F(g) == [i \in 0 .. n |-> IF i = 0 THEN base ELSE Cut(g[i - 1], x[i])]
           at == CHOOSE g : g = F(g)
           step == [i \in Nat |-> [s \in Splitting |-> IF i \in 1 .. n THEN Cut(s, x[i]) ELSE s]]
<1>0. n \in Nat /\ \A i \in 1 .. n : x[i] \in Unit
  BY LenProperties, ElementOfSeq
<1>1. Split(x) = at[n]
  BY DEF Split
<1>2. base \in Splitting
  BY EmptySeq DEF Splitting, Lines
<1>3. step \in Passes(Splitting)
  BY <1>0, CutIs DEF Passes
<1>4. \A i \in 1 .. n, s \in Splitting : step[i][s] = Cut(s, x[i])
  BY <1>0
<1> HIDE DEF step, base
<1>5. PICK f : Outcome(f, Splitting, base, step, n)
  BY <1>0, <1>2, <1>3, Iteration
<1>6. /\ f \in [0 .. n -> Splitting] /\ f[0] = base
      /\ \A i \in 1 .. n : i - 1 \in 0 .. n /\ f[i] = step[i][f[i - 1]]
  BY <1>0, <1>5 DEF Outcome
<1>7. \A i \in 1 .. n : f[i] = Cut(f[i - 1], x[i])
  BY <1>4, <1>6
<1>8. f = F(f)
  <2>1. \A i \in 0 .. n : f[i] = F(f)[i]
    BY <1>0, <1>6, <1>7
  <2> QED
    BY <1>6, <2>1
<1> HIDE DEF F
<1>9. at = F(at)
  BY <1>8
<1> HIDE DEF at
<1>10. /\ at = [i \in 0 .. n |-> at[i]] /\ at[0] = base
       /\ \A i \in 1 .. n : at[i] = Cut(at[i - 1], x[i])
  BY <1>0, <1>9 DEF F
<1>11. \A i \in 1 .. n : at[i - 1] = f[i - 1] => at[i] = f[i]
  BY <1>7, <1>10
<1>12. \A i \in 0 .. n : at[i] = f[i]
  <2>1. Alike(n, f, at)
    BY <1>6, <1>10, <1>11 DEF Alike
  <2> QED
    BY <1>0, <2>1, OneOutcome
<1>13. at \in [0 .. n -> Splitting]
  BY <1>6, <1>10, <1>12
<1> QED
  BY <1>1, <1>10, <1>13 DEF base, Splits
-----------------------------------------------------------------------------
(* Messages.                                                               *)

\* What makes a line a message.
LEMMA LineIs ==
    ASSUME NEW m \in Message
    PROVE  Begun(m, 2) \in Seq(Unit) /\ IsMessage(Begun(m, 2)) /\ Begun(m, 2)[1].of = m
<1> DEFINE h == [part |-> "head", of |-> m]
           t == [part |-> "tail", of |-> m]
           line == Begun(m, 2)
           units == Units(m)
           sub == SubSeq(units, 1, 2)
<1>1. h \in Unit /\ t \in Unit /\ h.of = m /\ PieceOf(0) = "head" /\ PieceOf(1) = "tail"
  BY DEF Unit, PieceOf
<1>2. line = <<h, t>>
  BY DEF Begun
<1>3. line \in Seq(Unit) /\ Len(line) = 2 /\ line[1] = h /\ line[2] = t /\ DOMAIN line = 1 .. 2
  <2> HIDE DEF h, t, line
  <2> QED
    BY <1>1, <1>2
<1>4. units \in Seq(Unit) /\ Len(units) = 3 /\ units[1] = h /\ units[2] = t
  <2>1. units \in Seq(Unit) /\ Len(units) = 3
    BY UnitsType
  <2> QED
    BY <2>1 DEF Units
<1> HIDE DEF line, units, h, t
<1>5. Part(Unit, sub, units, 1, 2)
  <2>1. sub = SubSeq(units, 1, 2) /\ 1 \in 1 .. Len(units) + 1 /\ 2 \in 0 .. Len(units) /\ 1 <= 2 + 1
    BY <1>4
  <2> HIDE DEF sub
  <2> QED
    BY <1>4, <2>1, Cutting
<1> HIDE DEF sub
<1>6. sub \in Seq(Unit) /\ Len(sub) = 2 /\ sub[1] = h /\ sub[2] = t
  <2>1. sub \in Seq(Unit) /\ Len(sub) = 2 /\ \A i \in 1 .. 2 : sub[i] = units[1 + i - 1]
    BY <1>5 DEF Part
  <2> QED
    BY <1>4, <2>1
<1>7. line = sub
  <2>1. \A i \in 1 .. 2 : line[i] = sub[i]
    BY <1>3, <1>6
  <2> QED
    BY <1>3, <1>6, <2>1, SeqEqual
<1>8. h \in Range(line)
  BY <1>3 DEF Range
<1>9. IsMessage(line)
  BY <1>1, <1>7, <1>8 DEF IsMessage, sub, units
<1> QED
  BY <1>1, <1>3, <1>9 DEF line

LEMMA MessageIs ==
    ASSUME NEW line \in Seq(Unit), IsMessage(line)
    PROVE  Len(line) = 2 /\ line[1].of \in Message
<1>1. PICK m \in {u.of : u \in Range(line)} : line = SubSeq(Units(m), 1, 2)
  BY DEF IsMessage
<1>2. m \in Message
  <2>1. PICK i \in DOMAIN line : m = line[i].of
    BY <1>1 DEF Range
  <2>2. line[i] \in Unit
    BY <2>1, ElementOfSeq, LenProperties
  <2> QED
    BY <2>1, <2>2 DEF Unit
<1> DEFINE units == Units(m)
<1>3. units \in Seq(Unit) /\ Len(units) = 3
  BY <1>2, UnitsType
<1> HIDE DEF units
<1>4. Part(Unit, line, units, 1, 2)
  <2>1. line = SubSeq(units, 1, 2) /\ 1 \in 1 .. Len(units) + 1 /\ 2 \in 0 .. Len(units) /\ 1 <= 2 + 1
    BY <1>1, <1>3 DEF units
  <2> QED
    BY <1>3, <2>1, Cutting
<1>5. Len(line) = 2
  BY <1>4 DEF Part
<1>6. line[1] \in Unit
  BY <1>5, ElementOfSeq
<1> QED
  BY <1>5, <1>6 DEF Unit

-----------------------------------------------------------------------------
(* The handlers' loops over the lines.                                     *)

Serving  == [served : Seq(Message), failed : BOOLEAN]
Handling == [handled : Seq(Message), how : {"on", "returned", "raised"}]

LEMMA ServeIs ==
    ASSUME NEW s \in Serving, NEW line \in Seq(Unit)
    PROVE  /\ Serve(s, line) \in Serving
           /\ s.served \in Seq(Message)
           /\ ~s.failed /\ IsMessage(line) =>
                 Serve(s, line).served = Append(s.served, line[1].of) /\ ~Serve(s, line).failed
<1>1. s.served \in Seq(Message) /\ s.failed \in BOOLEAN
  BY DEF Serving
<1>2. CASE s.failed \/ ~IsMessage(line)
  <2>1. Serve(s, line) = [served |-> s.served, failed |-> TRUE]
    BY <1>2 DEF Serve, Serving
  <2> QED
    BY <1>1, <1>2, <2>1 DEF Serving
<1>3. CASE ~s.failed /\ IsMessage(line)
  <2>1. line[1].of \in Message
    BY <1>3, MessageIs
  <2>2. Append(s.served, line[1].of) \in Seq(Message)
    BY <1>1, <2>1, AppendProperties
  <2>3. s.failed = FALSE
    BY <1>1, <1>3
  <2>4. Serve(s, line) = [served |-> Append(s.served, line[1].of), failed |-> FALSE]
    BY <1>3, <2>3 DEF Serve, Serving
  <2> QED
    BY <1>1, <2>2, <2>4 DEF Serving
<1> QED
  BY <1>2, <1>3

LEMMA HandleIs ==
    ASSUME NEW h \in Handling, NEW line \in Seq(Unit)
    PROVE  /\ Handle(h, line) \in Handling
           /\ h.handled \in Seq(Message) /\ h.how \in {"on", "returned", "raised"}
           /\ h.how # "on" => Handle(h, line) = h
           /\ h.how = "on" /\ IsMessage(line) =>
                 /\ Handle(h, line).handled = Append(h.handled, line[1].of)
                 /\ Handle(h, line).how \in {"on", "returned"}
           /\ h.how = "on" /\ line # <<>> /\ ~IsMessage(line) =>
                 Handle(h, line).handled = h.handled /\ Handle(h, line).how = "raised"
<1>1. h.handled \in Seq(Message) /\ h.how \in {"on", "returned", "raised"}
  BY DEF Handling
<1>2. IsMessage(line) => Len(line) = 2 /\ line[1].of \in Message
  BY MessageIs
<1>3. IsMessage(line) => line # <<>>
  <2>1. line = <<>> => ~(Len(line) = 2)
    OBVIOUS
  <2> QED
    BY <1>2, <2>1
<1>4. IsMessage(line) => Append(h.handled, line[1].of) \in Seq(Message)
  BY <1>1, <1>2, AppendProperties
<1>5. CASE h.how # "on" \/ line = <<>>
  BY <1>1, <1>3, <1>5 DEF Handle
<1>6. CASE h.how = "on" /\ line # <<>> /\ ~IsMessage(line)
  <2>1. Handle(h, line) = [handled |-> h.handled, how |-> "raised"]
    BY <1>6 DEF Handle, Handling
  <2> QED
    BY <1>1, <1>6, <2>1 DEF Handling
<1>7. CASE h.how = "on" /\ IsMessage(line)
  <2>1. PICK how \in {"on", "returned"} :
           Handle(h, line) = [handled |-> Append(h.handled, line[1].of), how |-> how]
    BY <1>3, <1>7 DEF Handle
  <2> QED
    BY <1>1, <1>4, <1>7, <2>1 DEF Handling
<1> QED
  BY <1>3, <1>5, <1>6, <1>7

\* The states of the loop of Served.
Serves(at, x, n) == /\ at \in [0 .. n -> Serving] /\ Served(x) = at[n] /\ at[0] = [served |-> served, failed |-> FALSE]
                       /\ \A i \in 1 .. n : at[i] = Serve(at[i - 1], x[i])

LEMMA ServedPasses ==
    ASSUME served \in Seq(Message), NEW x \in Lines, NEW n, n = Len(x)
    PROVE  \E at : Serves(at, x, n)
<1> DEFINE base == [served |-> served, failed |-> FALSE]
           F(g) == [i \in 0 .. n |-> IF i = 0 THEN base ELSE Serve(g[i - 1], x[i])]
           at == CHOOSE g : g = F(g)
           step == [i \in Nat |-> [s \in Serving |-> IF i \in 1 .. n THEN Serve(s, x[i]) ELSE s]]
<1>0. n \in Nat /\ \A i \in 1 .. n : x[i] \in Seq(Unit)
  BY LenProperties, ElementOfSeq DEF Lines
<1>  n \in Nat
  BY <1>0
<1>1. Served(x) = at[n]
  BY DEF Served
<1>2. base \in Serving
  BY DEF Serving
<1>3. step \in Passes(Serving)
  BY <1>0, ServeIs DEF Passes
<1>4. \A i \in 1 .. n, s \in Serving : step[i][s] = Serve(s, x[i])
  BY <1>0
<1> HIDE DEF step, base
<1>5. PICK f : Outcome(f, Serving, base, step, n)
  BY <1>0, <1>2, <1>3, Iteration
<1>6. /\ f \in [0 .. n -> Serving] /\ f[0] = base
      /\ \A i \in 1 .. n : i - 1 \in 0 .. n /\ f[i] = step[i][f[i - 1]]
  BY <1>0, <1>5 DEF Outcome
<1>7. \A i \in 1 .. n : f[i] = Serve(f[i - 1], x[i])
  BY <1>4, <1>6
<1>8. f = F(f)
  <2>1. \A i \in 0 .. n : f[i] = F(f)[i]
    BY <1>0, <1>6, <1>7
  <2> QED
    BY <1>6, <2>1
<1> HIDE DEF F
<1>9. at = F(at)
  BY <1>8
<1> HIDE DEF at
<1>10. /\ at = [i \in 0 .. n |-> at[i]] /\ at[0] = base
       /\ \A i \in 1 .. n : at[i] = Serve(at[i - 1], x[i])
  BY <1>9 DEF F
<1>11. \A i \in 1 .. n : at[i - 1] = f[i - 1] => at[i] = f[i]
  BY <1>7, <1>10
<1>12. \A i \in 0 .. n : at[i] = f[i]
  <2>1. Alike(n, f, at)
    BY <1>6, <1>10, <1>11 DEF Alike
  <2> QED
    BY <1>0, <2>1, OneOutcome
<1>13. at \in [0 .. n -> Serving]
  BY <1>6, <1>10, <1>12
<1> QED
  BY <1>1, <1>10, <1>13 DEF base, Serves

\* The states of the loop of Handled.
Handles(at, x, n) == /\ at \in [0 .. n -> Handling] /\ Handled(x) = at[n] /\ at[0] = [handled |-> handled, how |-> "on"]
                        /\ \A i \in 1 .. n : at[i] = Handle(at[i - 1], x[i])

LEMMA HandledPasses ==
    ASSUME handled \in Seq(Message), NEW x \in Lines, NEW n, n = Len(x)
    PROVE  \E at : Handles(at, x, n)
<1> DEFINE base == [handled |-> handled, how |-> "on"]
           F(g) == [i \in 0 .. n |-> IF i = 0 THEN base ELSE Handle(g[i - 1], x[i])]
           at == CHOOSE g : g = F(g)
           step == [i \in Nat |-> [s \in Handling |-> IF i \in 1 .. n THEN Handle(s, x[i]) ELSE s]]
<1>0. n \in Nat /\ \A i \in 1 .. n : x[i] \in Seq(Unit)
  BY LenProperties, ElementOfSeq DEF Lines
<1>  n \in Nat
  BY <1>0
<1>1. Handled(x) = at[n]
  BY DEF Handled
<1>2. base \in Handling
  BY DEF Handling
<1>3. step \in Passes(Handling)
  BY <1>0, HandleIs DEF Passes
<1>4. \A i \in 1 .. n, s \in Handling : step[i][s] = Handle(s, x[i])
  BY <1>0
<1> HIDE DEF step, base
<1>5. PICK f : Outcome(f, Handling, base, step, n)
  BY <1>0, <1>2, <1>3, Iteration
<1>6. /\ f \in [0 .. n -> Handling] /\ f[0] = base
      /\ \A i \in 1 .. n : i - 1 \in 0 .. n /\ f[i] = step[i][f[i - 1]]
  BY <1>0, <1>5 DEF Outcome
<1>7. \A i \in 1 .. n : f[i] = Handle(f[i - 1], x[i])
  BY <1>4, <1>6
<1>8. f = F(f)
  <2>1. \A i \in 0 .. n : f[i] = F(f)[i]
    BY <1>0, <1>6, <1>7
  <2> QED
    BY <1>6, <2>1
<1> HIDE DEF F
<1>9. at = F(at)
  BY <1>8
<1> HIDE DEF at
<1>10. /\ at = [i \in 0 .. n |-> at[i]] /\ at[0] = base
       /\ \A i \in 1 .. n : at[i] = Handle(at[i - 1], x[i])
  BY <1>9 DEF F
<1>11. \A i \in 1 .. n : at[i - 1] = f[i - 1] => at[i] = f[i]
  BY <1>7, <1>10
<1>12. \A i \in 0 .. n : at[i] = f[i]
  <2>1. Alike(n, f, at)
    BY <1>6, <1>10, <1>11 DEF Alike
  <2> QED
    BY <1>0, <2>1, OneOutcome
<1>13. at \in [0 .. n -> Handling]
  BY <1>6, <1>10, <1>12
<1> QED
  BY <1>1, <1>10, <1>13 DEF base, Handles

-----------------------------------------------------------------------------
(* What a read is cut into.                                                *)

\* The lines of messages of ms, from h + 1 on.
AreMessages(lines, ms, h) == \A j \in 1 .. Len(lines) : lines[j] = Begun(ms[h + j], 2)

\* A read that starts with a message, after i units.
SplitAt(s, ms, h, i) ==
    /\ s \in Splitting /\ Len(s.lines) = i \div 3 /\ AreMessages(s.lines, ms, h)
    /\ s.rest = Begun(ms[h + i \div 3 + 1], i % 3)

LEMMA BegunGrows ==
    ASSUME NEW m, NEW u, NEW o \in 0 .. 2, u = [part |-> PieceOf(o), of |-> m]
    PROVE  /\ o < 2 => u.part # "end" /\ Append(Begun(m, o), u) = Begun(m, o + 1)
           /\ o = 2 => u.part = "end"
<1>1. CASE o = 0
  BY <1>1 DEF Begun, PieceOf
<1>2. CASE o = 1
  <2> DEFINE h == [part |-> "head", of |-> m]
             S == {h, u}
  <2>1. Begun(m, o) = <<h>> /\ Begun(m, o + 1) = <<h, u>> /\ u.part = "tail"
    BY <1>2 DEF Begun, PieceOf
  <2>2. h \in S /\ u \in S
    OBVIOUS
  <2> HIDE DEF h, S
  <2>3. <<h>> \in Seq(S) /\ <<h, u>> \in Seq(S)
    BY <2>2
  <2>4. Append(<<h>>, u) = <<h, u>>
    <3>1. /\ Append(<<h>>, u) \in Seq(S) /\ Len(Append(<<h>>, u)) = 1 + 1
          /\ \A i \in 1 .. 1 : Append(<<h>>, u)[i] = <<h>>[i]
          /\ Append(<<h>>, u)[1 + 1] = u
      BY <2>2, <2>3, AppendProperties
    <3>2. \A i \in 1 .. 2 : i = 1 \/ i = 2
      OBVIOUS
    <3>3. \A i \in 1 .. 2 : Append(<<h>>, u)[i] = <<h, u>>[i]
      BY <3>1, <3>2
    <3>4. Len(<<h, u>>) = 2 /\ 1 + 1 = 2
      OBVIOUS
    <3>5. Append(<<h>>, u) \in Seq(S) /\ Len(Append(<<h>>, u)) = Len(<<h, u>>)
      BY <3>1, <3>4
    <3>6. \A i \in 1 .. Len(Append(<<h>>, u)) : Append(<<h>>, u)[i] = <<h, u>>[i]
      BY <3>1, <3>3, <3>4
    <3> QED
      BY <2>3, <3>5, <3>6, SeqEqual, Zenon
  <2>5. Append(Begun(m, o), u) = Begun(m, o + 1)
    BY <2>1, <2>4
  <2>6. u.part # "end" /\ ~(o = 2)
    BY <1>2, <2>1
  <2> QED
    BY <2>5, <2>6
<1>3. CASE o = 2
  BY <1>3 DEF PieceOf
<1> QED
  BY <1>1, <1>2, <1>3

LEMMA CutAligned ==
    ASSUME NEW ms \in Seq(Message), NEW h \in Nat, NEW i \in Nat, 3 * h + i < 3 * Len(ms),
           NEW s, SplitAt(s, ms, h, i)
    PROVE  SplitAt(Cut(s, Piece(ms, 3 * h + i)), ms, h, i + 1)
<1> DEFINE k == i \div 3
           o == i % 3
           u == Piece(ms, 3 * h + i)
           m == ms[h + k + 1]
           c == Cut(s, u)
<1>1. k \in Nat /\ o \in 0 .. 2 /\ i = 3 * k + o /\ Len(ms) \in Nat
  BY Thirds, LenProperties
<1>2. s \in Splitting /\ Len(s.lines) = k /\ AreMessages(s.lines, ms, h) /\ s.rest = Begun(m, o)
  BY DEF SplitAt
<1>3. u \in Unit
  <2>1. 3 * h + i \in 0 .. 3 * Len(ms) - 1
    BY <1>1
  <2> QED
    BY <2>1, PieceType
<1>4. u = [part |-> PieceOf(o), of |-> m]
  <2>1. h + k \in Nat /\ 3 * (h + k) + o = 3 * h + i
    BY <1>1
  <2> HIDE DEF k, o
  <2>2. Piece(ms, 3 * (h + k) + o) = [part |-> PieceOf(o), of |-> ms[(h + k) + 1]]
    BY <1>1, <2>1, PieceIs
  <2> QED
    BY <2>1, <2>2
<1> HIDE DEF u, m
<1>5. /\ c \in Splitting /\ s.lines \in Lines /\ s.rest \in Seq(Unit)
      /\ u.part = "end" => c.lines = Append(s.lines, s.rest) /\ c.rest = <<>>
      /\ u.part # "end" => c.lines = s.lines /\ c.rest = Append(s.rest, u)
  BY <1>2, <1>3, CutIs
<1>6. /\ o < 2 => u.part # "end" /\ Append(Begun(m, o), u) = Begun(m, o + 1)
      /\ o = 2 => u.part = "end"
  BY <1>1, <1>4, BegunGrows
<1> HIDE DEF c
<1>7. CASE o < 2
  <2>1. o + 1 \in 0 .. 2 /\ i + 1 = 3 * k + (o + 1)
    BY <1>1, <1>7
  <2>2. (i + 1) \div 3 = k /\ (i + 1) % 3 = o + 1
    BY <1>1, <2>1, ThirdsAre
  <2>3. c.lines = s.lines /\ c.rest = Begun(m, o + 1)
    BY <1>2, <1>5, <1>6, <1>7
  <2>4. SplitAt(c, ms, h, i + 1)
    BY <1>2, <1>5, <2>2, <2>3 DEF SplitAt, m
  <2> QED
    BY <2>4 DEF c, u
<1>8. CASE o = 2
  <2>1. i + 1 = 3 * (k + 1) + 0 /\ k + 1 \in Nat /\ 0 \in 0 .. 2
    BY <1>1, <1>8
  <2>2. (i + 1) \div 3 = k + 1 /\ (i + 1) % 3 = 0
    BY <2>1, ThirdsAre
  <2>3. c.lines = Append(s.lines, s.rest) /\ c.rest = <<>>
    BY <1>5, <1>6, <1>8
  <2>4. Len(c.lines) = k + 1
    BY <1>2, <1>5, <2>3, Appending DEF Lines
  <2>5. AreMessages(c.lines, ms, h)
    <3>1. /\ \A j \in 1 .. k : c.lines[j] = s.lines[j]
          /\ c.lines[k + 1] = s.rest
      BY <1>2, <1>5, <2>3, Appending DEF Lines
    <3>2. \A j \in 1 .. k + 1 : j \in 1 .. k \/ j = k + 1
      BY <1>1
    <3>3. s.rest = Begun(ms[h + (k + 1)], 2)
      <4>1. h + k + 1 = h + (k + 1)
        BY <1>1
      <4> QED
        BY <1>2, <1>8, <4>1 DEF m
    <3> QED
      BY <1>2, <2>4, <3>1, <3>2, <3>3 DEF AreMessages
  <2>6. c.rest = Begun(ms[h + (i + 1) \div 3 + 1], (i + 1) % 3)
    BY <2>2, <2>3 DEF Begun
  <2>7. SplitAt(c, ms, h, i + 1)
    BY <1>5, <2>2, <2>4, <2>5, <2>6 DEF SplitAt
  <2> QED
    BY <2>7 DEF c, u
<1> QED
  BY <1>1, <1>7, <1>8

\* x is of the stream of ms, from its message h + 1 on.
Aligned(x, ms, h) == /\ x \in Seq(Unit) /\ 3 * h + Len(x) <= 3 * Len(ms)
                     /\ \A i \in 1 .. Len(x) : x[i] = Piece(ms, 3 * h + i - 1)

LEMMA SplitAligned ==
    ASSUME NEW ms \in Seq(Message), NEW h \in Nat, NEW x, Aligned(x, ms, h),
           NEW s, s = Split(x)
    PROVE  SplitAt(s, ms, h, Len(x))
<1> DEFINE n == Len(x)
<1>1. n \in Nat /\ Len(ms) \in Nat /\ x \in Seq(Unit)
  BY LenProperties DEF Aligned
<1> HIDE DEF n
<1>0. PICK at : Splits(at, x, n)
  BY <1>1, SplitPasses DEF n
<1>2. /\ at \in [0 .. n -> Splitting] /\ Split(x) = at[n] /\ at[0] = [lines |-> <<>>, rest |-> <<>>]
      /\ \A i \in 1 .. n : at[i] = Cut(at[i - 1], x[i])
  BY <1>0 DEF Splits
<1> DEFINE T == {k \in Nat : k <= n => SplitAt(at[k], ms, h, k)}
<1>3. 0 \in T
  <2>1. at[0] \in Splitting /\ at[0].lines = <<>> /\ at[0].rest = <<>>
    BY <1>1, <1>2
  <2>2. 0 \div 3 = 0 /\ 0 % 3 = 0
    OBVIOUS
  <2>3. SplitAt(at[0], ms, h, 0)
    BY <2>1, <2>2 DEF SplitAt, AreMessages, Begun
  <2> QED
    BY <2>3
<1>4. ASSUME NEW k \in T
      PROVE  k + 1 \in T
  <2>1. k \in Nat
    OBVIOUS
  <2>2. SUFFICES ASSUME k + 1 <= n
                 PROVE  SplitAt(at[k + 1], ms, h, k + 1)
    BY <2>1
  <2>3. SplitAt(at[k], ms, h, k) /\ 3 * h + k < 3 * Len(ms)
    BY <1>1, <2>1, <2>2 DEF n, Aligned
  <2>4. at[k + 1] = Cut(at[k], x[k + 1]) /\ x[k + 1] = Piece(ms, 3 * h + k)
    <3>1. k + 1 \in 1 .. n /\ k + 1 - 1 = k /\ 3 * h + (k + 1) - 1 = 3 * h + k
      BY <1>1, <2>1, <2>2
    <3> QED
      BY <1>2, <3>1 DEF n, Aligned
  <2> QED
    BY <2>1, <2>3, <2>4, CutAligned
<1> HIDE DEF T
<1>5. T = Nat
  <2> T \in SUBSET Nat
    BY DEF T
  <2> QED
    BY <1>3, <1>4, SetInduction
<1>6. SplitAt(at[n], ms, h, n)
  BY <1>1, <1>5 DEF T
<1> QED
  BY <1>2, <1>6 DEF n

\* The first end of a line in x is at p, or there is none and p is behind x.
FirstEnd(x, p) == /\ p \in 1 .. Len(x) + 1
                  /\ \A i \in 1 .. p - 1 : x[i].part # "end"
                  /\ p <= Len(x) => x[p].part = "end"

LEMMA FirstEndExists ==
    ASSUME NEW x \in Seq(Unit)
    PROVE  \E p \in Nat : FirstEnd(x, p)
<1> DEFINE U == {i \in 1 .. Len(x) + 1 : i <= Len(x) => x[i].part = "end"}
<1>1. Len(x) \in Nat
  BY LenProperties
<1>2. U \in SUBSET Nat /\ Len(x) + 1 \in U
  BY <1>1
<1>3. U # {}
  BY <1>2
<1> HIDE DEF U
<1>4. PICK p \in U : \A i \in U : p <= i
  BY <1>2, <1>3, LeastNumber
<1>5. p \in 1 .. Len(x) + 1 /\ p \in Nat /\ (p <= Len(x) => x[p].part = "end")
  BY <1>1, <1>4 DEF U
<1>6. ASSUME NEW i \in 1 .. p - 1
      PROVE  x[i].part # "end"
  <2>1. i \in 1 .. Len(x) + 1 /\ i <= Len(x) /\ ~(p <= i)
    BY <1>1, <1>5
  <2>2. ~(i \in U)
    BY <1>4, <2>1
  <2> QED
    BY <2>1, <2>2 DEF U
<1> QED
  BY <1>5, <1>6 DEF FirstEnd

\* The first line of what was read, after i units.
FirstLineAt(s, x, p, i) ==
    /\ s \in Splitting
    /\ i < p => s.lines = <<>> /\ Part(Unit, s.rest, x, 1, i)
    /\ i >= p => Len(s.lines) >= 1 /\ Len(s.lines[1]) = p - 1

LEMMA CutFirst ==
    ASSUME NEW x \in Seq(Unit), NEW p \in Nat, FirstEnd(x, p), NEW i \in Nat, i + 1 <= Len(x),
           NEW s, FirstLineAt(s, x, p, i)
    PROVE  FirstLineAt(Cut(s, x[i + 1]), x, p, i + 1)
<1> DEFINE u == x[i + 1]
           c == Cut(s, u)
<1>1. Len(x) \in Nat /\ i + 1 \in 1 .. Len(x) /\ p \in 1 .. Len(x) + 1
  BY LenProperties DEF FirstEnd
<1>2. u \in Unit
  BY <1>1, ElementOfSeq
<1>3. s \in Splitting
  BY DEF FirstLineAt
<1> HIDE DEF u
<1>4. /\ c \in Splitting /\ s.lines \in Lines /\ s.rest \in Seq(Unit)
      /\ u.part = "end" => c.lines = Append(s.lines, s.rest) /\ c.rest = <<>>
      /\ u.part # "end" => c.lines = s.lines /\ c.rest = Append(s.rest, u)
  BY <1>2, <1>3, CutIs
<1> HIDE DEF c
<1>5. CASE i + 1 < p
  <2>1. u.part # "end"
    <3>1. i + 1 \in 1 .. p - 1
      BY <1>1, <1>5
    <3> QED
      BY <3>1 DEF FirstEnd, u
  <2>2. s.lines = <<>> /\ Part(Unit, s.rest, x, 1, i)
    BY <1>5 DEF FirstLineAt
  <2>3. c.lines = <<>> /\ c.rest = Append(s.rest, u)
    BY <1>4, <2>1, <2>2
  <2>4. /\ c.rest \in Seq(Unit) /\ Len(c.rest) = Len(s.rest) + 1
        /\ \A j \in 1 .. Len(s.rest) : c.rest[j] = s.rest[j]
        /\ c.rest[Len(s.rest) + 1] = u
    BY <1>2, <1>4, <2>3, Appending
  <2>5. Len(s.rest) = i /\ \A j \in 1 .. i : s.rest[j] = x[j]
    <3>1. i + 1 - 1 = i /\ \A j \in 1 .. i : 1 + j - 1 = j
      OBVIOUS
    <3> QED
      BY <2>2, <3>1 DEF Part
  <2>6. Part(Unit, c.rest, x, 1, i + 1)
    <3>1. (i + 1) + 1 - 1 = i + 1 /\ \A j \in 1 .. i + 1 : 1 + j - 1 = j /\ (j \in 1 .. i \/ j = i + 1)
      OBVIOUS
    <3>2. \A j \in 1 .. i + 1 : c.rest[j] = x[j]
      BY <2>4, <2>5, <3>1 DEF u
    <3> QED
      BY <2>4, <2>5, <3>1, <3>2 DEF Part
  <2>7. ~(i + 1 >= p)
    BY <1>1, <1>5
  <2>8. FirstLineAt(c, x, p, i + 1)
    BY <1>4, <2>3, <2>6, <2>7 DEF FirstLineAt
  <2> QED
    BY <2>8 DEF c, u
<1>6. CASE i + 1 = p
  <2>1. u.part = "end" /\ i < p
    BY <1>1, <1>6 DEF FirstEnd, u
  <2>2. s.lines = <<>> /\ Part(Unit, s.rest, x, 1, i)
    BY <2>1 DEF FirstLineAt
  <2>3. c.lines = Append(s.lines, s.rest)
    BY <1>4, <2>1
  <2>4. Len(s.lines) = 0
    BY <2>2
  <2>5. Len(c.lines) = 1 /\ c.lines[1] = s.rest
    BY <1>4, <2>3, <2>4, Appending DEF Lines
  <2>6. Len(s.rest) = p - 1
    BY <1>6, <2>2 DEF Part
  <2>7. ~(i + 1 < p) /\ 1 >= 1
    BY <1>1, <1>6
  <2>8. FirstLineAt(c, x, p, i + 1)
    BY <1>4, <2>5, <2>6, <2>7 DEF FirstLineAt
  <2> QED
    BY <2>8 DEF c, u
<1>7. CASE i + 1 > p
  <2>1. i >= p /\ ~(i + 1 < p)
    BY <1>1, <1>7
  <2>2. Len(s.lines) >= 1 /\ Len(s.lines[1]) = p - 1 /\ Len(s.lines) \in Nat
    BY <1>4, <2>1, LenProperties DEF FirstLineAt, Lines
  <2>3. Len(c.lines) >= 1 /\ c.lines[1] = s.lines[1]
    <3>1. CASE u.part # "end"
      BY <1>4, <2>2, <3>1
    <3>2. CASE u.part = "end"
      <4>1. c.lines = Append(s.lines, s.rest)
        BY <1>4, <3>2
      <4>2. Len(c.lines) = Len(s.lines) + 1 /\ \A j \in 1 .. Len(s.lines) : c.lines[j] = s.lines[j]
        BY <1>4, <4>1, Appending DEF Lines
      <4> QED
        BY <2>2, <4>2
    <3> QED
      BY <3>1, <3>2
  <2>4. FirstLineAt(c, x, p, i + 1)
    BY <1>4, <2>1, <2>2, <2>3 DEF FirstLineAt
  <2> QED
    BY <2>4 DEF c, u
<1> QED
  BY <1>1, <1>5, <1>6, <1>7

LEMMA SplitFirst ==
    ASSUME NEW x \in Seq(Unit), NEW p \in Nat, FirstEnd(x, p), NEW s, s = Split(x)
    PROVE  /\ s \in Splitting
           /\ p = Len(x) + 1 => s.lines = <<>> /\ s.rest = x
           /\ p <= Len(x) => Len(s.lines) >= 1 /\ Len(s.lines[1]) = p - 1
<1> DEFINE n == Len(x)
<1>1. n \in Nat /\ p \in 1 .. n + 1
  BY LenProperties DEF FirstEnd
<1> HIDE DEF n
<1>0. PICK at : Splits(at, x, n)
  BY <1>1, SplitPasses DEF n
<1>2. /\ at \in [0 .. n -> Splitting] /\ Split(x) = at[n] /\ at[0] = [lines |-> <<>>, rest |-> <<>>]
      /\ \A i \in 1 .. n : at[i] = Cut(at[i - 1], x[i])
  BY <1>0 DEF Splits
<1> DEFINE T == {k \in Nat : k <= n => FirstLineAt(at[k], x, p, k)}
<1>3. 0 \in T
  <2>1. at[0] \in Splitting /\ at[0].lines = <<>> /\ at[0].rest = <<>>
    BY <1>1, <1>2
  <2>2. ~(0 >= p) /\ 0 + 1 - 1 = 0
    BY <1>1
  <2>3. Part(Unit, at[0].rest, x, 1, 0)
    BY <2>1, <2>2, EmptySeq DEF Part
  <2>4. FirstLineAt(at[0], x, p, 0)
    BY <2>1, <2>2, <2>3 DEF FirstLineAt
  <2> QED
    BY <2>4
<1>4. ASSUME NEW k \in T
      PROVE  k + 1 \in T
  <2>1. k \in Nat
    OBVIOUS
  <2>2. SUFFICES ASSUME k + 1 <= n
                 PROVE  FirstLineAt(at[k + 1], x, p, k + 1)
    BY <2>1
  <2>3. FirstLineAt(at[k], x, p, k) /\ k + 1 <= Len(x)
    BY <1>1, <2>1, <2>2 DEF n
  <2>4. at[k + 1] = Cut(at[k], x[k + 1])
    <3>1. k + 1 \in 1 .. n /\ k + 1 - 1 = k
      BY <1>1, <2>1, <2>2
    <3> QED
      BY <1>2, <3>1
  <2> QED
    BY <2>1, <2>3, <2>4, CutFirst
<1> HIDE DEF T
<1>5. T = Nat
  <2> T \in SUBSET Nat
    BY DEF T
  <2> QED
    BY <1>3, <1>4, SetInduction
<1>6. FirstLineAt(s, x, p, n)
  BY <1>1, <1>2, <1>5 DEF T
<1>7. s \in Splitting
  BY <1>6 DEF FirstLineAt
<1>8. CASE p = n + 1
  <2>1. s.lines = <<>> /\ Part(Unit, s.rest, x, 1, n)
    BY <1>1, <1>6, <1>8 DEF FirstLineAt
  <2>2. n + 1 - 1 = n /\ (\A j \in 1 .. n : 1 + j - 1 = j) /\ ~(p <= n)
    BY <1>1, <1>8
  <2>3. s.rest \in Seq(Unit) /\ Len(s.rest) = n /\ \A j \in 1 .. n : s.rest[j] = x[j]
    BY <2>1, <2>2 DEF Part
  <2>4. s.rest = x
    BY <2>3, SeqEqual DEF n
  <2> QED
    BY <1>7, <2>1, <2>2, <2>4 DEF n
<1>9. CASE p <= n
  <2>1. Len(s.lines) >= 1 /\ Len(s.lines[1]) = p - 1 /\ p # n + 1
    BY <1>1, <1>6, <1>9 DEF FirstLineAt
  <2> QED
    BY <1>7, <2>1 DEF n
<1> QED
  BY <1>1, <1>8, <1>9

-----------------------------------------------------------------------------
(* What becomes of lines that are messages.                                *)

\* s is r with t messages of ms behind it, from h + 1 on.
Grown(s, r, ms, h, t) ==
    /\ s \in Seq(Message) /\ Len(s) = Len(r) + t
    /\ \A i \in 1 .. Len(r) : s[i] = r[i]
    /\ \A j \in 1 .. t : s[Len(r) + j] = ms[h + j]

LEMMA GrownByNone ==
    ASSUME NEW r \in Seq(Message), NEW ms, NEW h
    PROVE  Grown(r, r, ms, h, 0)
BY LenProperties DEF Grown

LEMMA GrownByOne ==
    ASSUME NEW r \in Seq(Message), NEW s, NEW ms, NEW h \in Nat, NEW t \in Nat,
           Grown(s, r, ms, h, t), ms[h + t + 1] \in Message
    PROVE  Grown(Append(s, ms[h + t + 1]), r, ms, h, t + 1)
<1> DEFINE m == ms[h + t + 1]
           a == Append(s, m)
<1>1. /\ s \in Seq(Message) /\ Len(s) = Len(r) + t /\ Len(r) \in Nat
      /\ \A i \in 1 .. Len(r) : s[i] = r[i]
      /\ \A j \in 1 .. t : s[Len(r) + j] = ms[h + j]
  BY LenProperties DEF Grown
<1>2. m \in Message
  OBVIOUS
<1> HIDE DEF m
<1>3. /\ a \in Seq(Message) /\ Len(a) = Len(s) + 1
      /\ \A i \in 1 .. Len(s) : a[i] = s[i]
      /\ a[Len(s) + 1] = m
  BY <1>1, <1>2, Appending, SMTT(30)
<1> HIDE DEF a
<1>4. \A i \in 1 .. Len(r) : a[i] = r[i]
  BY <1>1, <1>3
<1>5. ASSUME NEW j \in 1 .. t + 1
      PROVE  a[Len(r) + j] = ms[h + j]
  <2>1. CASE j \in 1 .. t
    <3>1. Len(r) + j \in 1 .. Len(s)
      BY <1>1, <2>1
    <3> QED
      BY <1>1, <1>3, <2>1, <3>1
  <2>2. CASE j = t + 1
    <3>1. Len(r) + j = Len(s) + 1 /\ h + j = h + t + 1
      BY <1>1, <2>2
    <3> QED
      BY <1>3, <3>1 DEF m
  <2> QED
    BY <2>1, <2>2
<1>6. Len(a) = Len(r) + (t + 1)
  BY <1>1, <1>3
<1>7. Grown(a, r, ms, h, t + 1)
  BY <1>3, <1>4, <1>5, <1>6 DEF Grown
<1> QED
  BY <1>7 DEF a, m

LEMMA MessageLine ==
    ASSUME NEW ms \in Seq(Message), NEW h \in Nat, NEW x \in Lines, AreMessages(x, ms, h),
           h + Len(x) <= Len(ms), NEW k \in Nat, k + 1 <= Len(x)
    PROVE  /\ x[k + 1] \in Seq(Unit) /\ IsMessage(x[k + 1]) /\ x[k + 1][1].of = ms[h + k + 1]
           /\ ms[h + k + 1] \in Message
<1>1. Len(ms) \in Nat /\ Len(x) \in Nat
  BY LenProperties DEF Lines
<1>2. k + 1 \in 1 .. Len(x) /\ h + k + 1 \in 1 .. Len(ms) /\ h + k + 1 = h + (k + 1)
  BY <1>1
<1>3. x[k + 1] = Begun(ms[h + k + 1], 2)
  BY <1>2 DEF AreMessages
<1>4. ms[h + k + 1] \in Message
  BY <1>2, ElementOfSeq
<1> QED
  BY <1>3, <1>4, LineIs

\* The server serves them all.
LEMMA ServedAligned ==
    ASSUME served \in Seq(Message),
           NEW ms \in Seq(Message), NEW h \in Nat, NEW x \in Lines, AreMessages(x, ms, h),
           h + Len(x) <= Len(ms), NEW s, s = Served(x)
    PROVE  ~s.failed /\ Grown(s.served, served, ms, h, Len(x))
<1> DEFINE n == Len(x)
           Right(a, k) == a.failed = FALSE /\ Grown(a.served, served, ms, h, k)
<1>1. n \in Nat /\ Len(ms) \in Nat
  BY LenProperties DEF Lines
<1> HIDE DEF n, Right
<1>0. PICK at : Serves(at, x, n)
  BY ServedPasses DEF n
<1>2. /\ at \in [0 .. n -> Serving] /\ Served(x) = at[n] /\ at[0] = [served |-> served, failed |-> FALSE]
      /\ \A i \in 1 .. n : at[i] = Serve(at[i - 1], x[i])
  BY <1>0 DEF Serves
<1> DEFINE T == {k \in Nat : k <= n => Right(at[k], k)}
<1>3. 0 \in T
  <2>1. at[0].served = served /\ at[0].failed = FALSE
    BY <1>2
  <2>2. Right(at[0], 0)
    BY <2>1, GrownByNone DEF Right
  <2> QED
    BY <2>2
<1>4. ASSUME NEW k \in T
      PROVE  k + 1 \in T
  <2>1. k \in Nat
    OBVIOUS
  <2>2. SUFFICES ASSUME k + 1 <= n
                 PROVE  Right(at[k + 1], k + 1)
    BY <2>1
  <2>3. at[k].failed = FALSE /\ Grown(at[k].served, served, ms, h, k) /\ at[k] \in Serving
    BY <1>1, <1>2, <2>1, <2>2 DEF Right
  <2>4. at[k + 1] = Serve(at[k], x[k + 1])
    <3>1. k + 1 \in 1 .. n /\ k + 1 - 1 = k
      BY <1>1, <2>1, <2>2
    <3> QED
      BY <1>2, <3>1
  <2>5. /\ x[k + 1] \in Seq(Unit) /\ IsMessage(x[k + 1]) /\ x[k + 1][1].of = ms[h + k + 1]
        /\ ms[h + k + 1] \in Message
    BY <2>1, <2>2, MessageLine DEF n
  <2>6. at[k + 1].served = Append(at[k].served, x[k + 1][1].of) /\ ~at[k + 1].failed
    BY <2>3, <2>4, <2>5, ServeIs
  <2>7. Grown(Append(at[k].served, ms[h + k + 1]), served, ms, h, k + 1)
    BY <2>1, <2>3, <2>5, GrownByOne
  <2> QED
    BY <2>5, <2>6, <2>7 DEF Right
<1> HIDE DEF T
<1>5. T = Nat
  <2> T \in SUBSET Nat
    BY DEF T
  <2> QED
    BY <1>3, <1>4, SetInduction
<1>6. Right(at[n], n)
  BY <1>1, <1>5 DEF T
<1> QED
  BY <1>2, <1>6 DEF n, Right

\* The world handles them all, or the first t, the last of which made it return.
LEMMA HandledAligned ==
    ASSUME handled \in Seq(Message),
           NEW ms \in Seq(Message), NEW h \in Nat, NEW x \in Lines, AreMessages(x, ms, h),
           h + Len(x) <= Len(ms), NEW s, s = Handled(x)
    PROVE  \E t \in 0 .. Len(x) :
              /\ Grown(s.handled, handled, ms, h, t)
              /\ (s.how = "on" /\ t = Len(x)) \/ (s.how = "returned" /\ t >= 1)
<1> DEFINE n == Len(x)
           Right(a, k) == \E t \in 0 .. k : /\ Grown(a.handled, handled, ms, h, t)
                                            /\ (a.how = "on" /\ t = k) \/ (a.how = "returned" /\ t >= 1)
<1>1. n \in Nat /\ Len(ms) \in Nat
  BY LenProperties DEF Lines
<1> HIDE DEF n, Right
<1>0. PICK at : Handles(at, x, n)
  BY HandledPasses DEF n
<1>2. /\ at \in [0 .. n -> Handling] /\ Handled(x) = at[n] /\ at[0] = [handled |-> handled, how |-> "on"]
      /\ \A i \in 1 .. n : at[i] = Handle(at[i - 1], x[i])
  BY <1>0 DEF Handles
<1> DEFINE T == {k \in Nat : k <= n => Right(at[k], k)}
<1>3. 0 \in T
  <2>1. at[0].handled = handled /\ at[0].how = "on"
    BY <1>2
  <2>2. Grown(at[0].handled, handled, ms, h, 0) /\ 0 \in 0 .. 0
    BY <2>1, GrownByNone
  <2>3. Right(at[0], 0)
    BY <2>1, <2>2 DEF Right
  <2> QED
    BY <2>3
<1>4. ASSUME NEW k \in T
      PROVE  k + 1 \in T
  <2>1. k \in Nat
    OBVIOUS
  <2>2. SUFFICES ASSUME k + 1 <= n
                 PROVE  Right(at[k + 1], k + 1)
    BY <2>1
  <2>3. at[k] \in Handling /\ Right(at[k], k)
    BY <1>1, <1>2, <2>1, <2>2
  <2>4. PICK t \in 0 .. k : /\ Grown(at[k].handled, handled, ms, h, t)
                            /\ (at[k].how = "on" /\ t = k) \/ (at[k].how = "returned" /\ t >= 1)
    BY <2>3 DEF Right
  <2>5. at[k + 1] = Handle(at[k], x[k + 1])
    <3>1. k + 1 \in 1 .. n /\ k + 1 - 1 = k
      BY <1>1, <2>1, <2>2
    <3> QED
      BY <1>2, <3>1
  <2>6. /\ x[k + 1] \in Seq(Unit) /\ IsMessage(x[k + 1]) /\ x[k + 1][1].of = ms[h + k + 1]
        /\ ms[h + k + 1] \in Message
    BY <2>1, <2>2, MessageLine DEF n
  <2>7. CASE at[k].how = "on" /\ t = k
    <3>1. at[k + 1].handled = Append(at[k].handled, x[k + 1][1].of) /\ at[k + 1].how \in {"on", "returned"}
      <4>1. at[k] \in Handling /\ x[k + 1] \in Seq(Unit) /\ at[k].how = "on" /\ IsMessage(x[k + 1])
        BY <2>3, <2>6, <2>7
      <4>2. /\ Handle(at[k], x[k + 1]).handled = Append(at[k].handled, x[k + 1][1].of)
            /\ Handle(at[k], x[k + 1]).how \in {"on", "returned"}
        BY <4>1, HandleIs
      <4> QED
        BY <2>5, <4>2
    <3>2. Grown(Append(at[k].handled, ms[h + k + 1]), handled, ms, h, k + 1)
      BY <2>1, <2>4, <2>6, <2>7, GrownByOne
    <3>3. Grown(at[k + 1].handled, handled, ms, h, k + 1)
      BY <2>6, <3>1, <3>2
    <3>4. k + 1 \in 0 .. k + 1 /\ k + 1 >= 1
      BY <2>1
    <3> QED
      BY <3>1, <3>3, <3>4 DEF Right
  <2>8. CASE at[k].how = "returned" /\ t >= 1
    <3>1. at[k + 1] = at[k]
      BY <2>3, <2>5, <2>6, <2>8, HandleIs
    <3>2. t \in 0 .. k + 1
      BY <2>1
    <3> QED
      BY <2>4, <2>8, <3>1, <3>2 DEF Right
  <2> QED
    BY <2>4, <2>7, <2>8
<1> HIDE DEF T
<1>5. T = Nat
  <2> T \in SUBSET Nat
    BY DEF T
  <2> QED
    BY <1>3, <1>4, SetInduction
<1>6. Right(at[n], n)
  BY <1>1, <1>5 DEF T
<1> QED
  BY <1>2, <1>6 DEF n, Right

\* The world raises at a first line of three units or more.
LEMMA HandledBroken ==
    ASSUME handled \in Seq(Message), NEW x \in Lines, Len(x) >= 1, Len(x[1]) >= 3,
           NEW s, s = Handled(x)
    PROVE  s.how = "raised" /\ s.handled = handled
<1> DEFINE n == Len(x)
           Right(a) == a.how = "raised" /\ a.handled = handled
<1>1. n \in Nat /\ n >= 1 /\ x[1] \in Seq(Unit)
  BY LenProperties, ElementOfSeq DEF Lines
<1> HIDE DEF n, Right
<1>0. PICK at : Handles(at, x, n)
  BY HandledPasses DEF n
<1>2. /\ at \in [0 .. n -> Handling] /\ Handled(x) = at[n] /\ at[0] = [handled |-> handled, how |-> "on"]
      /\ \A i \in 1 .. n : at[i] = Handle(at[i - 1], x[i])
  BY <1>0 DEF Handles
<1>3. Right(at[1])
  <2>1. at[0].handled = handled /\ at[0].how = "on" /\ at[0] \in Handling
    BY <1>1, <1>2
  <2>2. at[1] = Handle(at[0], x[1])
    <3>1. 1 \in 1 .. n /\ 1 - 1 = 0
      BY <1>1
    <3> QED
      BY <1>2, <3>1
  <2>3. ~IsMessage(x[1])
    <3>1. ~(Len(x[1]) = 2)
      <4> DEFINE l == Len(x[1])
      <4>1. l \in Nat /\ l >= 3
        BY <1>1, LenProperties
      <4> HIDE DEF l
      <4>2. ~(l = 2)
        BY <4>1
      <4> QED
        BY <4>2 DEF l
    <3>2. IsMessage(x[1]) => Len(x[1]) = 2
      BY <1>1, MessageIs
    <3> QED
      BY <3>1, <3>2
  <2>4. x[1] # <<>>
    <3>1. x[1] = <<>> => Len(x[1]) = 0
      OBVIOUS
    <3> QED
      BY <3>1
  <2> QED
    BY <1>1, <2>1, <2>2, <2>3, <2>4, HandleIs DEF Right
<1> DEFINE T == {k \in Nat : k + 1 <= n => Right(at[k + 1])}
<1>4. 0 \in T
  BY <1>3
<1>5. ASSUME NEW k \in T
      PROVE  k + 1 \in T
  <2>1. k \in Nat
    OBVIOUS
  <2>2. SUFFICES ASSUME k + 1 + 1 <= n
                 PROVE  Right(at[k + 1 + 1])
    BY <2>1
  <2>3. Right(at[k + 1]) /\ at[k + 1] \in Handling
    BY <1>1, <1>2, <2>1, <2>2
  <2>4. at[k + 1 + 1] = Handle(at[k + 1], x[k + 1 + 1]) /\ x[k + 1 + 1] \in Seq(Unit)
    <3>1. k + 1 + 1 \in 1 .. n /\ k + 1 + 1 - 1 = k + 1
      BY <1>1, <2>1, <2>2
    <3> QED
      BY <1>2, <3>1, ElementOfSeq DEF n, Lines
  <2>5. at[k + 1].how # "on"
    BY <2>3 DEF Right
  <2>6. at[k + 1 + 1] = at[k + 1]
    BY <2>3, <2>4, <2>5, HandleIs
  <2> QED
    BY <2>3, <2>6
<1> HIDE DEF T
<1>6. T = Nat
  <2> T \in SUBSET Nat
    BY DEF T
  <2> QED
    BY <1>4, <1>5, SetInduction
<1>7. Right(at[n])
  <2>1. n - 1 \in T /\ (n - 1) + 1 = n
    BY <1>1, <1>6
  <2> QED
    BY <1>1, <2>1 DEF T
<1> QED
  BY <1>2, <1>7 DEF Right

-----------------------------------------------------------------------------
(* Reads.                                                                  *)

\* s is the beginning of ms.
FirstOf(s, ms) == s \in Seq(Message) /\ Len(s) <= Len(ms) /\ \A i \in 1 .. Len(s) : s[i] = ms[i]

LEMMA FirstGrows ==
    ASSUME NEW ms \in Seq(Message), NEW r, FirstOf(r, ms), NEW t \in Nat, Len(r) + t <= Len(ms),
           NEW s, Grown(s, r, ms, Len(r), t)
    PROVE  FirstOf(s, ms) /\ Len(s) = Len(r) + t /\ s = SubSeq(ms, 1, Len(r) + t)
<1> DEFINE n == Len(r) + t
           sub == SubSeq(ms, 1, n)
<1>1. /\ r \in Seq(Message) /\ \A i \in 1 .. Len(r) : r[i] = ms[i]
      /\ s \in Seq(Message) /\ Len(s) = n
      /\ \A i \in 1 .. Len(r) : s[i] = r[i]
      /\ \A j \in 1 .. t : s[Len(r) + j] = ms[Len(r) + j]
  BY DEF FirstOf, Grown
<1>2. Len(r) \in Nat /\ Len(ms) \in Nat
  BY <1>1, LenProperties
<1>3. ASSUME NEW i \in 1 .. n
      PROVE  s[i] = ms[i]
  <2>1. CASE i <= Len(r)
    BY <1>1, <1>2, <2>1
  <2>2. CASE ~(i <= Len(r))
    <3>1. i - Len(r) \in 1 .. t /\ Len(r) + (i - Len(r)) = i
      BY <1>2, <2>2
    <3>2. s[Len(r) + (i - Len(r))] = ms[Len(r) + (i - Len(r))]
      BY <1>1, <3>1
    <3> QED
      BY <3>1, <3>2
  <2> QED
    BY <2>1, <2>2
<1>4. n \in 0 .. Len(ms) /\ 1 \in 1 .. Len(ms) + 1 /\ 1 <= n + 1 /\ n + 1 - 1 = n
  BY <1>2
<1> HIDE DEF n
<1>5. Part(Message, sub, ms, 1, n)
  <2> HIDE DEF sub
  <2>1. sub = SubSeq(ms, 1, n)
    BY DEF sub
  <2> QED
    BY <1>4, <2>1, Cutting
<1> HIDE DEF sub
<1>6. sub \in Seq(Message) /\ Len(sub) = n /\ \A i \in 1 .. n : sub[i] = ms[i]
  <2>1. \A i \in 1 .. n : 1 + i - 1 = i
    BY <1>4
  <2> QED
    BY <1>4, <1>5, <2>1 DEF Part
<1>7. \A i \in 1 .. Len(s) : s[i] = sub[i]
  BY <1>1, <1>3, <1>6
<1>8. s = sub
  BY <1>1, <1>6, <1>7, SeqEqual
<1>9. FirstOf(s, ms)
  BY <1>1, <1>3, <1>4 DEF FirstOf
<1> QED
  BY <1>1, <1>8, <1>9 DEF n, sub

\* x is buf, the first o units of message h + 1 of ms, which were kept, and the
\* first n units of w, the wire.
Reads(x, buf, w, n, ms, h, o) == /\ buf = Begun(ms[h + 1], o) /\ Following(w, ms, 3 * h + o)
                                 /\ n \in 1 .. Len(w) /\ x = buf \o SubSeq(w, 1, n)

LEMMA ReadAligned ==
    ASSUME NEW ms \in Seq(Message), NEW h \in Nat, NEW o \in 0 .. 2,
           NEW x, NEW buf, NEW w, NEW n, Reads(x, buf, w, n, ms, h, o)
    PROVE  buf \in Seq(Unit) /\ Len(x) = o + n /\ Aligned(x, ms, h)
<1> DEFINE b == SubSeq(w, 1, n)
           m == ms[h + 1]
<1>0. Reads(x, buf, w, n, ms, h, o)
  OBVIOUS
<1>1. /\ w \in Seq(Unit) /\ Len(w) = 3 * Len(ms) - (3 * h + o) /\ Len(ms) \in Nat
      /\ \A i \in 1 .. Len(w) : w[i] = Piece(ms, (3 * h + o) + i - 1)
  BY LenProperties DEF Following, Reads
<1>2. n \in 0 .. Len(w) /\ 1 \in 1 .. Len(w) + 1 /\ 1 <= n + 1 /\ n + 1 - 1 = n /\ Len(w) \in Nat /\ n \in Nat /\ 1 <= n
  BY <1>1 DEF Reads
<1>3. Part(Unit, b, w, 1, n)
  <2>1. b = SubSeq(w, 1, n)
    OBVIOUS
  <2> HIDE DEF b
  <2> QED
    BY <1>1, <1>2, <2>1, Cutting
<1> HIDE DEF b
<1>4. b \in Seq(Unit) /\ Len(b) = n /\ \A i \in 1 .. n : b[i] = w[i]
  <2>1. \A i \in 1 .. n : 1 + i - 1 = i
    BY <1>2
  <2> QED
    BY <1>2, <1>3, <2>1 DEF Part
<1>5. h + 1 \in 1 .. Len(ms)
  <2>1. Len(w) = 3 * Len(ms) - (3 * h + o) /\ Len(ms) \in Nat /\ 1 <= Len(w)
    BY <1>1, <1>2
  <2> QED
    BY <2>1
<1>6. m \in Message
  BY <1>5, ElementOfSeq
<1> HIDE DEF m
<1>7. buf \in Seq(Unit) /\ Len(buf) = o /\ \A i \in 1 .. o : buf[i] = [part |-> PieceOf(i - 1), of |-> m]
  <2>1. Len(buf) = o /\ \A i \in 1 .. o : buf[i] = [part |-> PieceOf(i - 1), of |-> m]
    BY BegunType DEF m, Reads
  <2>2. buf \in Seq(Unit)
    <3> DEFINE a == [part |-> "head", of |-> m]
               c == [part |-> "tail", of |-> m]
    <3>1. a \in Unit /\ c \in Unit
      BY <1>6 DEF Unit
    <3>2. buf = <<>> \/ buf = <<a>> \/ buf = <<a, c>>
      BY DEF Begun, m, Reads
    <3> HIDE DEF a, c
    <3>3. <<>> \in Seq(Unit) /\ <<a>> \in Seq(Unit) /\ <<a, c>> \in Seq(Unit)
      BY <3>1
    <3> QED
      BY <3>2, <3>3
  <2> QED
    BY <2>1, <2>2
<1>8. Joined(Unit, x, buf, b)
  BY <1>4, <1>7, Joining DEF b, Reads
<1>9. x \in Seq(Unit) /\ Len(x) = o + n /\ 3 * h + Len(x) <= 3 * Len(ms)
  <2>1. x \in Seq(Unit) /\ Len(x) = Len(buf) + Len(b)
    BY <1>8 DEF Joined
  <2>2. Len(buf) = o /\ Len(b) = n /\ n <= Len(w)
    BY <1>2, <1>4, <1>7
  <2> QED
    BY <1>1, <1>2, <2>1, <2>2
<1>10. ASSUME NEW i \in 1 .. Len(x)
       PROVE  x[i] = Piece(ms, 3 * h + i - 1)
  <2>1. CASE i <= o
    <3>1. i - 1 \in 0 .. 2 /\ i \in 1 .. o /\ 3 * h + i - 1 = 3 * h + (i - 1)
      BY <2>1
    <3>2. Piece(ms, 3 * h + (i - 1)) = [part |-> PieceOf(i - 1), of |-> ms[h + 1]]
      BY <3>1, PieceIs
    <3>3. x[i] = buf[i]
      BY <1>7, <1>8, <3>1 DEF Joined
    <3> QED
      BY <1>7, <3>1, <3>2, <3>3 DEF m
  <2>2. CASE ~(i <= o)
    <3>1. i - o \in 1 .. n /\ o + (i - o) = i /\ (3 * h + o) + (i - o) - 1 = 3 * h + i - 1
      BY <1>2, <1>9, <2>2
    <3>2. x[o + (i - o)] = b[i - o]
      BY <1>4, <1>7, <1>8, <3>1 DEF Joined
    <3>3. i - o \in 1 .. Len(w)
      BY <1>2, <3>1
    <3>4. b[i - o] = w[i - o] /\ w[i - o] = Piece(ms, (3 * h + o) + (i - o) - 1)
      BY <1>1, <1>4, <3>1, <3>3
    <3> QED
      BY <3>1, <3>2, <3>4
  <2> QED
    BY <2>1, <2>2
<1> QED
  BY <1>7, <1>9, <1>10 DEF Aligned

\* What is left on the wire.
LEMMA LeftFollows ==
    ASSUME NEW ms \in Seq(Message), NEW p, NEW w, Following(w, ms, p), NEW n \in 1 .. Len(w),
           NEW v, v = SubSeq(w, n + 1, Len(w))
    PROVE  Following(v, ms, p + n)
<1>1. /\ w \in Seq(Unit) /\ p \in 0 .. 3 * Len(ms) /\ Len(w) = 3 * Len(ms) - p /\ Len(ms) \in Nat
      /\ \A i \in 1 .. Len(w) : w[i] = Piece(ms, p + i - 1)
  BY LenProperties DEF Following
<1>2. /\ n + 1 \in 1 .. Len(w) + 1 /\ Len(w) \in 0 .. Len(w) /\ n + 1 <= Len(w) + 1
      /\ Len(w) + 1 - (n + 1) = Len(w) - n /\ Len(w) \in Nat
  BY <1>1
<1>3. Part(Unit, v, w, n + 1, Len(w))
  BY <1>1, <1>2, Cutting
<1>4. v \in Seq(Unit) /\ Len(v) = Len(w) - n /\ \A i \in 1 .. Len(w) - n : v[i] = w[n + 1 + i - 1]
  BY <1>2, <1>3 DEF Part
<1>5. ASSUME NEW i \in 1 .. Len(v)
      PROVE  v[i] = Piece(ms, p + n + i - 1)
  <2>1. n + 1 + i - 1 \in 1 .. Len(w) /\ p + (n + 1 + i - 1) - 1 = p + n + i - 1 /\ i \in 1 .. Len(w) - n
    BY <1>1, <1>2, <1>4
  <2>2. w[n + 1 + i - 1] = Piece(ms, p + (n + 1 + i - 1) - 1)
    BY <1>1, <2>1
  <2> QED
    BY <1>4, <2>1, <2>2
<1>6. p + n \in 0 .. 3 * Len(ms) /\ Len(v) = 3 * Len(ms) - (p + n)
  BY <1>1, <1>2, <1>4
<1> QED
  BY <1>4, <1>5, <1>6 DEF Following

-----------------------------------------------------------------------------
(* The server.                                                             *)

ServerIsSteady ==
    /\ commands \in Seq(Message) /\ failed \in {{}, {"world"}} /\ FirstOf(served, commands)
    /\ \E o \in 0 .. 2 : /\ rcvbuf = Begun(commands[Len(served) + 1], o)
                         /\ Following(toServer, commands, 3 * Len(served) + o)

LEMMA KeptAligned ==
    ASSUME NEW x \in Seq(Unit), NEW s, s = Split(x)
    PROVE  Kept(x, s) = s.rest
<1>1. PICK p \in Nat : FirstEnd(x, p)
  BY FirstEndExists
<1>2. /\ p = Len(x) + 1 => s.lines = <<>> /\ s.rest = x
      /\ p <= Len(x) => Len(s.lines) >= 1 /\ Len(s.lines[1]) = p - 1
  BY <1>1, SplitFirst
<1>3. p \in 1 .. Len(x) + 1 /\ Len(x) \in Nat
  BY <1>1, LenProperties DEF FirstEnd
<1>4. CASE p = Len(x) + 1
  BY <1>2, <1>4 DEF Kept
<1>5. CASE p <= Len(x)
  <2>1. s.lines # <<>>
    <3>1. s.lines = <<>> => Len(s.lines) = 0
      OBVIOUS
    <3>2. ~(Len(s.lines) = 0)
      BY <1>2, <1>5
    <3> QED
      BY <3>1, <3>2
  <2> QED
    BY <2>1 DEF Kept
<1> QED
  BY <1>3, <1>4, <1>5

LEMMA ServerReadsSo ==
    ASSUME ServerIsSteady, ServerReads
    PROVE  /\ ServerIsSteady' /\ failed' = {}
           /\ \E t \in Nat : /\ Len(served) + t <= Len(commands)
                             /\ served' = SubSeq(commands, 1, Len(served) + t)
                             /\ t = 0 => served' = served
<1> DEFINE h == Len(served)
<1>1. /\ commands \in Seq(Message) /\ FirstOf(served, commands) /\ served \in Seq(Message)
      /\ Len(commands) \in Nat /\ h \in Nat
  BY LenProperties DEF ServerIsSteady, FirstOf
<1>2. PICK o \in 0 .. 2 : rcvbuf = Begun(commands[h + 1], o) /\ Following(toServer, commands, 3 * h + o)
  BY DEF ServerIsSteady
<1>3. PICK n \in 1 .. Len(toServer) :
         LET x == rcvbuf \o SubSeq(toServer, 1, n)
             s == Split(x)
             e == Served(s.lines)
         IN  /\ toServer' = SubSeq(toServer, n + 1, Len(toServer))
             /\ served' = e.served
             /\ rcvbuf' = IF e.failed THEN x ELSE Kept(x, s)
             /\ failed' = IF e.failed THEN {"server"} ELSE {}
  BY DEF ServerReads
<1> DEFINE x == rcvbuf \o SubSeq(toServer, 1, n)
           s == Split(x)
           e == Served(s.lines)
           q == (o + n) \div 3
           r == (o + n) % 3
<1>4. /\ toServer' = SubSeq(toServer, n + 1, Len(toServer)) /\ served' = e.served
      /\ rcvbuf' = IF e.failed THEN x ELSE Kept(x, s)
      /\ failed' = IF e.failed THEN {"server"} ELSE {}
      /\ commands' = commands
  BY <1>3 DEF ServerReads
<1>5. n \in Nat /\ q \in Nat /\ r \in 0 .. 2 /\ o + n = 3 * q + r
  <2>1. Len(toServer) \in Nat
    BY <1>2, LenProperties DEF Following
  <2> QED
    BY <2>1, Thirds
<1>6. Len(x) = o + n /\ Aligned(x, commands, h)
  <2>1. Reads(x, rcvbuf, toServer, n, commands, h, o)
    BY <1>2 DEF Reads
  <2> HIDE DEF x, h
  <2> QED
    BY <1>1, <2>1, ReadAligned
<1>7. Following(toServer', commands, (3 * h + o) + n)
  BY <1>1, <1>2, <1>4, LeftFollows
<1> HIDE DEF x, h
<1>8. SplitAt(s, commands, h, o + n)
  <2>1. s = Split(x)
    OBVIOUS
  <2> HIDE DEF s
  <2>2. SplitAt(s, commands, h, Len(x))
    BY <1>1, <1>6, <2>1, SplitAligned
  <2> QED
    BY <1>6, <2>2
<1>9. Kept(x, s) = s.rest
  BY <1>6, KeptAligned DEF Aligned
<1> HIDE DEF s, q, r
<1>10. /\ s.lines \in Lines /\ Len(s.lines) = q /\ AreMessages(s.lines, commands, h)
       /\ s.rest = Begun(commands[h + q + 1], r)
  BY <1>8 DEF SplitAt, Splitting, q, r
<1>11. h + q <= Len(commands)
  <2>1. 3 * h + (o + n) <= 3 * Len(commands)
    BY <1>6 DEF Aligned
  <2> QED
    BY <1>1, <1>5, <2>1
<1>12. ~e.failed /\ Grown(e.served, served, commands, h, q)
  <2>1. e = Served(s.lines)
    OBVIOUS
  <2> HIDE DEF e
  <2> QED
    BY <1>1, <1>10, <1>11, <2>1, ServedAligned
<1> HIDE DEF e
<1>13. FirstOf(served', commands) /\ Len(served') = h + q /\ served' = SubSeq(commands, 1, h + q)
  BY <1>1, <1>4, <1>5, <1>11, <1>12, FirstGrows DEF h
<1>14. failed' = {} /\ rcvbuf' = s.rest
  BY <1>4, <1>9, <1>12
<1>15. (3 * h + o) + n = 3 * (h + q) + r
  BY <1>1, <1>5
<1>16. ServerIsSteady'
  <2>1. rcvbuf' = Begun(commands'[Len(served') + 1], r)
    BY <1>4, <1>10, <1>13, <1>14
  <2>2. Following(toServer', commands', 3 * Len(served') + r)
    BY <1>4, <1>7, <1>13, <1>15
  <2> QED
    BY <1>1, <1>4, <1>5, <1>13, <1>14, <2>1, <2>2 DEF ServerIsSteady
<1>17. q = 0 => served' = served
  <2>1. SUFFICES ASSUME q = 0
                 PROVE  served' = served
    OBVIOUS
  <2>2. Len(served') = Len(served) /\ served' \in Seq(Message)
    BY <1>1, <1>13, <2>1 DEF h, FirstOf
  <2>3. \A i \in 1 .. Len(served) : served'[i] = served[i]
    BY <1>4, <1>12 DEF Grown
  <2> QED
    BY <1>1, <2>2, <2>3, SeqEqual
<1> QED
  BY <1>5, <1>11, <1>13, <1>14, <1>16, <1>17 DEF h

-----------------------------------------------------------------------------
(* The world, after p units were read.                                     *)

Taken == 3 * Len(events) - Len(toWorld)

\* The messages are numbered as they are sent.
Numbered(ms) == \A i \in 1 .. Len(ms) : ms[i].n = i

\* Messages in order, up to the k-th.
UpTo(ha, k) == /\ \A i, j \in 1 .. Len(ha) : i < j => ha[i].n < ha[j].n
               /\ \A i \in 1 .. Len(ha) : ha[i].n <= k

\* What is kept is what was read of the message after those handled.
Healthy(ev, p, ha, cu) == \E o \in 0 .. 2 : p = 3 * Len(ha) + o /\ cu = Begun(ev[Len(ha) + 1], o)

\* More is kept than was read of a message: the next line is none.
Broken(p, cu) == (\A i \in 1 .. Len(cu) : cu[i].part # "end") /\ Len(cu) > (p % 3)

\* A read, and what comes of it.
WorldReadsTo(n, s, e) == /\ n \in 1 .. Len(toWorld)
                         /\ s = Split(current \o SubSeq(toWorld, 1, n)) /\ e = Handled(s.lines)

\* Every message read so far ended a read, and so does this one.
LEMMA WholeRead ==
    ASSUME handled \in Seq(Message), events \in Seq(Message), Numbered(events), current = <<>>,
           NEW k \in Nat, Following(toWorld, events, 3 * k), UpTo(handled, k),
           NEW n, NEW s, NEW e, WorldReadsTo(n, s, e), toWorld[n].part = "end"
    PROVE  /\ e.how \in {"on", "returned"} /\ s.rest = <<>>
           /\ \E q \in Nat : 3 * k + n = 3 * (k + q) /\ UpTo(e.handled, k + q)
<1> DEFINE x == current \o SubSeq(toWorld, 1, n)
           q == n \div 3
           r == n % 3
<1>1. /\ n \in 1 .. Len(toWorld) /\ s = Split(x) /\ e = Handled(s.lines)
  BY DEF WorldReadsTo
<1>2. /\ toWorld \in Seq(Unit) /\ Len(toWorld) = 3 * Len(events) - 3 * k
      /\ \A i \in 1 .. Len(toWorld) : toWorld[i] = Piece(events, 3 * k + i - 1)
  BY DEF Following
<1>3. Len(toWorld) \in Nat /\ n \in Nat /\ 1 <= n /\ Len(events) \in Nat
  BY <1>1, <1>2, LenProperties
<1>4. q \in Nat /\ r \in 0 .. 2 /\ n = 3 * q + r
  BY <1>3, Thirds
<1>5. r = 0
  <2>1. toWorld[n] = Piece(events, 3 * k + n - 1)
    BY <1>1, <1>2
  <2>2. PieceOf((3 * k + n - 1) % 3) = "end"
    BY <2>1 DEF Piece
  <2>3. (3 * k + n - 1) % 3 = 2
    <3>1. 3 * k + n - 1 \in Nat
      BY <1>3
    <3>2. (3 * k + n - 1) % 3 \in 0 .. 2
      BY <3>1, Thirds
    <3> QED
      BY <2>2, <3>2 DEF PieceOf
  <2> QED
    BY <1>3, <1>4, <2>3
<1>6. Len(x) = n /\ Aligned(x, events, k)
  <2>1. Reads(x, current, toWorld, n, events, k, 0)
    <3>1. current = Begun(events[k + 1], 0) /\ 3 * k + 0 = 3 * k
      BY DEF Begun
    <3> QED
      BY <1>1, <3>1 DEF Reads
  <2> HIDE DEF x
  <2>2. Len(x) = 0 + n /\ Aligned(x, events, k)
    BY <2>1, ReadAligned
  <2> QED
    BY <1>3, <2>2
<1> HIDE DEF x
<1>7. SplitAt(s, events, k, n)
  <2>1. SplitAt(s, events, k, Len(x))
    BY <1>1, <1>6, SplitAligned
  <2> QED
    BY <1>6, <2>1
<1> HIDE DEF q, r
<1>8. /\ s.lines \in Lines /\ Len(s.lines) = q /\ AreMessages(s.lines, events, k)
      /\ s.rest = Begun(events[k + q + 1], r)
  BY <1>7 DEF SplitAt, Splitting, q, r
<1>9. k + q <= Len(events)
  BY <1>1, <1>2, <1>3, <1>4
<1>10. PICK t \in 0 .. q :
          /\ Grown(e.handled, handled, events, k, t)
          /\ (e.how = "on" /\ t = q) \/ (e.how = "returned" /\ t >= 1)
  <2> DEFINE l == s.lines
  <2>1. l \in Lines /\ AreMessages(l, events, k) /\ k + Len(l) <= Len(events) /\ e = Handled(l)
    BY <1>1, <1>8, <1>9
  <2>2. Len(l) = q
    BY <1>8
  <2> HIDE DEF l
  <2>3. \E t \in 0 .. Len(l) :
          /\ Grown(e.handled, handled, events, k, t)
          /\ (e.how = "on" /\ t = Len(l)) \/ (e.how = "returned" /\ t >= 1)
    BY <2>1, HandledAligned
  <2> QED
    BY <2>2, <2>3
<1>11. s.rest = <<>>
  BY <1>5, <1>8 DEF Begun
<1>12. UpTo(e.handled, k + q)
  <2> DEFINE ha == e.handled
             L == Len(handled)
  <2>1. /\ ha \in Seq(Message) /\ Len(ha) = L + t /\ L \in Nat
        /\ \A i \in 1 .. L : ha[i] = handled[i]
        /\ \A j \in 1 .. t : ha[L + j] = events[k + j]
    BY <1>10, LenProperties DEF Grown
  <2> HIDE DEF ha
  <2>2. \A j \in 1 .. t : ha[L + j].n = k + j
    <3>1. \A j \in 1 .. t : k + j \in 1 .. Len(events)
      BY <1>3, <1>4, <1>9
    <3> QED
      BY <2>1, <3>1 DEF Numbered
  <2>3. ASSUME NEW i \in 1 .. Len(ha)
        PROVE  \/ i \in 1 .. L /\ ha[i].n = handled[i].n /\ handled[i].n \in Nat /\ handled[i].n <= k
               \/ i > L /\ i - L \in 1 .. t /\ ha[i].n = k + (i - L)
    <3>1. CASE i <= L
      <4>1. i \in 1 .. L
        BY <2>1, <3>1
      <4>2. handled[i] \in Message
        BY <4>1, ElementOfSeq
      <4> QED
        BY <2>1, <4>1, <4>2 DEF UpTo, Message
    <3>2. CASE i > L
      <4>1. i - L \in 1 .. t /\ L + (i - L) = i
        BY <2>1, <3>2
      <4>2. ha[L + (i - L)].n = k + (i - L)
        BY <2>2, <4>1
      <4> QED
        BY <3>2, <4>1, <4>2
    <3> QED
      BY <2>1, <3>1, <3>2
  <2>4. \A i \in 1 .. Len(ha) : ha[i].n <= k + q
    BY <1>4, <2>1, <2>3, SMTT(30)
  <2>5. ASSUME NEW i \in 1 .. Len(ha), NEW j \in 1 .. Len(ha), i < j
        PROVE  ha[i].n < ha[j].n
    <3>1. CASE j <= L
      <4>1. i \in 1 .. L /\ j \in 1 .. L
        BY <2>1, <2>5, <3>1
      <4>2. handled[i].n < handled[j].n
        BY <2>5, <4>1 DEF UpTo
      <4>3. ha[i] = handled[i] /\ ha[j] = handled[j]
        BY <2>1, <4>1
      <4> QED
        BY <4>2, <4>3
    <3>2. CASE i <= L /\ ~(j <= L)
      <4>1. i \in 1 .. L /\ j > L
        BY <2>1, <3>2
      <4>2. ha[i].n \in Nat /\ ha[i].n <= k
        BY <2>1, <2>3, <4>1
      <4>3. ha[j].n = k + (j - L) /\ j - L \in 1 .. t
        BY <2>1, <2>3, <4>1
      <4> QED
        BY <4>2, <4>3
    <3>3. CASE ~(i <= L) /\ ~(j <= L)
      BY <2>1, <2>3, <2>5, <3>3
    <3> QED
      BY <2>1, <2>5, <3>1, <3>2, <3>3
  <2>6. UpTo(ha, k + q)
    BY <2>4, <2>5 DEF UpTo
  <2> QED
    BY <2>6 DEF ha
<1>13. 3 * k + n = 3 * (k + q)
  BY <1>3, <1>4, <1>5
<1> QED
  BY <1>4, <1>10, <1>11, <1>12, <1>13

\* What comes of a read while the world is healthy.
WentWell(p, n, s, e) ==
    \E o \in 0 .. 2, t \in Nat, q \in Nat, r \in 0 .. 2 :
       /\ p = 3 * Len(handled) + o /\ current = Begun(events[Len(handled) + 1], o)
       /\ o + n = 3 * q + r /\ s.rest = Begun(events[Len(handled) + q + 1], r)
       /\ t <= q /\ Len(handled) + q <= Len(events)
       /\ Grown(e.handled, handled, events, Len(handled), t)
       /\ (e.how = "on" /\ t = q) \/ (e.how = "returned" /\ t >= 1)

LEMMA HealthyRead ==
    ASSUME events \in Seq(Message), FirstOf(handled, events),
           NEW p, Following(toWorld, events, p), Healthy(events, p, handled, current),
           NEW n, NEW s, NEW e, WorldReadsTo(n, s, e)
    PROVE  WentWell(p, n, s, e)
<1> DEFINE x == current \o SubSeq(toWorld, 1, n)
           h == Len(handled)
<1>1. n \in 1 .. Len(toWorld) /\ s = Split(x) /\ e = Handled(s.lines)
  BY DEF WorldReadsTo
<1>2. PICK o \in 0 .. 2 : p = 3 * h + o /\ current = Begun(events[h + 1], o)
  BY DEF Healthy
<1>3. handled \in Seq(Message) /\ h \in Nat /\ Len(events) \in Nat
  BY LenProperties DEF FirstOf
<1>4. toWorld \in Seq(Unit) /\ Len(toWorld) \in Nat /\ n \in Nat
  BY <1>1, LenProperties DEF Following
<1> DEFINE q == (o + n) \div 3
           r == (o + n) % 3
<1>5. q \in Nat /\ r \in 0 .. 2 /\ o + n = 3 * q + r
  BY <1>4, Thirds
<1>6. Len(x) = o + n /\ Aligned(x, events, h)
  <2>1. Reads(x, current, toWorld, n, events, h, o)
    BY <1>1, <1>2 DEF Reads
  <2> HIDE DEF x, h
  <2> QED
    BY <1>3, <2>1, ReadAligned
<1> HIDE DEF x, h
<1>7. SplitAt(s, events, h, o + n)
  <2>1. SplitAt(s, events, h, Len(x))
    BY <1>1, <1>3, <1>6, SplitAligned
  <2> QED
    BY <1>6, <2>1
<1> HIDE DEF q, r
<1>8. /\ s.lines \in Lines /\ Len(s.lines) = q /\ AreMessages(s.lines, events, h)
      /\ s.rest = Begun(events[h + q + 1], r)
  BY <1>7 DEF SplitAt, Splitting, q, r
<1>9. h + q <= Len(events)
  <2>1. 3 * h + (o + n) <= 3 * Len(events)
    BY <1>6 DEF Aligned
  <2> QED
    BY <1>3, <1>5, <2>1
<1>10. PICK t \in 0 .. q :
          /\ Grown(e.handled, handled, events, h, t)
          /\ (e.how = "on" /\ t = q) \/ (e.how = "returned" /\ t >= 1)
  <2> DEFINE l == s.lines
  <2>1. /\ l \in Lines /\ AreMessages(l, events, h) /\ Len(l) = q
        /\ h + Len(l) <= Len(events) /\ e = Handled(l)
    BY <1>1, <1>8, <1>9
  <2> HIDE DEF l
  <2>2. \E t \in 0 .. Len(l) :
           /\ Grown(e.handled, handled, events, h, t)
           /\ (e.how = "on" /\ t = Len(l)) \/ (e.how = "returned" /\ t >= 1)
    BY <1>3, <2>1, HandledAligned
  <2> QED
    BY <2>1, <2>2
<1>11. t \in Nat /\ t <= q
  BY <1>5
<1> QED
  BY <1>2, <1>5, <1>8, <1>9, <1>10, <1>11 DEF WentWell, h

LEMMA WentWellFirst ==
    ASSUME events \in Seq(Message), FirstOf(handled, events), NEW p, NEW n, NEW s, NEW e, WentWell(p, n, s, e)
    PROVE  FirstOf(e.handled, events)
<1>1. PICK t \in Nat, q \in Nat :
         /\ t <= q /\ Len(handled) + q <= Len(events)
         /\ Grown(e.handled, handled, events, Len(handled), t)
  BY DEF WentWell
<1>2. Len(handled) \in Nat /\ Len(events) \in Nat
  BY LenProperties DEF FirstOf
<1>3. Len(handled) + t <= Len(events)
  BY <1>1, <1>2
<1> QED
  BY <1>1, <1>3, FirstGrows

\* What is kept has no end of a line in it.
LEMMA KeptHasNoEnd ==
    ASSUME NEW m, NEW k, NEW o \in 0 .. 2, NEW r \in 0 .. 2,
           Begun(m, o) \in Seq(Unit), Begun(k, r) \in Seq(Unit)
    PROVE  /\ Len(Begun(m, o) \o Begun(k, r)) = o + r
           /\ \A i \in 1 .. o + r : (Begun(m, o) \o Begun(k, r))[i].part # "end"
<1> DEFINE a == Begun(m, o)
           b == Begun(k, r)
           c == a \o b
<1>1. /\ Len(a) = o /\ \A i \in 1 .. o : a[i] = [part |-> PieceOf(i - 1), of |-> m]
      /\ Len(b) = r /\ \A i \in 1 .. r : b[i] = [part |-> PieceOf(i - 1), of |-> k]
  BY BegunType
<1>2. Joined(Unit, c, a, b)
  <2>1. c = a \o b
    OBVIOUS
  <2>2. a \in Seq(Unit) /\ b \in Seq(Unit)
    OBVIOUS
  <2> HIDE DEF a, b, c
  <2> QED
    BY <2>1, <2>2, Joining
<1> HIDE DEF a, b, c
<1>3. Len(c) = o + r
  BY <1>1, <1>2 DEF Joined
<1>4. \A i \in 1 .. 2 : PieceOf(i - 1) # "end"
  BY DEF PieceOf
<1>5. ASSUME NEW i \in 1 .. o + r
      PROVE  c[i].part # "end"
  <2>1. CASE i <= o
    <3>1. i \in 1 .. o /\ i \in 1 .. 2
      BY <2>1
    <3>2. c[i] = a[i]
      BY <1>1, <1>2, <3>1 DEF Joined
    <3> QED
      BY <1>1, <1>4, <3>1, <3>2
  <2>2. CASE ~(i <= o)
    <3>1. i - o \in 1 .. r /\ i - o \in 1 .. 2 /\ o + (i - o) = i
      BY <2>2
    <3>2. c[o + (i - o)] = b[i - o]
      BY <1>1, <1>2, <3>1 DEF Joined
    <3>3. b[i - o] = [part |-> PieceOf((i - o) - 1), of |-> k]
      BY <1>1, <3>1
    <3> QED
      BY <1>4, <3>1, <3>2, <3>3
  <2> QED
    BY <2>1, <2>2
<1> QED
  BY <1>3, <1>5 DEF a, b, c

\* What was read is read whole, or kept behind what was kept before, which
\* breaks the next line.
LEMMA WentOn ==
    ASSUME events \in Seq(Message), FirstOf(handled, events), current \in Seq(Unit),
           NEW p, NEW n \in Nat, NEW s, NEW e, WentWell(p, n, s, e), s.rest \in Seq(Unit), e.how = "on"
    PROVE  \/ Healthy(events, p + n, e.handled, current \o s.rest)
           \/ Broken(p + n, current \o s.rest)
<1> DEFINE h == Len(handled)
           c == current \o s.rest
<1>1. PICK o \in 0 .. 2, q \in Nat, r \in 0 .. 2 :
         /\ p = 3 * h + o /\ current = Begun(events[h + 1], o)
         /\ o + n = 3 * q + r /\ s.rest = Begun(events[h + q + 1], r)
         /\ h + q <= Len(events) /\ Grown(e.handled, handled, events, h, q)
  BY DEF WentWell
<1>2. h \in Nat /\ Len(events) \in Nat
  BY LenProperties DEF FirstOf
<1>3. Len(e.handled) = h + q
  <2>1. Grown(e.handled, handled, events, h, q)
    BY <1>1
  <2> QED
    BY <2>1 DEF Grown
<1>4. p + n = 3 * (h + q) + r /\ h + q \in Nat
  <2>1. p = 3 * h + o /\ o + n = 3 * q + r /\ h \in Nat
    BY <1>1, <1>2
  <2> HIDE DEF h
  <2> QED
    BY <2>1
<1>5. CASE o = 0
  <2>1. current = <<>>
    BY <1>1, <1>5 DEF Begun
  <2>2. c = s.rest
    BY <2>1, ConcatEmptySeq
  <2>3. c = Begun(events[Len(e.handled) + 1], r)
    BY <1>1, <1>3, <2>2
  <2> HIDE DEF c
  <2>4. Healthy(events, p + n, e.handled, c)
    BY <1>3, <1>4, <2>3 DEF Healthy
  <2> QED
    BY <2>4 DEF c
<1>6. CASE o # 0
  <2>1. Len(c) = o + r /\ \A i \in 1 .. o + r : c[i].part # "end"
    <3> DEFINE m == events[h + 1]
               k == events[h + q + 1]
               b == s.rest
    <3>1. current = Begun(m, o) /\ b = Begun(k, r) /\ Begun(m, o) \in Seq(Unit) /\ Begun(k, r) \in Seq(Unit)
      BY <1>1
    <3> HIDE DEF m, k, b
    <3>2. /\ Len(Begun(m, o) \o Begun(k, r)) = o + r
          /\ \A i \in 1 .. o + r : (Begun(m, o) \o Begun(k, r))[i].part # "end"
      BY <3>1, KeptHasNoEnd
    <3> QED
      BY <3>1, <3>2, Zenon DEF b
  <2>2. (3 * (h + q) + r) % 3 = r
    BY <1>4, ThirdsAre
  <2> HIDE DEF c
  <2>3. Len(c) > ((p + n) % 3)
    BY <1>4, <1>6, <2>1, <2>2
  <2>4. Broken(p + n, c)
    BY <2>1, <2>3 DEF Broken
  <2> QED
    BY <2>4 DEF c
<1> QED
  BY <1>5, <1>6

\* When nothing is dropped at a `return', the read ended with the message.
LEMMA WentBack ==
    ASSUME events \in Seq(Message), Numbered(events), FirstOf(handled, events), current \in Seq(Unit),
           NEW p, Following(toWorld, events, p), NEW n \in 1 .. Len(toWorld), NEW s, NEW e,
           WentWell(p, n, s, e), e.how = "returned", Last(e.handled) = toWorld[n].of
    PROVE  Healthy(events, p + n, e.handled, current) \/ Broken(p + n, current)
<1> DEFINE h == Len(handled)
<1>1. PICK o \in 0 .. 2, t \in Nat, q \in Nat, r \in 0 .. 2 :
         /\ p = 3 * h + o /\ current = Begun(events[h + 1], o)
         /\ o + n = 3 * q + r /\ t <= q /\ t >= 1
         /\ h + q <= Len(events) /\ Grown(e.handled, handled, events, h, t)
  BY DEF WentWell
<1>2. /\ h \in Nat /\ Len(events) \in Nat /\ toWorld \in Seq(Unit) /\ Len(toWorld) = 3 * Len(events) - p
      /\ Len(toWorld) \in Nat /\ toWorld[n] = Piece(events, p + n - 1)
  BY LenProperties DEF FirstOf, Following
<1>3. n \in Nat /\ 1 <= n /\ n <= Len(toWorld)
  BY <1>2
<1>4. e.handled \in Seq(Message) /\ Len(e.handled) = h + t /\ e.handled[h + t] = events[h + t]
  <2>1. Grown(e.handled, handled, events, h, t) /\ t \in 1 .. t
    BY <1>1
  <2> QED
    BY <2>1 DEF Grown
<1> DEFINE k == p + n - 1
<1>5. k \in Nat /\ k < 3 * Len(events) /\ k + 1 = 3 * (h + q) + r
  <2>1. p = 3 * h + o /\ o + n = 3 * q + r
    BY <1>1
  <2>2. h \in Nat /\ Len(events) \in Nat /\ Len(toWorld) = 3 * Len(events) - p
    BY <1>2
  <2> HIDE DEF h
  <2> QED
    BY <1>3, <2>1, <2>2
<1> HIDE DEF k
<1>6. k % 3 \in 0 .. 2 /\ k \div 3 \in Nat /\ k = 3 * (k \div 3) + (k % 3)
  BY <1>5, Thirds
<1>7. toWorld[n].of = events[k \div 3 + 1]
  BY <1>2 DEF Piece, k
<1>8. events[h + t] = events[k \div 3 + 1]
  BY <1>4, <1>7 DEF Last
<1>9. h + t = k \div 3 + 1
  <2>1. h + t \in 1 .. Len(events) /\ k \div 3 + 1 \in 1 .. Len(events)
    <3> DEFINE d == k \div 3
               m == k % 3
    <3>1. d \in Nat /\ m \in 0 .. 2 /\ k = 3 * d + m
      BY <1>6
    <3> HIDE DEF d, m, h
    <3>2. d + 1 \in 1 .. Len(events)
      BY <1>2, <1>5, <3>1
    <3>3. h + t \in 1 .. Len(events)
      BY <1>1, <1>2
    <3> QED
      BY <3>2, <3>3 DEF d
  <2>2. events[h + t].n = h + t /\ events[k \div 3 + 1].n = k \div 3 + 1
    BY <2>1 DEF Numbered
  <2> QED
    BY <1>8, <2>2
<1>10. r = 0 /\ t = q
  <2>1. t <= q /\ h \in Nat /\ k + 1 = 3 * (h + q) + r /\ k \in Nat
    BY <1>1, <1>2, <1>5
  <2> HIDE DEF h
  <2> QED
    BY <1>6, <1>9, <2>1
<1>11. p + n = 3 * (h + t) /\ h + t \in Nat
  <2>1. p + n - 1 + 1 = p + n
    BY <1>1, <1>2, <1>3
  <2>2. k + 1 = 3 * (h + q) + r /\ h \in Nat
    BY <1>2, <1>5
  <2> HIDE DEF h
  <2> QED
    BY <1>10, <2>1, <2>2 DEF k
<1>12. CASE o = 0
  <2>1. p + n = 3 * Len(e.handled) + 0 /\ current = Begun(events[Len(e.handled) + 1], 0) /\ 0 \in 0 .. 2
    BY <1>1, <1>4, <1>11, <1>12 DEF Begun
  <2>2. \E i \in 0 .. 2 : p + n = 3 * Len(e.handled) + i /\ current = Begun(events[Len(e.handled) + 1], i)
    BY <2>1
  <2> QED
    BY <2>2 DEF Healthy
<1>13. CASE o # 0
  <2>1. /\ Len(current) = o
        /\ \A i \in 1 .. o : current[i] = [part |-> PieceOf(i - 1), of |-> events[h + 1]]
    BY <1>1, BegunType
  <2>2. \A i \in 1 .. 2 : PieceOf(i - 1) # "end"
    BY DEF PieceOf
  <2>3. \A i \in 1 .. Len(current) : current[i].part # "end"
    BY <2>1, <2>2
  <2>4. (p + n) % 3 = 0
    <3>1. (3 * (h + t) + 0) % 3 = 0
      BY <1>11, ThirdsAre
    <3>2. 3 * (h + t) + 0 = p + n
      BY <1>11
    <3> QED
      BY <3>1, <3>2
  <2> QED
    BY <1>13, <2>1, <2>3, <2>4 DEF Broken
<1> QED
  BY <1>12, <1>13

\* With a broken line in front of it, a read is kept, or the world raises.
LEMMA BrokenRead ==
    ASSUME events \in Seq(Message), handled \in Seq(Message), current \in Seq(Unit),
           NEW p \in Nat, Following(toWorld, events, p), Broken(p, current),
           NEW n, NEW s, NEW e, WorldReadsTo(n, s, e)
    PROVE  /\ e.handled = handled
           /\ e.how = "raised" \/ (e.how = "on" /\ Broken(p + n, current \o s.rest))
<1> DEFINE b == SubSeq(toWorld, 1, n)
           x == current \o b
           L == Len(current)
           o == p % 3
<1>1. n \in 1 .. Len(toWorld) /\ s = Split(x) /\ e = Handled(s.lines)
  BY DEF WorldReadsTo
<1>2. /\ toWorld \in Seq(Unit) /\ Len(toWorld) \in Nat /\ n \in Nat /\ 1 <= n /\ L \in Nat
      /\ \A i \in 1 .. Len(toWorld) : toWorld[i] = Piece(events, p + i - 1)
  BY <1>1, LenProperties DEF Following
<1>3. Part(Unit, b, toWorld, 1, n)
  <2>1. /\ b = SubSeq(toWorld, 1, n) /\ n \in 0 .. Len(toWorld)
        /\ 1 \in 1 .. Len(toWorld) + 1 /\ 1 <= n + 1
    BY <1>1, <1>2
  <2> HIDE DEF b
  <2> QED
    BY <1>2, <2>1, Cutting
<1> HIDE DEF b
<1>4. b \in Seq(Unit) /\ Len(b) = n /\ \A i \in 1 .. n : b[i] = toWorld[i]
  <2>1. n + 1 - 1 = n /\ \A i \in 1 .. n : 1 + i - 1 = i
    BY <1>2
  <2> QED
    BY <1>3, <2>1 DEF Part
<1>5. Joined(Unit, x, current, b)
  <2>1. x = current \o b
    OBVIOUS
  <2> HIDE DEF x
  <2> QED
    BY <1>4, <2>1, Joining
<1> HIDE DEF x, L
<1>6. /\ x \in Seq(Unit) /\ Len(x) = L + n
      /\ \A i \in 1 .. L : x[i] = current[i]
      /\ \A i \in 1 .. n : x[L + i] = b[i]
  BY <1>4, <1>5 DEF Joined, L
<1>7. (\A i \in 1 .. L : current[i].part # "end") /\ L > o
  BY DEF Broken, L
<1>8. o \in 0 .. 2 /\ p \div 3 \in Nat /\ p = 3 * (p \div 3) + o
  BY Thirds
<1> HIDE DEF o
<1>9. \A i \in 1 .. n : x[L + i].part = PieceOf((p + i - 1) % 3)
  <2>1. SUFFICES ASSUME NEW i \in 1 .. n
                 PROVE  x[L + i].part = PieceOf((p + i - 1) % 3)
    OBVIOUS
  <2>2. i \in 1 .. Len(toWorld)
    BY <1>1, <1>2
  <2>3. x[L + i] = b[i] /\ b[i] = toWorld[i] /\ toWorld[i] = Piece(events, p + i - 1)
    BY <1>2, <1>4, <1>6, <2>2
  <2> QED
    BY <2>3 DEF Piece
<1>10. PICK f \in Nat : FirstEnd(x, f)
  BY <1>6, FirstEndExists
<1>11. /\ s \in Splitting
       /\ f = Len(x) + 1 => s.lines = <<>> /\ s.rest = x
       /\ f <= Len(x) => Len(s.lines) >= 1 /\ Len(s.lines[1]) = f - 1
  BY <1>1, <1>6, <1>10, SplitFirst
<1>12. /\ f \in 1 .. Len(x) + 1 /\ Len(x) \in Nat
       /\ \A i \in 1 .. f - 1 : x[i].part # "end"
       /\ f <= Len(x) => x[f].part = "end"
  BY <1>6, <1>10, LenProperties DEF FirstEnd
<1>13. s.lines \in Lines /\ s.rest \in Seq(Unit)
  BY <1>11 DEF Splitting
<1>14. CASE f <= Len(x)
  <2>1. f > L
    <3>1. SUFFICES ASSUME f <= L
                   PROVE  FALSE
      BY <1>2, <1>12
    <3>2. f \in 1 .. L /\ x[f].part = "end"
      BY <1>12, <1>14, <3>1
    <3> QED
      BY <1>6, <1>7, <3>2
  <2>2. PICK i \in 1 .. n : f = L + i
    <3>1. f - L \in 1 .. n /\ f = L + (f - L)
      BY <1>2, <1>6, <1>12, <1>14, <2>1
    <3> QED
      BY <3>1
  <2>3. PieceOf((p + i - 1) % 3) = "end"
    BY <1>9, <1>12, <1>14, <2>2
  <2>4. (p + i - 1) % 3 = 2 /\ p + i - 1 \in Nat
    <3>1. p + i - 1 \in Nat
      BY <1>2
    <3>2. (p + i - 1) % 3 \in 0 .. 2
      BY <3>1, Thirds
    <3> QED
      BY <2>3, <3>1, <3>2 DEF PieceOf
  <2>5. o + i >= 3
    <3>1. SUFFICES ASSUME o + i < 3
                   PROVE  FALSE
      BY <1>2, <1>8
    <3>2. o + i - 1 \in 0 .. 2 /\ p + i - 1 = 3 * (p \div 3) + (o + i - 1) /\ o + i - 1 # 2
      BY <1>2, <1>8, <3>1
    <3>3. (3 * (p \div 3) + (o + i - 1)) % 3 = o + i - 1
      BY <1>8, <3>2, ThirdsAre
    <3> QED
      BY <2>4, <3>2, <3>3
  <2>6. f - 1 >= 3
    BY <1>2, <1>7, <1>8, <2>2, <2>5
  <2>7. Len(s.lines) >= 1 /\ Len(s.lines[1]) >= 3
    BY <1>11, <1>12, <1>14, <2>6
  <2>8. e.how = "raised" /\ e.handled = handled
    BY <1>1, <1>13, <2>7, HandledBroken
  <2> QED
    BY <2>8
<1>15. CASE f = Len(x) + 1
  <2>1. s.lines = <<>> /\ s.rest = x
    BY <1>11, <1>15
  <2>2. e.how = "on" /\ e.handled = handled
    <3> DEFINE l == s.lines
    <3>1. l \in Lines /\ l = <<>> /\ e = Handled(l)
      BY <1>1, <1>13, <2>1
    <3>2. Len(l) = 0
      BY <3>1
    <3> HIDE DEF l
    <3>3. PICK at : Handles(at, l, 0)
      BY <3>1, <3>2, HandledPasses
    <3> QED
      BY <3>1, <3>3 DEF Handles
  <2>3. \A i \in 1 .. Len(x) : x[i].part # "end"
    BY <1>12, <1>15
  <2>4. o + n <= 2
    <3>1. SUFFICES ASSUME o + n >= 3
                   PROVE  FALSE
      BY <1>2, <1>8
    <3> DEFINE i == 3 - o
    <3>2. i \in 1 .. n /\ L + i \in 1 .. Len(x) /\ p + i - 1 = 3 * (p \div 3) + 2
      BY <1>2, <1>6, <1>8, <3>1
    <3> HIDE DEF i
    <3>3. (p + i - 1) % 3 = 2
      BY <1>8, <3>2, ThirdsAre
    <3>4. x[L + i].part = "end"
      <4>1. x[L + i].part = PieceOf((p + i - 1) % 3)
        BY <1>9, <3>2
      <4>2. PieceOf(2) = "end"
        BY DEF PieceOf
      <4> QED
        BY <3>3, <4>1, <4>2
    <3> DEFINE j == L + i
    <3>5. j \in 1 .. Len(x) /\ x[j].part = "end"
      BY <3>2, <3>4
    <3> HIDE DEF j
    <3> QED
      BY <2>3, <3>5
  <2>5. (p + n) % 3 = o + n
    <3>1. o + n \in 0 .. 2 /\ p + n = 3 * (p \div 3) + (o + n)
      BY <1>2, <1>8, <2>4
    <3> QED
      BY <1>8, <3>1, ThirdsAre
  <2> DEFINE c == current \o x
  <2>6. Joined(Unit, c, current, x)
    <3>1. c = current \o x
      OBVIOUS
    <3> HIDE DEF c
    <3> QED
      BY <1>6, <3>1, Joining
  <2> HIDE DEF c
  <2>7. /\ Len(c) = L + (L + n)
        /\ \A i \in 1 .. L : c[i] = current[i]
        /\ \A i \in 1 .. L + n : c[L + i] = x[i]
    BY <1>6, <2>6 DEF Joined, L
  <2>8. Len(c) > ((p + n) % 3)
    BY <1>2, <1>7, <1>8, <2>5, <2>7
  <2>9. ASSUME NEW i \in 1 .. Len(c)
        PROVE  c[i].part # "end"
    <3>1. CASE i <= L
      <4>1. i \in 1 .. L
        BY <1>2, <2>7, <3>1
      <4> QED
        BY <1>7, <2>7, <4>1
    <3>2. CASE ~(i <= L)
      <4>1. i - L \in 1 .. L + n /\ L + (i - L) = i
        BY <1>2, <2>7, <3>2
      <4>2. c[L + (i - L)] = x[i - L] /\ i - L \in 1 .. Len(x)
        BY <1>6, <2>7, <4>1
      <4> QED
        BY <2>3, <4>1, <4>2
    <3> QED
      BY <3>1, <3>2
  <2>10. Broken(p + n, c)
    BY <2>8, <2>9 DEF Broken
  <2>11. Broken(p + n, current \o s.rest)
    BY <2>1, <2>10 DEF c
  <2> QED
    BY <2>2, <2>11
<1> QED
  BY <1>12, <1>14, <1>15

-----------------------------------------------------------------------------
(* The inductive invariant, of the world's side.                           *)

WorldIsSteady ==
    /\ events \in Seq(Message) /\ Numbered(events) /\ Following(toWorld, events, Taken)
    /\ handled \in Seq(Message) /\ current \in Seq(Unit)
    /\ cut \in BOOLEAN /\ dropped \in BOOLEAN
    /\ ~cut => /\ failed = {} /\ current = <<>>
               /\ \E k \in Nat : Taken = 3 * k /\ UpTo(handled, k)
    /\ ~dropped => /\ FirstOf(handled, events)
                   /\ failed = {} => \/ Healthy(events, Taken, handled, current)
                                     \/ Broken(Taken, current)

\* The types of what a read comes to.
LEMMA ReadType ==
    ASSUME events \in Seq(Message), handled \in Seq(Message), current \in Seq(Unit), toWorld \in Seq(Unit),
           NEW n, NEW s, NEW e, WorldReadsTo(n, s, e)
    PROVE  s.rest \in Seq(Unit) /\ e \in Handling /\ current \o s.rest \in Seq(Unit)
<1> DEFINE b == SubSeq(toWorld, 1, n)
           x == current \o b
<1>1. n \in 1 .. Len(toWorld) /\ s = Split(x) /\ e = Handled(s.lines)
  BY DEF WorldReadsTo
<1>2. Part(Unit, b, toWorld, 1, n)
  <2>1. /\ b = SubSeq(toWorld, 1, n) /\ n \in 0 .. Len(toWorld)
        /\ 1 \in 1 .. Len(toWorld) + 1 /\ 1 <= n + 1
    BY <1>1, LenProperties
  <2> HIDE DEF b
  <2> QED
    BY <2>1, Cutting
<1> HIDE DEF b
<1>3. x \in Seq(Unit)
  BY <1>2, ConcatProperties DEF Part
<1> HIDE DEF x
<1>4. s \in Splitting
  <2>1. PICK f \in Nat : FirstEnd(x, f)
    BY <1>3, FirstEndExists
  <2> QED
    BY <1>1, <1>3, <2>1, SplitFirst
<1>5. s.lines \in Lines /\ s.rest \in Seq(Unit)
  BY <1>4 DEF Splitting
<1>6. e \in Handling
  <2> DEFINE l == s.lines
             m == Len(l)
  <2>1. l \in Lines /\ e = Handled(l) /\ m \in Nat
    BY <1>1, <1>5, LenProperties DEF Lines
  <2> HIDE DEF l
  <2>2. PICK at : Handles(at, l, m)
    BY <2>1, HandledPasses
  <2>3. at \in [0 .. m -> Handling] /\ Handled(l) = at[m]
    BY <2>2 DEF Handles
  <2> HIDE DEF m
  <2> QED
    BY <2>1, <2>3
<1>7. current \o s.rest \in Seq(Unit)
  BY <1>5, ConcatProperties
<1> QED
  BY <1>5, <1>6, <1>7

LEMMA WorldReadsSo ==
    ASSUME WorldIsSteady, WorldReads
    PROVE  /\ WorldIsSteady' /\ failed' \in {{}, {"world"}}
           /\ ~cut' /\ ~dropped' =>
                 \E t \in Nat : /\ t >= 1 /\ Len(handled) + t <= Len(events)
                                /\ handled' = SubSeq(events, 1, Len(handled) + t)
<1> DEFINE p == Taken
<1>1. PICK n \in 1 .. Len(toWorld) :
         LET s == Split(current \o SubSeq(toWorld, 1, n))
             e == Handled(Complete(s))
         IN  /\ toWorld' = SubSeq(toWorld, n + 1, Len(toWorld))
             /\ handled' = e.handled
             /\ current' = IF e.how = "on" THEN current \o s.rest ELSE current
             /\ failed' = IF e.how = "raised" THEN {"world"} ELSE {}
             /\ cut' = (cut \/ toWorld[n].part # "end")
             /\ dropped' = (dropped \/ (e.how = "returned" /\ Last(e.handled) # toWorld[n].of))
  BY DEF WorldReads
<1>2. PICK s, e :
         /\ WorldReadsTo(n, s, e)
         /\ toWorld' = SubSeq(toWorld, n + 1, Len(toWorld))
         /\ handled' = e.handled
         /\ current' = IF e.how = "on" THEN current \o s.rest ELSE current
         /\ failed' = IF e.how = "raised" THEN {"world"} ELSE {}
         /\ cut' = (cut \/ toWorld[n].part # "end")
         /\ dropped' = (dropped \/ (e.how = "returned" /\ Last(e.handled) # toWorld[n].of))
  BY <1>1 DEF WorldReadsTo, Complete
<1>3. failed = {} /\ events' = events
  BY DEF WorldReads
<1>4. /\ events \in Seq(Message) /\ Numbered(events) /\ Following(toWorld, events, p)
      /\ handled \in Seq(Message) /\ current \in Seq(Unit) /\ cut \in BOOLEAN /\ dropped \in BOOLEAN
  BY DEF WorldIsSteady
<1>5. toWorld \in Seq(Unit) /\ p \in Nat /\ Len(toWorld) \in Nat /\ n \in Nat /\ Len(events) \in Nat
  BY <1>4, LenProperties DEF Following
<1>6. s.rest \in Seq(Unit) /\ e \in Handling /\ current \o s.rest \in Seq(Unit)
  BY <1>2, <1>4, <1>5, ReadType
<1>7. e.handled \in Seq(Message) /\ e.how \in {"on", "returned", "raised"}
  BY <1>6 DEF Handling
<1>8. Following(toWorld', events, p + n)
  BY <1>2, <1>4, LeftFollows
<1>9. Taken' = p + n
  <2>1. Len(toWorld') = 3 * Len(events) - (p + n)
    BY <1>8 DEF Following
  <2> QED
    BY <1>3, <1>5, <2>1 DEF Taken
<1> HIDE DEF p
<1>10. ASSUME ~cut'
       PROVE  /\ failed' = {} /\ current' = <<>>
              /\ \E k \in Nat : Taken' = 3 * k /\ UpTo(handled', k)
              /\ \E k \in Nat : n = 3 * k
  <2>1. ~cut /\ toWorld[n].part = "end"
    BY <1>2, <1>10
  <2>2. current = <<>> /\ \E k \in Nat : p = 3 * k /\ UpTo(handled, k)
    BY <2>1 DEF WorldIsSteady, p
  <2>3. PICK k \in Nat : p = 3 * k /\ UpTo(handled, k)
    BY <2>2
  <2>4. Following(toWorld, events, 3 * k)
    BY <1>4, <2>3
  <2>5. /\ e.how \in {"on", "returned"} /\ s.rest = <<>>
        /\ \E q \in Nat : 3 * k + n = 3 * (k + q) /\ UpTo(e.handled, k + q)
    BY <1>2, <1>4, <2>1, <2>2, <2>3, <2>4, WholeRead
  <2>6. PICK q \in Nat : 3 * k + n = 3 * (k + q) /\ UpTo(e.handled, k + q)
    BY <2>5
  <2>7. failed' = {}
    BY <1>2, <2>5
  <2>8. current' = <<>>
    <3>1. current \o s.rest = <<>>
      BY <2>2, <2>5
    <3> QED
      BY <1>2, <2>2, <3>1
  <2>9. k + q \in Nat /\ Taken' = 3 * (k + q) /\ UpTo(handled', k + q)
    BY <1>2, <1>9, <2>3, <2>6
  <2>10. n = 3 * q
    BY <1>5, <2>6
  <2> QED
    BY <2>7, <2>8, <2>9, <2>10
<1>11. ASSUME ~dropped', Healthy(events, p, handled, current)
       PROVE  /\ FirstOf(handled', events) /\ WentWell(p, n, s, e)
              /\ Healthy(events, p + n, handled', current') \/ Broken(p + n, current')
  <2>1. FirstOf(handled, events)
    BY <1>2, <1>11 DEF WorldIsSteady
  <2>2. WentWell(p, n, s, e)
    BY <1>2, <1>4, <1>11, <2>1, HealthyRead
  <2>3. FirstOf(e.handled, events)
    BY <1>4, <2>1, <2>2, WentWellFirst
  <2>4. e.how = "on" \/ e.how = "returned"
    BY <2>2 DEF WentWell
  <2>5. CASE e.how = "on"
    <3>1. Healthy(events, p + n, e.handled, current \o s.rest) \/ Broken(p + n, current \o s.rest)
      BY <1>4, <1>5, <1>6, <2>1, <2>2, <2>5, WentOn
    <3> QED
      BY <1>2, <2>2, <2>3, <2>5, <3>1
  <2>6. CASE e.how = "returned"
    <3>1. Last(e.handled) = toWorld[n].of /\ current' = current
      BY <1>2, <1>11, <2>6
    <3>2. Healthy(events, p + n, e.handled, current) \/ Broken(p + n, current)
      BY <1>4, <2>1, <2>2, <2>6, <3>1, WentBack
    <3> QED
      BY <1>2, <2>2, <2>3, <3>1, <3>2
  <2> QED
    BY <2>4, <2>5, <2>6
<1>12. ASSUME ~dropped', Broken(p, current)
       PROVE  /\ FirstOf(handled', events)
              /\ failed' = {} => Broken(p + n, current')
  <2>1. FirstOf(handled, events)
    BY <1>2, <1>12 DEF WorldIsSteady
  <2>2. /\ e.handled = handled
        /\ e.how = "raised" \/ (e.how = "on" /\ Broken(p + n, current \o s.rest))
    BY <1>2, <1>4, <1>5, <1>12, BrokenRead
  <2>3. CASE e.how = "raised"
    <3>1. failed' = {"world"} /\ {"world"} # {}
      BY <1>2, <2>3
    <3> QED
      BY <1>2, <2>1, <2>2, <3>1
  <2>4. CASE e.how = "on" /\ Broken(p + n, current \o s.rest)
    <3>1. current' = current \o s.rest
      BY <1>2, <2>4
    <3> QED
      BY <1>2, <2>1, <2>2, <2>4, <3>1
  <2> QED
    BY <2>2, <2>3, <2>4
<1>13. ~dropped' => Healthy(events, p, handled, current) \/ Broken(p, current)
  BY <1>2, <1>3 DEF WorldIsSteady, p
<1>14. WorldIsSteady'
  <2>1. Numbered(events') /\ events' \in Seq(Message) /\ Following(toWorld', events', Taken')
    BY <1>3, <1>4, <1>8, <1>9
  <2>2. handled' \in Seq(Message) /\ current' \in Seq(Unit)
    BY <1>2, <1>4, <1>6, <1>7
  <2>3. cut' \in BOOLEAN /\ dropped' \in BOOLEAN
    BY <1>2, Zenon
  <2>4. ~cut' => /\ failed' = {} /\ current' = <<>>
                 /\ \E k \in Nat : Taken' = 3 * k /\ UpTo(handled', k)
    BY <1>10
  <2>5. ~dropped' => /\ FirstOf(handled', events')
                     /\ failed' = {} => \/ Healthy(events', Taken', handled', current')
                                        \/ Broken(Taken', current')
    BY <1>3, <1>9, <1>11, <1>12, <1>13
  <2> QED
    BY <2>1, <2>2, <2>3, <2>4, <2>5 DEF WorldIsSteady
<1>15. failed' \in {{}, {"world"}}
  BY <1>2
<1>16. ASSUME ~cut', ~dropped'
       PROVE  \E t \in Nat : /\ t >= 1 /\ Len(handled) + t <= Len(events)
                             /\ handled' = SubSeq(events, 1, Len(handled) + t)
  <2>1. current = <<>> /\ FirstOf(handled, events)
    BY <1>2, <1>16 DEF WorldIsSteady
  <2>2. ~Broken(p, current)
    <3>1. Len(current) = 0
      BY <2>1
    <3>2. p % 3 \in 0 .. 2
      BY <1>5, Thirds
    <3>3. ~(Len(current) > (p % 3))
      BY <3>1, <3>2
    <3> QED
      BY <3>3 DEF Broken
  <2>3. WentWell(p, n, s, e)
    BY <1>11, <1>13, <1>16, <2>2
  <2>4. PICK o \in 0 .. 2, t \in Nat, q \in Nat, r \in 0 .. 2 :
           /\ current = Begun(events[Len(handled) + 1], o)
           /\ o + n = 3 * q + r
           /\ t <= q /\ Len(handled) + q <= Len(events)
           /\ Grown(e.handled, handled, events, Len(handled), t)
           /\ (e.how = "on" /\ t = q) \/ (e.how = "returned" /\ t >= 1)
    BY <2>3 DEF WentWell
  <2>5. o = 0
    <3>1. Len(current) = o
      BY <2>4, BegunType
    <3>2. Len(current) = 0
      BY <2>1
    <3> QED
      BY <3>1, <3>2
  <2>6. q >= 1
    <3>1. PICK k \in Nat : n = 3 * k
      BY <1>10, <1>16
    <3>2. n >= 1
      BY <1>5
    <3>3. 3 * k = 3 * q + r
      BY <2>4, <2>5, <3>1
    <3> QED
      BY <3>1, <3>2, <3>3
  <2>7. t >= 1
    BY <2>4, <2>6
  <2>8. Len(handled) \in Nat /\ Len(handled) + t <= Len(events)
    <3>1. Len(handled) \in Nat
      BY <1>4, LenProperties
    <3> QED
      BY <1>5, <2>4, <3>1
  <2>9. e.handled = SubSeq(events, 1, Len(handled) + t)
    BY <1>4, <2>1, <2>4, <2>8, FirstGrows
  <2> QED
    BY <1>2, <2>7, <2>8, <2>9
<1> QED
  BY <1>14, <1>15, <1>16

-----------------------------------------------------------------------------
(* The steps.                                                              *)

Steady == ServerIsSteady /\ WorldIsSteady

LEMMA InitIsSteady == Init => Steady
<1> SUFFICES ASSUME Init
             PROVE  Steady
  OBVIOUS
<1> DEFINE none == <<>>
<1>1. none \in Seq(Message) /\ none \in Seq(Unit) /\ Len(none) = 0
  OBVIOUS
<1>2. /\ commands = none /\ toServer = none /\ rcvbuf = none /\ served = none
      /\ events = none /\ toWorld = none /\ current = none /\ handled = none
      /\ failed = {} /\ cut = FALSE /\ dropped = FALSE
  BY DEF Init
<1>3. \A m : none = Begun(m, 0)
  BY DEF Begun
<1> HIDE DEF none
<1>4. Following(none, none, 0)
  BY <1>1 DEF Following
<1>5. FirstOf(none, none) /\ Numbered(none) /\ UpTo(none, 0)
  BY <1>1 DEF FirstOf, Numbered, UpTo
<1>6. ServerIsSteady
  <2>1. Following(toServer, commands, 3 * Len(served) + 0)
    BY <1>1, <1>2, <1>4
  <2> QED
    BY <1>1, <1>2, <1>3, <1>5, <2>1 DEF ServerIsSteady
<1>7. Taken = 0
  BY <1>1, <1>2 DEF Taken
<1>8. Healthy(events, 0, handled, current)
  <2>1. 0 = 3 * Len(handled) + 0 /\ current = Begun(events[Len(handled) + 1], 0)
    BY <1>1, <1>2, <1>3
  <2> QED
    BY <2>1 DEF Healthy
<1>9. WorldIsSteady
  <2>1. Following(toWorld, events, Taken) /\ Numbered(events) /\ FirstOf(handled, events)
    BY <1>2, <1>4, <1>5, <1>7
  <2>2. Taken = 3 * 0 /\ UpTo(handled, 0) /\ current = <<>>
    BY <1>2, <1>5, <1>7 DEF none
  <2>3. events \in Seq(Message) /\ handled \in Seq(Message) /\ current \in Seq(Unit)
    BY <1>1, <1>2
  <2>4. cut \in BOOLEAN /\ dropped \in BOOLEAN /\ failed = {}
    BY <1>2
  <2>5. Healthy(events, Taken, handled, current)
    BY <1>7, <1>8
  <2>6. \E k \in Nat : Taken = 3 * k /\ UpTo(handled, k)
    BY <2>2
  <2> QED
    BY <2>1, <2>2, <2>3, <2>4, <2>5, <2>6 DEF WorldIsSteady
<1> QED
  BY <1>6, <1>9 DEF Steady

\* A message more does not change what comes before it.
LEMMA AppendKeeps ==
    ASSUME NEW ms \in Seq(Message), NEW m \in Message, NEW ns, ns = Append(ms, m)
    PROVE  /\ ns \in Seq(Message) /\ Len(ms) \in Nat /\ Len(ns) = Len(ms) + 1
           /\ ns[Len(ms) + 1] = m /\ \A i \in 1 .. Len(ms) : ns[i] = ms[i]
BY Appending

LEMMA AppendKeepsFirst ==
    ASSUME NEW ms \in Seq(Message), NEW m \in Message, NEW ns, ns = Append(ms, m), NEW r, FirstOf(r, ms)
    PROVE  FirstOf(r, ns)
<1>1. /\ ns \in Seq(Message) /\ Len(ms) \in Nat /\ Len(ns) = Len(ms) + 1
      /\ \A i \in 1 .. Len(ms) : ns[i] = ms[i]
  BY AppendKeeps
<1>2. r \in Seq(Message) /\ Len(r) \in Nat /\ Len(r) <= Len(ms) /\ \A i \in 1 .. Len(r) : r[i] = ms[i]
  BY LenProperties DEF FirstOf
<1>3. \A i \in 1 .. Len(r) : i \in 1 .. Len(ms)
  BY <1>1, <1>2
<1>4. Len(r) <= Len(ns)
  BY <1>1, <1>2
<1> QED
  BY <1>1, <1>2, <1>3, <1>4 DEF FirstOf

\* Nor does it change what was read of the message after the first k.
LEMMA AppendKeepsBegun ==
    ASSUME NEW ms \in Seq(Message), NEW m \in Message, NEW ns, ns = Append(ms, m),
           NEW k \in Nat, NEW o \in 0 .. 2, 3 * k + o <= 3 * Len(ms)
    PROVE  Begun(ns[k + 1], o) = Begun(ms[k + 1], o)
<1>1. Len(ms) \in Nat /\ \A i \in 1 .. Len(ms) : ns[i] = ms[i]
  BY AppendKeeps
<1>2. CASE o = 0
  BY <1>2 DEF Begun
<1>3. CASE o # 0
  <2>1. k + 1 \in 1 .. Len(ms)
    BY <1>1, <1>3
  <2> QED
    BY <1>1, <2>1
<1> QED
  BY <1>2, <1>3

LEMMA CommandIsSent == ServerIsSteady /\ SendCommand => ServerIsSteady'
<1> SUFFICES ASSUME ServerIsSteady, SendCommand
             PROVE  ServerIsSteady'
  OBVIOUS
<1> DEFINE m == [n |-> Len(commands) + 1, kind |-> "plain"]
           h == Len(served)
<1>1. /\ commands \in Seq(Message) /\ failed \in {{}, {"world"}} /\ FirstOf(served, commands)
      /\ Len(commands) \in Nat /\ h \in Nat
  BY LenProperties DEF ServerIsSteady, FirstOf
<1>2. m \in Message
  BY <1>1 DEF Message
<1>3. /\ commands' = Append(commands, m) /\ toServer' = toServer \o Units(m)
      /\ rcvbuf' = rcvbuf /\ served' = served /\ failed' = failed
  BY DEF SendCommand, world
<1> HIDE DEF m
<1>4. PICK o \in 0 .. 2 : rcvbuf = Begun(commands[h + 1], o) /\ Following(toServer, commands, 3 * h + o)
  BY DEF ServerIsSteady
<1>5. Following(toServer', commands', 3 * h + o)
  BY <1>1, <1>2, <1>3, <1>4, SendingFollows
<1>6. commands' \in Seq(Message) /\ FirstOf(served, commands')
  BY <1>1, <1>2, <1>3, AppendKeeps, AppendKeepsFirst
<1>7. Begun(commands'[h + 1], o) = Begun(commands[h + 1], o)
  <2>1. 3 * h + o <= 3 * Len(commands)
    BY <1>4 DEF Following
  <2> HIDE DEF h
  <2> QED
    BY <1>1, <1>2, <1>3, <2>1, AppendKeepsBegun
<1> QED
  BY <1>1, <1>3, <1>4, <1>5, <1>6, <1>7 DEF ServerIsSteady

LEMMA EventIsSent ==
    ASSUME WorldIsSteady, NEW kind \in {"version", "stray", "plain"}, SendEvent(kind)
    PROVE  WorldIsSteady'
<1> DEFINE m == [n |-> Len(events) + 1, kind |-> kind]
           h == Len(handled)
           p == Taken
<1>1. /\ events \in Seq(Message) /\ Numbered(events) /\ Following(toWorld, events, p)
      /\ handled \in Seq(Message) /\ current \in Seq(Unit) /\ cut \in BOOLEAN /\ dropped \in BOOLEAN
      /\ Len(events) \in Nat /\ h \in Nat
  BY LenProperties DEF WorldIsSteady
<1>2. m \in Message /\ m.n = Len(events) + 1
  BY <1>1 DEF Message
<1>3. /\ events' = Append(events, m) /\ toWorld' = toWorld \o Units(m)
      /\ current' = current /\ handled' = handled /\ cut' = cut /\ dropped' = dropped /\ failed' = failed
  BY DEF SendEvent
<1> HIDE DEF m, p
<1>4. Following(toWorld', events', p)
  BY <1>1, <1>2, <1>3, SendingFollows
<1>5. /\ events' \in Seq(Message) /\ Len(events') = Len(events) + 1
      /\ events'[Len(events) + 1] = m /\ \A i \in 1 .. Len(events) : events'[i] = events[i]
  BY <1>1, <1>2, <1>3, AppendKeeps
<1>6. Taken' = p
  <2>1. Len(toWorld') = 3 * Len(events') - p /\ p \in Nat
    BY <1>4 DEF Following
  <2> QED
    BY <1>1, <1>5, <2>1 DEF Taken
<1>7. Numbered(events')
  <2>1. SUFFICES ASSUME NEW i \in 1 .. Len(events')
                 PROVE  events'[i].n = i
    BY DEF Numbered
  <2>2. i \in 1 .. Len(events) \/ i = Len(events) + 1
    BY <1>1, <1>5
  <2> QED
    BY <1>1, <1>2, <1>5, <2>2 DEF Numbered
<1>8. Healthy(events, p, handled, current) => Healthy(events', p, handled', current')
  <2>1. SUFFICES ASSUME Healthy(events, p, handled, current)
                 PROVE  Healthy(events', p, handled, current)
    BY <1>3
  <2>2. PICK o \in 0 .. 2 : p = 3 * h + o /\ current = Begun(events[h + 1], o)
    BY <2>1 DEF Healthy
  <2>3. Begun(events'[h + 1], o) = Begun(events[h + 1], o)
    <3>1. 3 * h + o <= 3 * Len(events)
      BY <1>1, <2>2 DEF Following
    <3> HIDE DEF h
    <3> QED
      BY <1>1, <1>2, <1>3, <3>1, AppendKeepsBegun, ZenonT(40)
  <2> QED
    BY <2>2, <2>3 DEF Healthy
<1>9. ~cut' => /\ failed' = {} /\ current' = <<>>
               /\ \E k \in Nat : Taken' = 3 * k /\ UpTo(handled', k)
  BY <1>3, <1>6 DEF WorldIsSteady, p
<1>10. ~dropped' => /\ FirstOf(handled', events')
                    /\ failed' = {} => \/ Healthy(events', Taken', handled', current')
                                       \/ Broken(Taken', current')
  <2>1. SUFFICES ASSUME ~dropped
                 PROVE  /\ FirstOf(handled, events')
                        /\ failed = {} => \/ Healthy(events', p, handled, current)
                                          \/ Broken(p, current)
    BY <1>3, <1>6
  <2>2. FirstOf(handled, events)
    BY <2>1 DEF WorldIsSteady
  <2>3. FirstOf(handled, events')
    BY <1>1, <1>2, <1>3, <2>2, AppendKeepsFirst
  <2>4. failed = {} => Healthy(events, p, handled, current) \/ Broken(p, current)
    BY <2>1 DEF WorldIsSteady, p
  <2> QED
    BY <1>3, <1>8, <2>3, <2>4
<1> QED
  BY <1>1, <1>3, <1>4, <1>5, <1>6, <1>7, <1>9, <1>10 DEF WorldIsSteady

LEMMA StepIsSteady == Steady /\ [Next]_vars => Steady'
<1> SUFFICES ASSUME ServerIsSteady, WorldIsSteady, [Next]_vars
             PROVE  ServerIsSteady' /\ WorldIsSteady'
  BY DEF Steady
<1>1. ASSUME UNCHANGED <<commands, toServer, rcvbuf, served>>, failed' \in {{}, {"world"}}
      PROVE  ServerIsSteady'
  BY <1>1 DEF ServerIsSteady
<1>2. ASSUME UNCHANGED <<events, toWorld, current, handled, cut, dropped>>, failed' = failed
      PROVE  WorldIsSteady'
  <2>1. Taken' = Taken
    BY <1>2 DEF Taken
  <2> QED
    BY <1>2, <2>1 DEF WorldIsSteady
<1>3. CASE SendCommand
  <2>1. UNCHANGED <<events, toWorld, current, handled, cut, dropped>> /\ failed' = failed
    BY <1>3 DEF SendCommand, world
  <2> QED
    BY <1>2, <1>3, <2>1, CommandIsSent
<1>4. CASE ServerReads
  <2>1. ServerIsSteady' /\ failed' = {}
    BY <1>4, ServerReadsSo
  <2>2. UNCHANGED <<events, toWorld, current, handled, cut, dropped>> /\ failed = {}
    BY <1>4 DEF ServerReads, world
  <2> QED
    BY <1>2, <2>1, <2>2
<1>5. ASSUME NEW kind \in {"version", "stray", "plain"}, SendEvent(kind)
      PROVE  ServerIsSteady' /\ WorldIsSteady'
  <2>1. UNCHANGED <<commands, toServer, rcvbuf, served>> /\ failed' = failed
    BY <1>5 DEF SendEvent, server
  <2>2. failed' \in {{}, {"world"}}
    BY <2>1 DEF ServerIsSteady
  <2> QED
    BY <1>1, <1>5, <2>1, <2>2, EventIsSent
<1>6. CASE WorldReads
  <2>1. UNCHANGED <<commands, toServer, rcvbuf, served>>
    BY <1>6 DEF WorldReads, server
  <2> QED
    BY <1>1, <1>6, <2>1, WorldReadsSo
<1>7. CASE UNCHANGED vars
  <2>1. /\ UNCHANGED <<commands, toServer, rcvbuf, served>> /\ failed' = failed
        /\ UNCHANGED <<events, toWorld, current, handled, cut, dropped>>
    BY <1>7 DEF vars, server, world
  <2>2. failed' \in {{}, {"world"}}
    BY <2>1 DEF ServerIsSteady
  <2> QED
    BY <1>1, <1>2, <2>1, <2>2
<1> QED
  BY <1>3, <1>4, <1>5, <1>6, <1>7 DEF Next

LEMMA AlwaysSteady == Spec => []Steady
<1>1. Init => Steady
  BY InitIsSteady
<1>2. Steady /\ [Next]_vars => Steady'
  BY StepIsSteady
<1> QED
  BY <1>1, <1>2, PTL DEF Spec

-----------------------------------------------------------------------------
(* The theorems.                                                           *)

LEMMA SteadyInOrder == Steady => HandledInOrder
<1> SUFFICES ASSUME Steady, ~(cut /\ dropped)
             PROVE  \A i, j \in DOMAIN handled : i < j => handled[i].n < handled[j].n
  BY DEF HandledInOrder
<1>1. /\ handled \in Seq(Message) /\ DOMAIN handled = 1 .. Len(handled) /\ Len(handled) \in Nat
      /\ Numbered(events)
  BY LenProperties DEF Steady, WorldIsSteady
<1>2. CASE ~cut
  <2>1. \E k \in Nat : UpTo(handled, k)
    BY <1>2 DEF Steady, WorldIsSteady
  <2> QED
    BY <1>1, <2>1 DEF UpTo
<1>3. CASE ~dropped
  <2>1. FirstOf(handled, events)
    BY <1>3 DEF Steady, WorldIsSteady
  <2>2. events \in Seq(Message) /\ Len(events) \in Nat
    BY LenProperties DEF Steady, WorldIsSteady
  <2>3. \A i \in 1 .. Len(handled) : i \in 1 .. Len(events) /\ handled[i] = events[i]
    BY <1>1, <2>1, <2>2 DEF FirstOf
  <2>4. \A i \in 1 .. Len(handled) : handled[i].n = i
    BY <1>1, <2>3 DEF Numbered
  <2> QED
    BY <1>1, <2>4
<1> QED
  BY <1>2, <1>3

\* The world handles no event twice and none before an earlier one, as long as
\* not both happened: a read ended within a message, and data_received
\* returned with more to read (data_received).
THEOREM HandledStaysInOrder == Spec => []HandledInOrder
BY AlwaysSteady, SteadyInOrder, PTL

\* What a side sends is what a channel accepts.
LEMMA SendingIsSend ==
    ASSUME NEW ms \in Seq(Message), NEW m \in Message, NEW ns, ns = Append(ms, m)
    PROVE  ns \in Seq(Message) /\ \E u \in {ns[i] : i \in DOMAIN ns} : ns = Append(ms, u)
<1>1. /\ ns \in Seq(Message) /\ Len(ms) \in Nat /\ DOMAIN ns = 1 .. Len(ms) + 1
      /\ ns[Len(ms) + 1] = m
  BY Appending
<1>2. Len(ms) + 1 \in DOMAIN ns
  BY <1>1
<1>3. m \in {ns[i] : i \in DOMAIN ns}
  BY <1>1, <1>2
<1> QED
  BY <1>1, <1>3

\* However commands are cut and joined on their way, the server handles each
\* once, whole and in the order of sending, until the world fails
\* (json_tcp_recv_handler): the safety part of ServerIsChannel.
THEOREM ServerKeepsChannel == Spec => Server!Init /\ [][Server!Next]_(Server!vars)
<1>1. Init => Server!Init
  <2> SUFFICES ASSUME Init
               PROVE  Server!Init
    OBVIOUS
  <2>1. commands = <<>> /\ served = <<>> /\ failed = {}
    BY DEF Init
  <2>2. {} # {"world"}
    OBVIOUS
  <2>3. (failed # {"world"}) = TRUE
    BY <2>1, <2>2
  <2> QED
    BY <2>1, <2>3 DEF Server!Init
<1>2. Steady /\ [Next]_vars => [Server!Next]_(Server!vars)
  <2> SUFFICES ASSUME Steady, [Next]_vars
               PROVE  [Server!Next]_(Server!vars)
    OBVIOUS
  <2>0. ServerIsSteady /\ WorldIsSteady
    BY DEF Steady
  <2>1. ASSUME UNCHANGED <<commands, served, failed>>
        PROVE  [Server!Next]_(Server!vars)
    BY <2>1 DEF Server!vars
  <2>2. CASE SendCommand
    <3> DEFINE m == [n |-> Len(commands) + 1, kind |-> "plain"]
    <3>1. commands \in Seq(Message) /\ Len(commands) \in Nat
      BY <2>0, LenProperties DEF ServerIsSteady
    <3>2. m \in Message
      BY <3>1 DEF Message
    <3>3. commands' = Append(commands, m) /\ served' = served /\ failed' = failed
      BY <2>2 DEF SendCommand, world
    <3> HIDE DEF m
    <3>4. /\ commands' \in Seq(Message)
          /\ \E u \in {commands'[i] : i \in DOMAIN commands'} : commands' = Append(commands, u)
      BY <3>1, <3>2, <3>3, SendingIsSend
    <3>5. Server!Send
      BY <3>3, <3>4 DEF Server!Send
    <3> QED
      BY <3>3, <3>5 DEF Server!Next
  <2>3. CASE ServerReads
    <3>1. failed' = {} /\ failed = {} /\ commands' = commands
      BY <2>0, <2>3, ServerReadsSo DEF ServerReads
    <3>2. PICK t \in Nat : /\ Len(served) + t <= Len(commands)
                           /\ served' = SubSeq(commands, 1, Len(served) + t)
                           /\ t = 0 => served' = served
      BY <2>0, <2>3, ServerReadsSo
    <3>3. CASE t = 0
      BY <2>1, <3>1, <3>2, <3>3
    <3>4. CASE t # 0
      <4>1. Len(served) \in Nat /\ Len(commands) \in Nat
        BY <2>0, LenProperties DEF ServerIsSteady, FirstOf
      <4>2. Len(served) + t \in Len(served) + 1 .. Len(commands)
        BY <3>2, <3>4, <4>1
      <4>3. Server!Deliver
        BY <3>1, <3>2, <4>2 DEF Server!Deliver
      <4>4. failed # {"world"}
        BY <3>1
      <4> QED
        BY <4>3, <4>4 DEF Server!Next
    <3> QED
      BY <3>3, <3>4
  <2>4. ASSUME NEW kind \in {"version", "stray", "plain"}, SendEvent(kind)
        PROVE  [Server!Next]_(Server!vars)
    BY <2>1, <2>4 DEF SendEvent, server
  <2>5. CASE WorldReads
    <3>1. commands' = commands /\ served' = served /\ failed = {}
      BY <2>5 DEF WorldReads, server
    <3>2. failed' = {} \/ failed' = {"world"}
      BY <2>0, <2>5, WorldReadsSo
    <3>3. CASE failed' = {}
      BY <2>1, <3>1, <3>3
    <3>4. CASE failed' = {"world"}
      BY <3>4 DEF Server!Next
    <3> QED
      BY <3>2, <3>3, <3>4
  <2>6. CASE UNCHANGED vars
    BY <2>1, <2>6 DEF vars, server, world
  <2> QED
    BY <2>2, <2>3, <2>4, <2>5, <2>6 DEF Next
<1> QED
  BY <1>1, <1>2, AlwaysSteady, PTL DEF Spec

\* As long as every read ends with a message, and the hello, and an event of
\* an unknown call, come last in theirs, the world handles each event once,
\* whole and in the order of sending (data_received): the safety part of
\* WorldIsChannel.
THEOREM WorldKeepsChannel == Spec => World!Init /\ [][World!Next]_(World!vars)
<1>1. Init => World!Init
  <2> SUFFICES ASSUME Init
               PROVE  World!Init
    OBVIOUS
  <2>1. events = <<>> /\ handled = <<>> /\ failed = {} /\ cut = FALSE /\ dropped = FALSE
    BY DEF Init
  <2>2. (~cut /\ ~dropped /\ failed # {"server"}) = TRUE
    BY <2>1
  <2> QED
    BY <2>1, <2>2 DEF World!Init
<1>2. Steady /\ [Next]_vars => [World!Next]_(World!vars)
  <2> SUFFICES ASSUME Steady, [Next]_vars
               PROVE  [World!Next]_(World!vars)
    OBVIOUS
  <2>0. ServerIsSteady /\ WorldIsSteady
    BY DEF Steady
  <2>1. ASSUME UNCHANGED <<events, handled, failed, cut, dropped>>
        PROVE  [World!Next]_(World!vars)
    BY <2>1 DEF World!vars
  <2>2. CASE SendCommand
    BY <2>1, <2>2 DEF SendCommand, world
  <2>3. CASE ServerReads
    <3>1. failed' = {}
      BY <2>0, <2>3, ServerReadsSo
    <3> QED
      BY <2>1, <2>3, <3>1 DEF ServerReads, world
  <2>4. ASSUME NEW kind \in {"version", "stray", "plain"}, SendEvent(kind)
        PROVE  [World!Next]_(World!vars)
    <3> DEFINE m == [n |-> Len(events) + 1, kind |-> kind]
    <3>1. events \in Seq(Message) /\ Len(events) \in Nat
      BY <2>0, LenProperties DEF WorldIsSteady
    <3>2. m \in Message
      BY <3>1 DEF Message
    <3>3. /\ events' = Append(events, m) /\ handled' = handled /\ failed' = failed
          /\ cut' = cut /\ dropped' = dropped
      BY <2>4 DEF SendEvent
    <3> HIDE DEF m
    <3>4. /\ events' \in Seq(Message)
          /\ \E u \in {events'[i] : i \in DOMAIN events'} : events' = Append(events, u)
      BY <3>1, <3>2, <3>3, SendingIsSend
    <3>5. World!Send
      BY <3>3, <3>4 DEF World!Send
    <3> QED
      BY <3>3, <3>5 DEF World!Next
  <2>5. CASE WorldReads
    <3>1. events' = events /\ failed = {} /\ (cut => cut') /\ (dropped => dropped')
      BY <2>5 DEF WorldReads
    <3>2. CASE ~cut' /\ ~dropped'
      <4>1. PICK t \in Nat : /\ t >= 1 /\ Len(handled) + t <= Len(events)
                             /\ handled' = SubSeq(events, 1, Len(handled) + t)
        BY <2>0, <2>5, <3>2, WorldReadsSo
      <4>2. Len(handled) \in Nat /\ Len(events) \in Nat
        BY <2>0, LenProperties DEF WorldIsSteady
      <4>3. Len(handled) + t \in Len(handled) + 1 .. Len(events)
        BY <4>1, <4>2
      <4>4. World!Deliver
        BY <3>1, <4>1, <4>3 DEF World!Deliver
      <4>5. ~cut /\ ~dropped /\ failed # {"server"}
        BY <3>1, <3>2
      <4> QED
        BY <4>4, <4>5 DEF World!Next
    <3>3. CASE cut' \/ dropped'
      BY <3>3 DEF World!Next
    <3> QED
      BY <3>2, <3>3
  <2>6. CASE UNCHANGED vars
    BY <2>1, <2>6 DEF vars, server, world
  <2> QED
    BY <2>2, <2>3, <2>4, <2>5, <2>6 DEF Next
<1> QED
  BY <1>1, <1>2, AlwaysSteady, PTL DEF Spec
=============================================================================
