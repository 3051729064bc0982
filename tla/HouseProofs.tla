---------------------------- MODULE HouseProofs ----------------------------
(***************************************************************************)
(* Theorems about House, for any house, any callers and any keys.          *)
(***************************************************************************)
EXTENDS House, SequenceTheorems, FiniteSetTheorems, TLAPS

-----------------------------------------------------------------------------
(* The lists of callers.                                                   *)

\* enter: a caller that is not in the list is appended to it.
LEMMA AppendToList ==
    ASSUME NEW s \in Seq(Callers), IsInjective(s), NEW c \in Callers, c \notin Range(s)
    PROVE  /\ Append(s, c) \in Seq(Callers)
           /\ IsInjective(Append(s, c))
           /\ Range(Append(s, c)) = Range(s) \cup {c}
<1>1. /\ Append(s, c) \in Seq(Callers)
      /\ DOMAIN Append(s, c) = 1 .. Len(s) + 1
      /\ \A i \in 1 .. Len(s) : Append(s, c)[i] = s[i]
      /\ Append(s, c)[Len(s) + 1] = c
  BY AppendProperties
<1>2. DOMAIN s = 1 .. Len(s) /\ Len(s) \in Nat
  BY LenProperties
<1>3. \A i \in DOMAIN s : s[i] # c
  BY DEF Range
<1>4. IsInjective(Append(s, c))
  BY <1>1, <1>2, <1>3 DEF IsInjective
<1>5. Range(Append(s, c)) = Range(s) \cup {c}
  BY <1>1, <1>2 DEF Range
<1> QED
  BY <1>1, <1>4, <1>5

\* leave: the caller is removed, the others keep their order.
LEMMA RemoveFromList ==
    ASSUME NEW s \in Seq(Callers), IsInjective(s), NEW c \in Range(s)
    PROVE  /\ RemoveFirst(s, c) \in Seq(Callers)
           /\ IsInjective(RemoveFirst(s, c))
           /\ Range(RemoveFirst(s, c)) = Range(s) \ {c}
<1> DEFINE n == Len(s)
<1>1. DOMAIN s = 1 .. n /\ n \in Nat /\ \A j \in 1 .. n : s[j] \in Callers
  BY LenProperties, ElementOfSeq
<1> HIDE DEF n
<1>2. PICK i \in 1 .. n : s[i] = c
  BY <1>1 DEF Range
<1>3. {j \in 1 .. n : s[j] = c} = {i}
  BY <1>1, <1>2 DEF IsInjective
<1>4. RemoveFirst(s, c) = RemoveAt(s, i)
  <2>1. Min({i}) = i
    BY <1>2 DEF Min
  <2>2. SelectInSeq(s, LAMBDA v : v = c) = i
    BY <1>3, <2>1 DEF SelectInSeq, n
  <2> QED
    BY <1>2, <2>2 DEF RemoveFirst, n
<1> DEFINE a == SubSeq(s, 1, i - 1)
           b == SubSeq(s, i + 1, n)
           r == a \o b
<1>5. a \in Seq(Callers) /\ Len(a) = i - 1 /\ \A j \in 1 .. i - 1 : a[j] = s[j]
  BY <1>1, <1>2, SubSeqProperties
<1>6. b \in Seq(Callers) /\ Len(b) = n - i /\ \A j \in 1 .. n - i : b[j] = s[i + j]
  <2>1. \A j \in i + 1 .. n : s[j] \in Callers
    BY <1>1, <1>2
  <2>2. /\ b \in Seq(Callers)
        /\ Len(b) = IF i + 1 <= n THEN n - (i + 1) + 1 ELSE 0
        /\ \A j \in 1 .. n - (i + 1) + 1 : b[j] = s[i + 1 + j - 1]
    BY <1>1, <1>2, <2>1, SubSeqProperties
  <2>3. n - (i + 1) + 1 = n - i /\ \A j \in 1 .. n - i : i + 1 + j - 1 = i + j
    BY <1>1, <1>2
  <2> QED
    BY <1>1, <1>2, <2>2, <2>3
<1> HIDE DEF a, b
<1>7. r \in Seq(Callers) /\ Len(r) = Len(a) + Len(b)
      /\ \A j \in 1 .. Len(a) + Len(b) : r[j] = IF j <= Len(a) THEN a[j] ELSE b[j - Len(a)]
  BY <1>5, <1>6, ConcatProperties
<1> HIDE DEF r
<1>8. Len(a) + Len(b) = n - 1
  BY <1>1, <1>2, <1>5, <1>6
<1>9. DOMAIN r = 1 .. n - 1
  BY <1>7, <1>8, LenProperties
<1>10. ASSUME NEW j \in 1 .. n - 1
       PROVE  r[j] = IF j < i THEN s[j] ELSE s[j + 1]
  <2>1. CASE j < i
    BY <1>1, <1>2, <1>5, <1>7, <1>8, <2>1
  <2>2. CASE ~(j < i)
    <3>1. r[j] = b[j - (i - 1)] /\ j - (i - 1) \in 1 .. n - i
      <4>1. j \in 1 .. Len(a) + Len(b) /\ ~(j <= Len(a)) /\ j - (i - 1) \in 1 .. n - i
        BY <1>1, <1>2, <1>5, <1>8, <2>2
      <4>2. r[j] = b[j - Len(a)]
        BY <1>7, <4>1
      <4> QED
        BY <1>5, <4>1, <4>2
    <3>2. i + (j - (i - 1)) = j + 1
      BY <1>1, <1>2
    <3> QED
      BY <1>6, <2>2, <3>1, <3>2
  <2> QED
    BY <2>1, <2>2
<1>11. IsInjective(r)
  <2> SUFFICES ASSUME NEW j \in 1 .. n - 1, NEW k \in 1 .. n - 1, r[j] = r[k]
               PROVE  j = k
    BY <1>9 DEF IsInjective
  <2> DEFINE at(l) == IF l < i THEN l ELSE l + 1
  <2>1. at(j) \in 1 .. n /\ at(k) \in 1 .. n
    BY <1>1, <1>2
  <2>2. s[at(j)] = s[at(k)]
    BY <1>10
  <2>3. at(j) = at(k)
    BY <1>1, <2>1, <2>2 DEF IsInjective
  <2> QED
    BY <1>1, <1>2, <2>3
<1>12. ASSUME NEW x \in Range(r)
       PROVE  x \in Range(s) \ {c}
  <2>1. PICK j \in 1 .. n - 1 : r[j] = x
    BY <1>9 DEF Range
  <2>2. CASE j < i
    <3>1. j \in 1 .. n /\ j # i /\ s[j] = x
      BY <1>1, <1>2, <1>10, <2>1, <2>2
    <3> QED
      BY <1>1, <1>2, <3>1 DEF Range, IsInjective
  <2>3. CASE ~(j < i)
    <3>1. j + 1 \in 1 .. n /\ j + 1 # i /\ s[j + 1] = x
      BY <1>1, <1>2, <1>10, <2>1, <2>3
    <3> QED
      BY <1>1, <1>2, <3>1 DEF Range, IsInjective
  <2> QED
    BY <2>2, <2>3
<1>13. ASSUME NEW x \in Range(s) \ {c}
       PROVE  x \in Range(r)
  <2>1. PICK j \in 1 .. n : s[j] = x /\ j # i
    BY <1>1, <1>2 DEF Range
  <2>2. CASE j < i
    <3>1. j \in 1 .. n - 1 /\ r[j] = x
      BY <1>1, <1>2, <1>10, <2>1, <2>2
    <3> QED
      BY <1>9, <3>1 DEF Range
  <2>3. CASE ~(j < i)
    <3>1. j - 1 \in 1 .. n - 1 /\ r[j - 1] = x
      BY <1>1, <1>2, <1>10, <2>1, <2>3
    <3> QED
      BY <1>9, <3>1 DEF Range
  <2> QED
    BY <2>2, <2>3
<1>14. RemoveFirst(s, c) = r
  BY <1>4 DEF RemoveAt, r, a, b, n
<1> QED
  BY <1>7, <1>11, <1>12, <1>13, <1>14

-----------------------------------------------------------------------------
(* The invariant, of any world a handler may be at.                        *)

\* Rooms and callers agree.
Placed(w) == \A r \in Rooms : /\ IsInjective(w.inside[r])
                              /\ Range(w.inside[r]) = {c \in Callers : w.location[c] = r}

\* The background that repeats for a caller is its room's.
Looping(w) == \A c \in Callers :
    w.loops[c] = IF w.location[c] \in Background THEN <<w.location[c]>> ELSE <<>>

\* What a caller records has one of the numbers its room gave, and no other
\* caller's.
Numbered(w) ==
    /\ \A c \in Callers : w.data[c].talk # 0 => /\ w.location[c] \in Rooms
                                                /\ w.data[c].talk <= w.talks[w.location[c]]
    /\ \A c, d \in Callers : c # d /\ w.location[c] = w.location[d] /\ w.data[c].talk = w.data[d].talk
                                => w.data[c].talk = 0

\* Without a connection there is nobody.
Emptied(w) == w.connected \/ \A c \in Callers : w.location[c] = Nowhere

Orderly(w) == w \in World /\ Placed(w) /\ Looping(w) /\ Numbered(w) /\ Emptied(w)

\* Two worlds that differ at most in what was told and in data.
Alike(v, w) == /\ v.connected = w.connected /\ v.inside = w.inside /\ v.location = w.location
               /\ v.talks = w.talks /\ v.loops = w.loops

\* Nobody is told how many others are there.
Unasked(w) == \A c \in Callers : \A i \in DOMAIN w.told[c] : w.told[c][i][1] # "others"

LEMMA WorldFields ==
    ASSUME NEW w
    PROVE  w \in World <=>
              /\ w = [connected |-> w.connected, inside |-> w.inside, location |-> w.location, data |-> w.data,
                      talks |-> w.talks, loops |-> w.loops, told |-> w.told]
              /\ w.connected \in BOOLEAN
              /\ w.inside \in [Rooms -> Seq(Callers)]
              /\ w.location \in [Callers -> Rooms \cup {Nowhere}]
              /\ w.data \in [Callers -> LocationData]
              /\ w.talks \in [Rooms -> Nat]
              /\ w.loops \in [Callers -> Seq(Rooms)]
              /\ w.told \in [Callers -> Seq(Molecule)]
BY DEF World

LEMMA NewDataType == NewData \in LocationData /\ NewData.talk = 0
BY DEF NewData, LocationData, Timers, Digits

LEMMA ArmType ==
    ASSUME NEW d \in LocationData, NEW t \in Timers
    PROVE  Arm(d, t) \in LocationData /\ Arm(d, t).talk = d.talk
<1> DEFINE due == [d.due EXCEPT ![t] = @ + 1]
           armed == d.armed \cup {t}
<1>1. due \in [Timers -> Nat] /\ armed \in SUBSET Timers
  BY DEF LocationData
<1>2. Arm(d, t) = [d EXCEPT !.armed = armed, !.due = due]
  BY DEF Arm, LocationData
<1> HIDE DEF due, armed
<1> QED
  BY <1>1, <1>2 DEF LocationData

LEMMA CancelType ==
    ASSUME NEW d \in LocationData, NEW t \in Timers
    PROVE  Cancel(d, t) \in LocationData /\ Cancel(d, t).talk = d.talk
<1> DEFINE due == [d.due EXCEPT ![t] = IF @ > 0 THEN @ - 1 ELSE 0]
           armed == d.armed \ {t}
<1>1. due \in [Timers -> Nat] /\ armed \in SUBSET Timers
  BY DEF LocationData
<1>2. Cancel(d, t) = IF t \in d.armed THEN [d EXCEPT !.armed = armed, !.due = due] ELSE d
  BY DEF Cancel, LocationData
<1> HIDE DEF due, armed
<1> QED
  BY <1>1, <1>2 DEF LocationData

LEMMA NewWorldIsOrderly ==
    Orderly(NewWorld) /\ \A c \in Callers : NewWorld.location[c] = Nowhere
<1>1. NewWorld \in World
  BY NewDataType DEF NewWorld, World
<1>2. Placed(NewWorld)
  BY HouseAssumption DEF NewWorld, Placed, IsInjective, Range
<1>3. Looping(NewWorld)
  BY HouseAssumption DEF NewWorld, Looping
<1>4. Numbered(NewWorld)
  BY NewDataType DEF NewWorld, Numbered
<1> QED
  BY <1>1, <1>2, <1>3, <1>4 DEF Orderly, Emptied, NewWorld

\* An exception leaves an empty house.
LEMMA RaiseIsOrderly ==
    ASSUME NEW w \in World
    PROVE  /\ Orderly(Raise(w))
           /\ Raise(w).connected = FALSE
           /\ Raise(w).told = w.told
<1>1. /\ Raise(w).connected = FALSE /\ Raise(w).told = w.told
      /\ Raise(w).inside = NewWorld.inside /\ Raise(w).location = NewWorld.location
      /\ Raise(w).data = NewWorld.data /\ Raise(w).talks = NewWorld.talks /\ Raise(w).loops = NewWorld.loops
  BY DEF Raise, NewWorld
<1>2. Raise(w) \in World
  BY NewWorldIsOrderly DEF Orderly, Raise, World
<1>3. Placed(Raise(w)) /\ Looping(Raise(w)) /\ Numbered(Raise(w)) /\ Emptied(Raise(w))
  BY <1>1, NewWorldIsOrderly DEF Orderly, Placed, Looping, Numbered, Emptied
<1> QED
  BY <1>1, <1>2, <1>3 DEF Orderly

\* What is told disturbs nothing else.
LEMMA TellKeeps ==
    ASSUME NEW w \in World, NEW to, NEW say \in Molecule
    PROVE  /\ Tell(w, to, say) \in World
           /\ Alike(Tell(w, to, say), w)
           /\ Tell(w, to, say).data = w.data
           /\ \A c \in Callers : Tell(w, to, say).told[c] =
                                   IF c \in to THEN Append(w.told[c], say) ELSE w.told[c]
           /\ Orderly(w) => Orderly(Tell(w, to, say))
           /\ Unasked(w) /\ say[1] # "others" => Unasked(Tell(w, to, say))
<1> DEFINE told == [c \in Callers |-> IF c \in to THEN Append(w.told[c], say) ELSE w.told[c]]
<1>1. told \in [Callers -> Seq(Molecule)]
  BY AppendProperties, WorldFields
<1>2. Tell(w, to, say) = [w EXCEPT !.told = told]
  BY DEF Tell
<1>3. [w EXCEPT !.told = told] \in World
  <2> HIDE DEF told
  <2> QED BY <1>1 DEF World
<1>4. /\ Alike([w EXCEPT !.told = told], w) /\ [w EXCEPT !.told = told].data = w.data
      /\ [w EXCEPT !.told = told].told = told
  <2> HIDE DEF told
  <2> QED BY <1>1 DEF World, Alike
<1>5. Orderly(w) => Orderly([w EXCEPT !.told = told])
  <2> HIDE DEF told
  <2> QED BY <1>3, <1>4 DEF Orderly, Placed, Looping, Numbered, Emptied, Alike
<1>6. ASSUME Unasked(w), say[1] # "others", NEW c \in Callers, NEW i \in DOMAIN told[c]
      PROVE  told[c][i][1] # "others"
  <2>1. w.told[c] \in Seq(Molecule) /\ told[c] = IF c \in to THEN Append(w.told[c], say) ELSE w.told[c]
    BY WorldFields
  <2>2. \/ i \in DOMAIN w.told[c] /\ told[c][i] = w.told[c][i]
        \/ told[c][i] = say
    BY <1>6, <2>1, AppendProperties, LenProperties
  <2> QED
    BY <1>6, <2>2 DEF Unasked
<1>7. Unasked(w) /\ say[1] # "others" => Unasked([w EXCEPT !.told = told])
  <2> HIDE DEF told
  <2> QED BY <1>4, <1>6 DEF Unasked
<1> QED
  BY <1>2, <1>3, <1>4, <1>5, <1>7

\* Nor does what a caller dials.
LEMMA DataKeeps ==
    ASSUME NEW w, Orderly(w), NEW c \in Callers, NEW d \in LocationData, d.talk = w.data[c].talk
    PROVE  /\ Orderly([w EXCEPT !.data[c] = d])
           /\ Alike([w EXCEPT !.data[c] = d], w)
           /\ [w EXCEPT !.data[c] = d].told = w.told
           /\ [w EXCEPT !.data[c] = d].data = [w.data EXCEPT ![c] = d]
<1> DEFINE data == [w.data EXCEPT ![c] = d]
           v == [w EXCEPT !.data = data]
<1>1. w \in World
  BY DEF Orderly
<1>2. data \in [Callers -> LocationData]
  BY <1>1, WorldFields
<1>3. \A x \in Callers : data[x].talk = w.data[x].talk
  BY <1>1, WorldFields
<1>4. v = [w EXCEPT !.data[c] = d]
  BY <1>1 DEF World
<1> HIDE DEF data
<1>5. v \in World /\ Alike(v, w) /\ v.told = w.told /\ v.data = data
  BY <1>1, <1>2 DEF World, Alike
<1> HIDE DEF v
<1>6. Orderly(v)
  BY <1>3, <1>5 DEF Orderly, Placed, Looping, Numbered, Emptied, Alike
<1> QED
  BY <1>4, <1>5, <1>6 DEF data

\* What entering changes of who is where and of what is told.
Entered(v, w, c, r) ==
    /\ v.connected = w.connected
    /\ v.location = [w.location EXCEPT ![c] = r]
    /\ v.told[c] = IF r \in Background THEN Append(w.told[c], <<"background", r>>) ELSE w.told[c]
    /\ \A d \in Callers \ {c} : v.told[d] = w.told[d]

\* Entering from nowhere.
LEMMA EnterKeeps ==
    ASSUME NEW w, Orderly(w), w.connected = TRUE, NEW c \in Callers, NEW r \in Rooms, w.location[c] = Nowhere
    PROVE  LET v == Enter(w, c, r) IN
           /\ Orderly(v)
           /\ Entered(v, w, c, r)
           /\ Unasked(w) => Unasked(v)
<1>1. w \in World
  BY DEF Orderly
<1> DEFINE d        == Arm(NewData, "orientation")
           location == [w.location EXCEPT ![c] = r]
           inside   == [w.inside EXCEPT ![r] = Append(@, c)]
           data     == [w.data EXCEPT ![c] = d]
           loops    == [w.loops EXCEPT ![c] = Append(@, r)]
           e == [w EXCEPT !.location = location, !.inside = inside, !.data = data]
           f == [w EXCEPT !.location = location, !.inside = inside, !.data = data, !.loops = loops]
<1>2. d \in LocationData /\ d.talk = 0
  BY NewDataType, ArmType DEF Timers
<1> HIDE DEF d
<1>3. /\ w.location \in [Callers -> Rooms \cup {Nowhere}] /\ w.inside \in [Rooms -> Seq(Callers)]
      /\ w.data \in [Callers -> LocationData] /\ w.talks \in [Rooms -> Nat]
      /\ w.loops \in [Callers -> Seq(Rooms)] /\ w.told \in [Callers -> Seq(Molecule)]
  BY <1>1, WorldFields
<1>4. \A q \in Rooms : /\ w.inside[q] \in Seq(Callers) /\ IsInjective(w.inside[q])
                       /\ Range(w.inside[q]) = {x \in Callers : w.location[x] = q}
  BY <1>3 DEF Orderly, Placed
<1>5. c \notin Range(w.inside[r])
  BY <1>4, HouseAssumption
<1>6. /\ Append(w.inside[r], c) \in Seq(Callers) /\ IsInjective(Append(w.inside[r], c))
      /\ Range(Append(w.inside[r], c)) = Range(w.inside[r]) \cup {c}
  BY <1>4, <1>5, AppendToList
<1>7. w.loops[c] = <<>> /\ loops[c] = <<r>>
  <2>1. w.loops[c] = <<>>
    BY HouseAssumption DEF Orderly, Looping
  <2>2. loops[c] = Append(<<>>, r)
    BY <1>3, <2>1
  <2> QED
    BY <2>1, <2>2
<1>8. /\ location \in [Callers -> Rooms \cup {Nowhere}] /\ inside \in [Rooms -> Seq(Callers)]
      /\ data \in [Callers -> LocationData]
  BY <1>2, <1>3, <1>6
<1>9. loops \in [Callers -> Seq(Rooms)]
  BY <1>3, <1>7
<1>10. Enter(w, c, r) = IF r \in Background THEN Tell(f, {c}, <<"background", r>>) ELSE e
  BY <1>1 DEF Enter, World, d
<1>11. \A q \in Rooms : /\ IsInjective(inside[q])
                        /\ Range(inside[q]) = {x \in Callers : location[x] = q}
  <2> TAKE q \in Rooms
  <2>1. CASE q = r
    BY <1>3, <1>4, <1>6, <2>1
  <2>2. CASE q # r
    BY <1>3, <1>4, <2>2, HouseAssumption
  <2> QED
    BY <2>1, <2>2
<1>12. /\ \A x \in Callers : data[x].talk # 0 => /\ location[x] \in Rooms
                                                 /\ data[x].talk <= w.talks[location[x]]
       /\ \A x, y \in Callers : x # y /\ location[x] = location[y] /\ data[x].talk = data[y].talk
                                => data[x].talk = 0
  <2>1. \A x \in Callers : x # c => data[x] = w.data[x] /\ location[x] = w.location[x]
    BY <1>3
  <2>2. data[c].talk = 0
    BY <1>2, <1>3
  <2> HIDE DEF data, location
  <2> QED
    BY <2>1, <2>2 DEF Orderly, Numbered
<1>13. \A x \in Callers : w.loops[x] = IF w.location[x] \in Background THEN <<w.location[x]>> ELSE <<>>
  BY DEF Orderly, Looping
<1>14. CASE r \notin Background
  <2>1. \A x \in Callers : w.loops[x] = IF location[x] \in Background THEN <<location[x]>> ELSE <<>>
    BY <1>3, <1>7, <1>13, <1>14
  <2> HIDE DEF location, inside, data
  <2>2. /\ e \in World /\ e.location = location /\ e.inside = inside /\ e.data = data
        /\ e.talks = w.talks /\ e.loops = w.loops /\ e.connected = w.connected /\ e.told = w.told
    BY <1>1, <1>8 DEF World
  <2> HIDE DEF e
  <2>3. Orderly(e)
    BY <1>11, <1>12, <2>1, <2>2 DEF Orderly, Placed, Looping, Numbered, Emptied
  <2>4. Unasked(w) => Unasked(e)
    BY <2>2 DEF Unasked
  <2> QED
    BY <1>10, <1>14, <2>2, <2>3, <2>4 DEF location, Entered
<1>15. CASE r \in Background
  <2>1. \A x \in Callers : loops[x] = IF location[x] \in Background THEN <<location[x]>> ELSE <<>>
    BY <1>3, <1>7, <1>13, <1>15
  <2> HIDE DEF location, inside, data, loops
  <2>2. /\ f \in World /\ f.location = location /\ f.inside = inside /\ f.data = data
        /\ f.talks = w.talks /\ f.loops = loops /\ f.connected = w.connected /\ f.told = w.told
    BY <1>1, <1>8, <1>9 DEF World
  <2> HIDE DEF f
  <2>3. Orderly(f)
    BY <1>11, <1>12, <2>1, <2>2 DEF Orderly, Placed, Looping, Numbered, Emptied
  <2>4. <<"background", r>> \in Molecule /\ <<"background", r>>[1] # "others"
    BY DEF Molecule
  <2>5. LET v == Tell(f, {c}, <<"background", r>>) IN
        /\ Orderly(v) /\ Alike(v, f)
        /\ \A x \in Callers :
              v.told[x] = IF x \in {c} THEN Append(f.told[x], <<"background", r>>) ELSE f.told[x]
        /\ Unasked(f) => Unasked(v)
    BY <2>2, <2>3, <2>4, TellKeeps
  <2>6. Unasked(w) => Unasked(f)
    BY <2>2 DEF Unasked
  <2> QED
    BY <1>10, <1>15, <2>2, <2>5, <2>6 DEF location, Alike, Entered
<1> QED
  BY <1>14, <1>15

\* Leaving: the caller is nowhere, or an exception ended it all.
LEMMA LeaveKeeps ==
    ASSUME NEW w, Orderly(w), NEW c \in Callers, w.location[c] \in Rooms
    PROVE  LET v == Leave(w, c) IN
           /\ Orderly(v)
           /\ v.told = w.told
           /\ v.connected => /\ w.connected
                             /\ v.location = [w.location EXCEPT ![c] = Nowhere]
<1>1. w \in World
  BY DEF Orderly
<1> DEFINE r        == w.location[c]
           location == [w.location EXCEPT ![c] = Nowhere]
           inside   == [w.inside EXCEPT ![r] = RemoveFirst(@, c)]
           data     == [w.data EXCEPT ![c] = NewData]
           e == [w EXCEPT !.location = location, !.inside = inside, !.data = data]
<1>2. Leave(w, c) = IF r \in Background THEN Raise(w) ELSE e
  BY <1>1 DEF Leave, World
<1>3. CASE r \in Background
  BY <1>1, <1>2, <1>3, RaiseIsOrderly
<1>4. CASE r \notin Background
  <2>1. /\ w.location \in [Callers -> Rooms \cup {Nowhere}] /\ w.inside \in [Rooms -> Seq(Callers)]
        /\ w.data \in [Callers -> LocationData] /\ w.talks \in [Rooms -> Nat]
    BY <1>1, WorldFields
  <2>2. \A q \in Rooms : /\ w.inside[q] \in Seq(Callers) /\ IsInjective(w.inside[q])
                         /\ Range(w.inside[q]) = {x \in Callers : w.location[x] = q}
    BY <2>1 DEF Orderly, Placed
  <2>3. /\ RemoveFirst(w.inside[r], c) \in Seq(Callers) /\ IsInjective(RemoveFirst(w.inside[r], c))
        /\ Range(RemoveFirst(w.inside[r], c)) = Range(w.inside[r]) \ {c}
    <3>1. c \in Range(w.inside[r]) /\ w.inside[r] \in Seq(Callers) /\ IsInjective(w.inside[r])
      BY <2>2
    <3> QED
      BY <3>1, RemoveFromList
  <2>4. /\ location \in [Callers -> Rooms \cup {Nowhere}] /\ inside \in [Rooms -> Seq(Callers)]
        /\ data \in [Callers -> LocationData]
    BY <2>1, <2>3, NewDataType
  <2>5. \A q \in Rooms : /\ IsInjective(inside[q])
                         /\ Range(inside[q]) = {x \in Callers : location[x] = q}
    <3> TAKE q \in Rooms
    <3>1. CASE q = r
      BY <2>1, <2>2, <2>3, <3>1, HouseAssumption
    <3>2. CASE q # r
      BY <2>1, <2>2, <3>2, HouseAssumption
    <3> QED
      BY <3>1, <3>2
  <2>6. \A x \in Callers : w.loops[x] = IF location[x] \in Background THEN <<location[x]>> ELSE <<>>
    <3>1. \A x \in Callers : w.loops[x] = IF w.location[x] \in Background THEN <<w.location[x]>> ELSE <<>>
      BY DEF Orderly, Looping
    <3> QED
      BY <1>4, <2>1, <3>1, HouseAssumption
  <2>7. /\ \A x \in Callers : data[x].talk # 0 => /\ location[x] \in Rooms
                                                  /\ data[x].talk <= w.talks[location[x]]
        /\ \A x, y \in Callers : x # y /\ location[x] = location[y] /\ data[x].talk = data[y].talk
                                 => data[x].talk = 0
    <3>1. \A x \in Callers : x # c => data[x] = w.data[x] /\ location[x] = w.location[x]
      BY <2>1
    <3>2. data[c].talk = 0
      BY <2>1, NewDataType
    <3> HIDE DEF data, location
    <3> QED
      BY <3>1, <3>2 DEF Orderly, Numbered
  <2> HIDE DEF location, inside, data
  <2>8. /\ e \in World /\ e.location = location /\ e.inside = inside /\ e.data = data
        /\ e.talks = w.talks /\ e.loops = w.loops /\ e.connected = w.connected /\ e.told = w.told
    BY <1>1, <2>4 DEF World
  <2> HIDE DEF e
  <2>9. Orderly(e)
    BY <2>5, <2>6, <2>7, <2>8, HouseAssumption DEF Orderly, Placed, Looping, Numbered, Emptied
  <2> QED
    BY <1>2, <1>4, <2>8, <2>9 DEF location
<1> QED
  BY <1>3, <1>4

\* What moving changes of who is where, and what everyone is told.
Moved(v, w, c, dest) ==
    /\ w.connected
    /\ v.location = [w.location EXCEPT ![c] = dest]
    /\ v.told[c] = <<<<"transition">>>> \o
                   (IF dest \in Background THEN <<<<"background", dest>>>> ELSE <<>>)
    /\ dest # w.location[c] =>
          \A d \in Callers \ {c} :
             v.told[d] = CASE w.location[d] = w.location[c] -> <<<<"door out">>>>
                           [] w.location[d] = dest -> <<<<"door in">>>>
                           [] OTHER -> <<>>

\* Moving, all of it.
LEMMA MoveKeeps ==
    ASSUME NEW w, Orderly(w), NEW c \in Callers, w.location[c] \in Rooms, NEW dest \in Rooms,
           \A d \in Callers : w.told[d] = <<>>
    PROVE  LET v == Move(w, c, dest) IN
           /\ Orderly(v)
           /\ Unasked(v)
           /\ v.connected => Moved(v, w, c, dest)
<1> DEFINE r   == w.location[c]
           go  == <<"transition">>
           out == <<"door out">>
           in  == <<"door in">>
           a == Tell(w, {c}, go)
           b == Tell(a, Others(w, r, c), out)
           left == Leave(b, c)
           entered == Enter(left, c, dest)
           v == Tell(entered, Others(entered, dest, c), in)
<1>1. /\ go \in Molecule /\ out \in Molecule /\ in \in Molecule
      /\ go[1] # "others" /\ out[1] # "others" /\ in[1] # "others"
  BY DEF Molecule
<1>2. Move(w, c, dest) = IF left.connected THEN v ELSE left
  BY DEF Move
<1>3. r \in Rooms /\ w \in World /\ Unasked(w) /\ \A d \in Callers : w.told[d] = <<>>
  BY DEF Orderly, Unasked
<1> HIDE DEF r, go, out, in, a, b, left, entered, v
<1>4. /\ Orderly(a) /\ Alike(a, w) /\ Unasked(a)
      /\ \A d \in Callers : a.told[d] = IF d \in {c} THEN Append(w.told[d], go) ELSE w.told[d]
  BY <1>1, <1>3, TellKeeps DEF a
<1>5. /\ Orderly(b) /\ Alike(b, a) /\ Unasked(b)
      /\ \A d \in Callers : b.told[d] = IF d \in Others(w, r, c) THEN Append(a.told[d], out) ELSE a.told[d]
  <2>1. a \in World
    BY <1>4 DEF Orderly
  <2> QED
    BY <1>1, <1>4, <2>1, TellKeeps DEF b
<1>6. \A q \in Rooms : Others(w, q, c) = {d \in Callers \ {c} : w.location[d] = q}
  BY DEF Others, Orderly, Placed
<1>7. \A d \in Callers : b.told[d] = IF d = c THEN <<go>> ELSE IF w.location[d] = r THEN <<out>> ELSE <<>>
  <2>1. Append(<<>>, go) = <<go>> /\ Append(<<>>, out) = <<out>>
    OBVIOUS
  <2>2. \A d \in Callers : a.told[d] = IF d = c THEN <<go>> ELSE <<>>
    BY <1>3, <1>4, <2>1
  <2>3. \A d \in Callers : d \in Others(w, r, c) <=> d # c /\ w.location[d] = r
    BY <1>3, <1>6
  <2> QED
    BY <1>5, <2>1, <2>2, <2>3
<1>8. b.location = w.location /\ b.connected = w.connected
  BY <1>4, <1>5 DEF Alike
<1>9. /\ Orderly(left) /\ left.told = b.told /\ Unasked(left)
      /\ left.connected => w.connected /\ left.location = [w.location EXCEPT ![c] = Nowhere]
  <2>1. Orderly(b) /\ b.location[c] \in Rooms
    BY <1>3, <1>5, <1>8 DEF r
  <2>2. /\ Orderly(left) /\ left.told = b.told
        /\ left.connected => b.connected /\ left.location = [b.location EXCEPT ![c] = Nowhere]
    BY <2>1, LeaveKeeps DEF left
  <2> QED
    BY <1>5, <1>8, <2>2 DEF Unasked
<1>10. CASE ~left.connected
  BY <1>2, <1>9, <1>10
<1>11. CASE left.connected
  <2>1. w.location \in [Callers -> Rooms \cup {Nowhere}]
    BY <1>3, WorldFields
  <2>2. left.location[c] = Nowhere /\ left.connected = TRUE
    BY <1>9, <1>11, <2>1, WorldFields DEF Orderly
  <2>3. /\ Orderly(entered) /\ entered.connected = left.connected /\ Unasked(entered)
        /\ entered.location = [left.location EXCEPT ![c] = dest]
        /\ entered.told[c] = IF dest \in Background THEN Append(left.told[c], <<"background", dest>>)
                                                    ELSE left.told[c]
        /\ \A d \in Callers \ {c} : entered.told[d] = left.told[d]
    <3>1. Orderly(left) /\ Unasked(left)
      BY <1>9
    <3>2. Orderly(entered) /\ Entered(entered, left, c, dest) /\ Unasked(entered)
      BY <2>2, <3>1, EnterKeeps DEF entered
    <3> QED
      BY <3>2 DEF Entered
  <2>4. /\ Orderly(v) /\ Alike(v, entered) /\ Unasked(v)
        /\ \A d \in Callers : v.told[d] = IF d \in Others(entered, dest, c)
                                          THEN Append(entered.told[d], in) ELSE entered.told[d]
    <3>1. entered \in World
      BY <2>3 DEF Orderly
    <3> QED
      BY <1>1, <2>3, <3>1, TellKeeps DEF v
  <2>5. entered.location = [w.location EXCEPT ![c] = dest]
    BY <1>9, <1>11, <2>1, <2>3
  <2>6. \A d \in Callers : d \in Others(entered, dest, c) <=> d # c /\ w.location[d] = dest
    <3>1. Others(entered, dest, c) = {d \in Callers \ {c} : entered.location[d] = dest}
      BY <2>3 DEF Others, Orderly, Placed
    <3> QED
      BY <2>1, <2>5, <3>1
  <2>7. v.told[c] = <<go>> \o (IF dest \in Background THEN <<<<"background", dest>>>> ELSE <<>>)
    <3>1. v.told[c] = IF dest \in Background THEN Append(<<go>>, <<"background", dest>>) ELSE <<go>>
      <4>1. left.told[c] = <<go>>
        BY <1>7, <1>9
      <4>2. v.told[c] = entered.told[c]
        BY <2>4, <2>6
      <4> QED
        BY <2>3, <4>1, <4>2
    <3>2. Append(<<go>>, <<"background", dest>>) = <<go>> \o <<<<"background", dest>>>>
          /\ <<go>> \o <<>> = <<go>>
      OBVIOUS
    <3> QED
      BY <3>1, <3>2
  <2>8. ASSUME dest # r, NEW d \in Callers \ {c}
        PROVE  v.told[d] = CASE w.location[d] = r -> <<out>> [] w.location[d] = dest -> <<in>> [] OTHER -> <<>>
    <3>1. v.told[d] = IF w.location[d] = dest THEN Append(left.told[d], in) ELSE left.told[d]
      BY <2>3, <2>4, <2>6
    <3>2. left.told[d] = IF w.location[d] = r THEN <<out>> ELSE <<>>
      BY <1>7, <1>9
    <3>3. Append(<<>>, in) = <<in>>
      OBVIOUS
    <3> QED
      BY <2>8, <3>1, <3>2, <3>3
  <2>9. v.location = [w.location EXCEPT ![c] = dest] /\ w.connected /\ Move(w, c, dest) = v
    BY <1>2, <1>9, <1>11, <2>4, <2>5 DEF Alike
  <2> QED
    BY <2>4, <2>7, <2>8, <2>9 DEF r, go, out, in, Moved
<1> QED
  BY <1>10, <1>11

-----------------------------------------------------------------------------
(* The invariant of the specification.                                     *)

HouseIsOrderly == /\ Orderly(world)
                  /\ up \subseteq Callers
                  /\ ~world.connected => up = {}
                  /\ \A c \in up : world.location[c] # Nowhere

LEMMA QuietKeeps ==
    ASSUME Orderly(world)
    PROVE  /\ Orderly(Quiet) /\ Alike(Quiet, world) /\ Quiet.data = world.data
           /\ Unasked(Quiet) /\ \A d \in Callers : Quiet.told[d] = <<>>
<1> DEFINE told == [d \in Callers |-> <<>>]
<1>1. told \in [Callers -> Seq(Molecule)] /\ world \in World
  BY DEF Orderly
<1>2. Quiet = [world EXCEPT !.told = told]
  BY DEF Quiet
<1> HIDE DEF told
<1>3. Quiet \in World /\ Alike(Quiet, world) /\ Quiet.data = world.data /\ Quiet.told = told
  BY <1>1, <1>2 DEF World, Alike
<1>4. Orderly(Quiet)
  BY <1>3 DEF Orderly, Placed, Looping, Numbered, Emptied, Alike
<1> QED
  BY <1>3, <1>4 DEF told, Unasked

\* What every key does first leaves rooms and callers alone.
LEMMA BegunKeeps ==
    ASSUME Orderly(world), NEW c \in Callers
    PROVE  /\ Orderly(Begun(c)) /\ Alike(Begun(c), world) /\ Unasked(Begun(c))
           /\ \A d \in Callers : Begun(c).told[d] = <<>>
           /\ Begun(c).data[c].talk = world.data[c].talk
<1>1. Quiet.data[c] \in LocationData /\ Quiet.data \in [Callers -> LocationData]
  BY QuietKeeps, WorldFields DEF Orderly
<1> DEFINE d == Cancel(Quiet.data[c], "orientation")
<1>2. d \in LocationData /\ d.talk = Quiet.data[c].talk
  BY <1>1, CancelType DEF Timers
<1>3. Begun(c) = [Quiet EXCEPT !.data[c] = d]
  BY QuietKeeps DEF Begun, Orderly, World
<1> HIDE DEF d
<1>4. /\ Orderly(Begun(c)) /\ Alike(Begun(c), Quiet) /\ Begun(c).told = Quiet.told
      /\ Begun(c).data = [Quiet.data EXCEPT ![c] = d]
  BY <1>2, <1>3, QuietKeeps, DataKeeps
<1> QED
  BY <1>1, <1>2, <1>4, QuietKeeps DEF Alike, Unasked

LEMMA WithoutKeeps ==
    ASSUME Orderly(world), NEW c \in Callers, NEW t \in Timers
    PROVE  /\ Orderly(Without(c, t)) /\ Alike(Without(c, t), world) /\ Unasked(Without(c, t))
           /\ \A d \in Callers : Without(c, t).told[d] = <<>>
<1>1. Begun(c).data[c] \in LocationData
  BY BegunKeeps, WorldFields DEF Orderly
<1> DEFINE d == Cancel(Begun(c).data[c], t)
<1>2. d \in LocationData /\ d.talk = Begun(c).data[c].talk
  BY <1>1, CancelType
<1>3. Without(c, t) = [Begun(c) EXCEPT !.data[c] = d]
  BY BegunKeeps DEF Without, Orderly, World
<1> HIDE DEF d
<1>4. /\ Orderly(Without(c, t)) /\ Alike(Without(c, t), Begun(c)) /\ Without(c, t).told = Begun(c).told
  BY <1>2, <1>3, BegunKeeps, DataKeeps
<1> QED
  BY <1>4, BegunKeeps DEF Alike, Unasked

\* What DoorsAreHeard asks of a step.
DoorStep == \A c, d \in Callers :
    LET dest == world'.location[c] IN
    /\ world.location[c] \in Rooms
    /\ world'.connected /\ dest # world.location[c]
    => dest \in Rooms /\ world'.told[d] = Heard(d, c, dest)

\* A step is fair to everyone if it keeps the invariant, and what it tells is
\* true.
Fair == HouseIsOrderly' /\ AnnouncedAreThere' /\ DoorStep

\* A step that ends in an orderly world, with no caller of a call lost.
LEMMA BecomesKeeps ==
    ASSUME HouseIsOrderly, NEW w, Orderly(w), Becomes(w),
           w.connected => \A c \in up : w.location[c] # Nowhere
    PROVE  HouseIsOrderly'
<1>1. world' = w /\ up' = IF w.connected THEN up ELSE {}
  BY DEF Becomes
<1>2. Orderly(world)'
  BY <1>1 DEF Orderly, Placed, Looping, Numbered, Emptied
<1> QED
  BY <1>1, <1>2 DEF HouseIsOrderly

\* A step after which everyone is where they were.
LEMMA StayingIsFair ==
    ASSUME HouseIsOrderly, NEW w, Orderly(w), Unasked(w), Alike(w, world), Becomes(w)
    PROVE  Fair
<1>1. world' = w
  BY DEF Becomes
<1>2. HouseIsOrderly'
  BY BecomesKeeps DEF HouseIsOrderly, Alike
<1>3. AnnouncedAreThere'
  BY <1>1 DEF Unasked, AnnouncedAreThere
<1>4. DoorStep
  BY <1>1 DEF DoorStep, Alike
<1> QED
  BY <1>2, <1>3, <1>4 DEF Fair

\* A step that ends all calls.
LEMMA RaisingIsFair ==
    ASSUME HouseIsOrderly, NEW w \in World, Unasked(w), Becomes(Raise(w))
    PROVE  Fair
<1>1. world' = Raise(w) /\ Orderly(Raise(w)) /\ Raise(w).connected = FALSE /\ Raise(w).told = w.told
  BY RaiseIsOrderly DEF Becomes
<1>2. HouseIsOrderly'
  BY <1>1, BecomesKeeps
<1>3. AnnouncedAreThere'
  BY <1>1 DEF Unasked, AnnouncedAreThere
<1>4. DoorStep
  BY <1>1 DEF DoorStep
<1> QED
  BY <1>2, <1>3, <1>4 DEF Fair

\* Whom the list counts.
LEMMA ListCounts ==
    ASSUME NEW w, Orderly(w), NEW c \in Callers, w.location[c] \in Rooms
    PROVE  Len(w.inside[w.location[c]]) - 1 = Cardinality({d \in Callers \ {c} : w.location[d] = w.location[c]})
<1> DEFINE s == w.inside[w.location[c]]
           here == {d \in Callers : w.location[d] = w.location[c]}
<1>1. s \in Seq(Callers) /\ IsInjective(s) /\ Range(s) = here
  BY WorldFields DEF Orderly, Placed
<1>2. DOMAIN s = 1 .. Len(s) /\ Len(s) \in Nat
  BY <1>1, LenProperties
<1> HIDE DEF s, here
<1>3. s \in Bijection(1 .. Len(s), here)
  BY <1>1, <1>2 DEF Bijection, Injection, Surjection, IsInjective, Range
<1>4. IsFiniteSet(1 .. Len(s)) /\ Cardinality(1 .. Len(s)) = Len(s)
  <2>1. ASSUME NEW n \in Nat
        PROVE  IsFiniteSet(1 .. n) /\ Cardinality(1 .. n) = IF 1 > n THEN 0 ELSE n - 1 + 1
    <3>1. 1 \in Int /\ n \in Int
      OBVIOUS
    <3> QED
      BY <3>1, FS_Interval, Zenon
  <2> QED
    BY <1>2, <2>1
<1>5. IsFiniteSet(here) /\ Cardinality(here) = Len(s)
  BY <1>3, <1>4, FS_Bijection DEF ExistsBijection
<1>6. c \in here /\ here \ {c} = {d \in Callers \ {c} : w.location[d] = w.location[c]}
  BY DEF here
<1>7. Cardinality(here \ {c}) = Cardinality(here) - 1
  BY <1>5, <1>6, FS_RemoveElement
<1> QED
  BY <1>5, <1>6, <1>7 DEF s

-----------------------------------------------------------------------------
(* The actions.                                                            *)

LEMMA InitIsOrderly == Init => HouseIsOrderly
BY NewWorldIsOrderly DEF Init, HouseIsOrderly, Orderly, Placed, Looping, Numbered, Emptied, NewWorld

LEMMA CallAcceptedIsFair ==
    ASSUME HouseIsOrderly, NEW c \in Callers, CallAccepted(c)
    PROVE  Fair
<1> DEFINE w == Enter(Quiet, c, Entry)
<1>1. Orderly(Quiet) /\ Alike(Quiet, world) /\ Unasked(Quiet)
  BY QuietKeeps DEF HouseIsOrderly
<1>2. Quiet.location[c] = Nowhere /\ Quiet.connected = TRUE /\ world.location[c] = Nowhere
  BY <1>1, WorldFields DEF CallAccepted, Alike, Orderly
<1>3. /\ Orderly(w) /\ w.connected = world.connected /\ Unasked(w)
      /\ w.location = [world.location EXCEPT ![c] = Entry]
  <2>1. Entry \in Rooms
    BY HouseAssumption
  <2>2. Orderly(w) /\ Entered(w, Quiet, c, Entry) /\ Unasked(w)
    BY <1>1, <1>2, <2>1, EnterKeeps
  <2> HIDE DEF w
  <2> QED
    BY <1>1, <2>2 DEF Alike, Entered
<1>4. world' = w /\ up' = up \cup {c}
  BY DEF CallAccepted
<1> HIDE DEF w
<1>5. world.location \in [Callers -> Rooms \cup {Nowhere}]
  BY WorldFields DEF HouseIsOrderly, Orderly
<1>6. Orderly(world)'
  BY <1>3, <1>4 DEF Orderly, Placed, Looping, Numbered, Emptied
<1>7. HouseIsOrderly'
  BY <1>1, <1>2, <1>3, <1>4, <1>5, <1>6, HouseAssumption DEF HouseIsOrderly, Alike
<1>8. AnnouncedAreThere'
  BY <1>3, <1>4 DEF Unasked, AnnouncedAreThere
<1>9. DoorStep
  BY <1>2, <1>3, <1>4, <1>5, HouseAssumption DEF DoorStep
<1> QED
  BY <1>7, <1>8, <1>9 DEF Fair

LEMMA PeerHangsUpIsFair ==
    ASSUME HouseIsOrderly, NEW c \in Callers, PeerHangsUp(c)
    PROVE  Fair
<1>1. Orderly(Quiet) /\ Alike(Quiet, world) /\ Unasked(Quiet) /\ world' = Quiet /\ up' = up \ {c}
  BY QuietKeeps DEF HouseIsOrderly, PeerHangsUp
<1>2. Orderly(world)'
  BY <1>1 DEF Orderly, Placed, Looping, Numbered, Emptied
<1>3. HouseIsOrderly'
  BY <1>1, <1>2 DEF HouseIsOrderly, Alike
<1>4. AnnouncedAreThere'
  BY <1>1 DEF Unasked, AnnouncedAreThere
<1>5. DoorStep
  BY <1>1 DEF DoorStep, Alike
<1> QED
  BY <1>3, <1>4, <1>5 DEF Fair

LEMMA ConnectionLostIsFair ==
    ASSUME HouseIsOrderly, ConnectionLost
    PROVE  Fair
<1>1. Quiet \in World /\ Unasked(Quiet)
  BY QuietKeeps DEF HouseIsOrderly, Orderly
<1> QED
  BY <1>1, RaisingIsFair DEF ConnectionLost

LEMMA ReconnectIsFair ==
    ASSUME HouseIsOrderly, Reconnect
    PROVE  Fair
<1>1. world' = NewWorld /\ up' = {} /\ ~world.connected
  BY DEF Reconnect, HouseIsOrderly
<1>2. Orderly(world)'
  BY <1>1, NewWorldIsOrderly DEF Orderly, Placed, Looping, Numbered, Emptied
<1>3. HouseIsOrderly'
  BY <1>1, <1>2 DEF HouseIsOrderly
<1>4. AnnouncedAreThere'
  BY <1>1 DEF AnnouncedAreThere, NewWorld
<1>5. DoorStep
  BY <1>1, HouseAssumption DEF DoorStep, HouseIsOrderly, Orderly, Emptied
<1> QED
  BY <1>3, <1>4, <1>5 DEF Fair

LEMMA TimerFiresIsFair ==
    ASSUME HouseIsOrderly, NEW c \in Callers, NEW t \in Timers, TimerFires(c, t)
    PROVE  Fair
<1>1. /\ Orderly(Quiet) /\ Alike(Quiet, world) /\ Quiet.data = world.data /\ Unasked(Quiet)
      /\ Quiet.data[c] \in LocationData
  BY QuietKeeps, WorldFields DEF HouseIsOrderly, Orderly
<1> DEFINE d == [Quiet.data[c] EXCEPT !.due[t] = @ - 1]
           w == [Quiet EXCEPT !.data[c] = d]
<1>2. d \in LocationData /\ d.talk = Quiet.data[c].talk
  <2> DEFINE due == [Quiet.data[c].due EXCEPT ![t] = @ - 1]
  <2>1. due \in [Timers -> Nat]
    BY <1>1 DEF TimerFires, LocationData
  <2>2. d = [Quiet.data[c] EXCEPT !.due = due]
    BY <1>1 DEF LocationData
  <2> HIDE DEF due
  <2> QED
    BY <1>1, <2>1, <2>2 DEF LocationData
<1>3. world' = w /\ up' = up
  BY <1>1 DEF TimerFires, Orderly, World
<1> HIDE DEF d
<1>4. Orderly(w) /\ Alike(w, Quiet) /\ w.told = Quiet.told
  BY <1>1, <1>2, DataKeeps
<1> HIDE DEF w
<1>5. Alike(w, world) /\ Unasked(w)
  BY <1>1, <1>4 DEF Alike, Unasked
<1>6. Becomes(w)
  BY <1>3, <1>5 DEF Becomes, HouseIsOrderly, Alike
<1> QED
  BY <1>4, <1>5, <1>6, StayingIsFair

\* What a key finds: the caller is in a room, and all that is left to do.
LEMMA KeyFinds ==
    ASSUME HouseIsOrderly, NEW c \in up
    PROVE  /\ c \in Callers /\ world.location[c] \in Rooms
           /\ Orderly(Begun(c)) /\ Alike(Begun(c), world) /\ Unasked(Begun(c))
           /\ \A d \in Callers : Begun(c).told[d] = <<>>
           /\ Begun(c) \in World /\ Begun(c).data[c] \in LocationData
<1>1. c \in Callers /\ world.location[c] \in Rooms
  BY WorldFields DEF HouseIsOrderly, Orderly
<1> QED
  BY <1>1, BegunKeeps, WorldFields DEF HouseIsOrderly, Orderly

LEMMA MoveKeyIsFair ==
    ASSUME HouseIsOrderly, NEW c \in Callers, NEW k \in Keys, MoveKey(c, k)
    PROVE  Fair
<1> DEFINE dest == DoorOf(c, k)
           w == Without(c, "move")
           say == <<"nothing there">>
<1>1. /\ Orderly(w) /\ Alike(w, world) /\ Unasked(w) /\ w \in World
      /\ \A d \in Callers : w.told[d] = <<>>
  BY WithoutKeeps DEF HouseIsOrderly, Orderly, Timers
<1>2. c \in up /\ Becomes(IF dest # Nowhere THEN Move(w, c, dest) ELSE Tell(w, {c}, say))
  BY DEF MoveKey, Dials
<1>3. world.location[c] \in Rooms /\ world.location \in [Callers -> Rooms \cup {Nowhere}]
  BY <1>2, KeyFinds, WorldFields DEF HouseIsOrderly, Orderly
<1>4. dest \in Rooms \cup {Nowhere}
  <2>1. k \in DOMAIN Compass => Compass[k] \in DOMAIN Mirror
    BY Zenon DEF Compass, Mirror
  <2> QED
    BY <1>3, <2>1, DoorsAssumption DEF DoorOf
<1> HIDE DEF dest, w
<1>5. CASE dest = Nowhere
  <2>1. say \in Molecule /\ say[1] # "others"
    BY DEF Molecule
  <2> HIDE DEF say
  <2>2. Orderly(Tell(w, {c}, say)) /\ Unasked(Tell(w, {c}, say)) /\ Alike(Tell(w, {c}, say), w)
    BY <1>1, <2>1, TellKeeps
  <2>3. Alike(Tell(w, {c}, say), world)
    BY <1>1, <2>2 DEF Alike
  <2> QED
    BY <1>2, <1>5, <2>2, <2>3, StayingIsFair
<1>6. CASE dest # Nowhere
  <2> DEFINE v == Move(w, c, dest)
  <2>1. world' = v /\ up' = IF v.connected THEN up ELSE {}
    BY <1>2, <1>6 DEF Becomes
  <2>2. /\ Orderly(v) /\ Unasked(v)
        /\ v.connected => Moved(v, w, c, dest)
    BY <1>1, <1>3, <1>4, <1>6, MoveKeeps DEF Alike
  <2> HIDE DEF v
  <2>3. HouseIsOrderly'
    <3>1. v.connected => \A d \in up : v.location[d] # Nowhere
      BY <1>1, <1>3, <1>4, <1>6, <2>2, HouseAssumption, ZenonT(40) DEF Moved, Alike, HouseIsOrderly
    <3> QED
      BY <1>2, <1>6, <2>1, <2>2, <3>1, BecomesKeeps DEF Becomes
  <2>4. AnnouncedAreThere'
    BY <2>1, <2>2 DEF Unasked, AnnouncedAreThere
  <2>5. ASSUME NEW x \in Callers, NEW d \in Callers, v.connected, v.location[x] # world.location[x]
        PROVE  v.location[x] \in Rooms /\ v.told[d] = Heard(d, x, v.location[x])
    <3>1. v.location = [world.location EXCEPT ![c] = dest] /\ w.location = world.location
      BY <1>1, <2>2, <2>5 DEF Moved, Alike
    <3>2. x = c /\ v.location[x] = dest /\ dest # world.location[c]
      BY <1>3, <2>5, <3>1
    <3>3. CASE d = c
      BY <1>4, <1>6, <2>2, <2>5, <3>2, <3>3 DEF Moved, Heard
    <3>4. CASE d # c
      BY <1>4, <1>6, <2>2, <2>5, <3>1, <3>2, <3>4 DEF Moved, Heard
    <3> QED
      BY <3>3, <3>4
  <2>6. DoorStep
    BY <2>1, <2>5 DEF DoorStep
  <2> QED
    BY <2>3, <2>4, <2>6 DEF Fair
<1> QED
  BY <1>4, <1>5, <1>6

\* What a caller is told of its own and what it dials change nothing else.
LEMMA TellingIsFair ==
    ASSUME HouseIsOrderly, NEW w, Orderly(w), Unasked(w), Alike(w, world),
           NEW to, NEW say \in Molecule, say[1] # "others", Becomes(Tell(w, to, say))
    PROVE  Fair
<1>1. Orderly(Tell(w, to, say)) /\ Unasked(Tell(w, to, say)) /\ Alike(Tell(w, to, say), w)
  BY TellKeeps DEF Orderly
<1>2. Alike(Tell(w, to, say), world)
  BY <1>1 DEF Alike
<1> QED
  BY <1>1, <1>2, StayingIsFair

LEMMA DialingIsFair ==
    ASSUME HouseIsOrderly, NEW c \in up, NEW d \in LocationData, d.talk = Begun(c).data[c].talk,
           Becomes([Begun(c) EXCEPT !.data[c] = d])
    PROVE  Fair
<1> DEFINE w == [Begun(c) EXCEPT !.data[c] = d]
<1>1. Orderly(w) /\ Alike(w, Begun(c)) /\ w.told = Begun(c).told
  BY KeyFinds, DataKeeps
<1> HIDE DEF w
<1>2. Alike(w, world) /\ Unasked(w)
  BY <1>1, KeyFinds DEF Alike, Unasked
<1> QED
  BY <1>1, <1>2, StayingIsFair DEF w

LEMMA DigitKeyIsFair ==
    ASSUME HouseIsOrderly, NEW c \in Callers, NEW k \in Keys, DigitKey(c, k)
    PROVE  Fair
<1>1. c \in up /\ k \in Digits /\ "starhash" \in Timers
  BY DEF DigitKey, StarhashMode, Dials, Timers
<1> DEFINE armed == Arm(Begun(c).data[c], "starhash")
           d == [armed EXCEPT !.digits = Append(@, k)]
<1>2. armed \in LocationData /\ armed.talk = Begun(c).data[c].talk
  BY <1>1, KeyFinds, ArmType
<1>3. Becomes([Begun(c) EXCEPT !.data[c] = d])
  BY DEF DigitKey
<1> HIDE DEF armed
<1>4. d \in LocationData /\ d.talk = armed.talk
  <2> DEFINE digits == Append(armed.digits, k)
  <2>1. digits \in Seq(Digits)
    BY <1>1, <1>2, AppendProperties DEF LocationData
  <2>2. d = [armed EXCEPT !.digits = digits]
    BY <1>2 DEF LocationData
  <2> HIDE DEF digits
  <2> QED
    BY <1>2, <2>1, <2>2 DEF LocationData
<1> HIDE DEF d
<1> QED
  BY <1>1, <1>2, <1>4, <1>3, DialingIsFair

LEMMA BeginModeIsFair ==
    ASSUME HouseIsOrderly, NEW c \in Callers, NEW k \in Keys, BeginMode(c, k)
    PROVE  Fair
<1> DEFINE t == IF k = "5" THEN "move" ELSE "starhash"
           d == Arm(Begun(c).data[c], t)
<1>1. c \in up /\ t \in Timers
  BY DEF BeginMode, Dials, Timers
<1>2. Becomes([Begun(c) EXCEPT !.data[c] = d])
  BY <1>1, KeyFinds DEF BeginMode, World
<1> HIDE DEF t
<1>3. d \in LocationData /\ d.talk = Begun(c).data[c].talk
  BY <1>1, KeyFinds, ArmType
<1> HIDE DEF d
<1> QED
  BY <1>1, <1>2, <1>3, DialingIsFair

LEMMA LookupIsFair ==
    ASSUME HouseIsOrderly, NEW c \in Callers, Lookup(c)
    PROVE  Fair
<1> DEFINE w == Without(c, "starhash")
<1>1. Orderly(w) /\ Alike(w, world) /\ Unasked(w) /\ w \in World
  BY WithoutKeeps DEF HouseIsOrderly, Orderly, Timers
<1>2. Becomes(Raise(w)) \/ Becomes(w)
  BY DEF Lookup
<1> HIDE DEF w
<1> QED
  BY <1>1, <1>2, RaisingIsFair, StayingIsFair

LEMMA GiveUpIsFair ==
    ASSUME HouseIsOrderly, NEW c \in Callers, GiveUp(c)
    PROVE  Fair
<1> DEFINE w == Without(c, "starhash")
           say == <<"beep">>
<1>1. Orderly(w) /\ Alike(w, world) /\ Unasked(w)
  BY WithoutKeeps DEF HouseIsOrderly, Timers
<1>2. say \in Molecule /\ say[1] # "others"
  BY DEF Molecule
<1>3. Becomes(Tell(w, {c}, say))
  BY DEF GiveUp
<1> HIDE DEF w, say
<1> QED
  BY <1>1, <1>2, <1>3, TellingIsFair

LEMMA HelpIsFair ==
    ASSUME HouseIsOrderly, NEW c \in Callers, Help(c)
    PROVE  Fair
<1> DEFINE say == <<"orientation">>
<1>1. say \in Molecule /\ say[1] # "others"
  BY DEF Molecule
<1>2. c \in up /\ Becomes(Tell(Begun(c), {c}, say))
  BY DEF Help, Dials
<1> HIDE DEF say
<1> QED
  BY <1>1, <1>2, KeyFinds, TellingIsFair

LEMMA OtherKeyIsFair ==
    ASSUME HouseIsOrderly, NEW c \in Callers, OtherKey(c)
    PROVE  Fair
BY KeyFinds, StayingIsFair DEF OtherKey, Dials

\* The one who asks is told how many others are there, and nobody else anything.
LEMMA AnnounceOthersIsFair ==
    ASSUME HouseIsOrderly, NEW c \in Callers, AnnounceOthers(c)
    PROVE  Fair
<1> DEFINE n == CountOthers(c)
           say == <<"others", n>>
           w == Tell(Begun(c), {c}, say)
           here == {d \in Callers \ {c} : world.location[d] = world.location[c]}
<1>1. c \in up /\ Becomes(w)
  BY DEF AnnounceOthers, Dials
<1>2. n = Cardinality(here) /\ n \in Int
  <2>1. n = Cardinality(here)
    BY <1>1, KeyFinds, ListCounts DEF CountOthers, HouseIsOrderly
  <2>2. world.inside[world.location[c]] \in Seq(Callers)
    BY <1>1, KeyFinds, WorldFields DEF HouseIsOrderly, Orderly
  <2>3. Len(world.inside[world.location[c]]) \in Nat
    BY <2>2, LenProperties
  <2> QED
    BY <2>1, <2>3 DEF CountOthers
<1> HIDE DEF n
<1>3. say \in Molecule /\ say[1] = "others" /\ say[2] = n
  BY <1>2 DEF Molecule
<1> HIDE DEF say
<1>4. /\ Orderly(w) /\ Alike(w, Begun(c))
      /\ \A d \in Callers : w.told[d] = IF d \in {c} THEN Append(Begun(c).told[d], say) ELSE Begun(c).told[d]
  BY <1>1, <1>3, KeyFinds, TellKeeps
<1> HIDE DEF w
<1>5. \A d \in Callers : w.told[d] = IF d = c THEN <<say>> ELSE <<>>
  <2>1. Append(<<>>, say) = <<say>>
    OBVIOUS
  <2>2. \A d \in Callers : Begun(c).told[d] = <<>>
    BY <1>1, KeyFinds
  <2> QED
    BY <1>4, <2>1, <2>2
<1>6. Alike(w, world) /\ world' = w
  BY <1>1, <1>4, KeyFinds DEF Alike, Becomes
<1>7. HouseIsOrderly'
  BY <1>1, <1>4, <1>6, BecomesKeeps DEF HouseIsOrderly, Alike
<1>8. AnnouncedAreThere'
  <2> SUFFICES ASSUME NEW d \in Callers, NEW i \in DOMAIN w.told[d]
               PROVE  w.told[d][i][2] = Cardinality({x \in Callers \ {d} : world.location[x] = world.location[d]})
    BY <1>6 DEF AnnouncedAreThere, Alike
  <2>1. d = c /\ w.told[d][i] = say
    BY <1>5
  <2> QED
    BY <1>2, <1>3, <2>1
<1>9. DoorStep
  BY <1>6 DEF DoorStep, Alike
<1> QED
  BY <1>7, <1>8, <1>9 DEF Fair

\* A recording gets a number its room has not given yet.
LEMMA TalkIsFair ==
    ASSUME HouseIsOrderly, NEW c \in Callers, Talk(c)
    PROVE  Fair
<1> DEFINE r == world.location[c]
           n == world.talks[r] + 1
           b == Begun(c)
           w == [b EXCEPT !.talks[r] = n, !.data[c].talk = n]
           say == <<"record", r, n>>
<1>1. c \in up
  BY DEF Talk, Dials
<1>2. /\ r \in Rooms /\ Orderly(b) /\ Unasked(b) /\ Alike(b, world) /\ b \in World /\ b.data[c] \in LocationData
      /\ n \in Nat /\ n = b.talks[r] + 1
  BY <1>1, KeyFinds, WorldFields DEF HouseIsOrderly, Orderly, Alike
<1>3. Becomes(Raise(b)) \/ Becomes(Tell(w, {c}, say))
  BY DEF Talk
<1>4. CASE Becomes(Raise(b))
  <2> HIDE DEF b
  <2> QED BY <1>2, <1>4, RaisingIsFair
<1>5. CASE Becomes(Tell(w, {c}, say))
  <2> DEFINE d == [b.data[c] EXCEPT !.talk = n]
             data == [b.data EXCEPT ![c] = d]
             talks == [b.talks EXCEPT ![r] = n]
  <2> HIDE DEF b, n, r
  <2>1. d \in LocationData /\ d.talk = n
    BY <1>2 DEF LocationData
  <2> HIDE DEF d
  <2>2. /\ b.location \in [Callers -> Rooms \cup {Nowhere}] /\ b.data \in [Callers -> LocationData]
        /\ b.talks \in [Rooms -> Nat]
    BY <1>2, WorldFields
  <2>3. /\ data \in [Callers -> LocationData] /\ data[c].talk = n
        /\ \A x \in Callers \ {c} : data[x] = b.data[x]
        /\ talks \in [Rooms -> Nat] /\ talks[r] = n
        /\ \A q \in Rooms \ {r} : talks[q] = b.talks[q]
    BY <1>2, <2>1, <2>2
  <2>4. w = [b EXCEPT !.talks = talks, !.data = data]
    BY <1>2 DEF World, d
  <2> HIDE DEF data, talks
  <2>5. /\ w \in World /\ w.connected = b.connected /\ w.inside = b.inside /\ w.location = b.location
        /\ w.data = data /\ w.talks = talks /\ w.loops = b.loops /\ w.told = b.told
    BY <1>2, <2>3, <2>4 DEF World
  <2> HIDE DEF w
  <2>6. b.location[c] = r
    BY <1>2 DEF Alike, r
  <2>7. ASSUME NEW x \in Callers \ {c}, b.data[x].talk # 0, b.location[x] = r
        PROVE  b.data[x].talk <= b.talks[r] /\ b.data[x].talk # n
    <3>1. b.data[x].talk <= b.talks[r]
      BY <1>2, <2>7 DEF Orderly, Numbered
    <3>2. b.data[x].talk \in Nat /\ b.talks[r] \in Nat
      BY <1>2, <2>2 DEF LocationData
    <3> QED
      BY <1>2, <3>1, <3>2
  <2>8. /\ \A x \in Callers : data[x].talk # 0 => b.location[x] \in Rooms /\ data[x].talk <= talks[b.location[x]]
        /\ \A x, y \in Callers : x # y /\ b.location[x] = b.location[y] /\ data[x].talk = data[y].talk
                                 => data[x].talk = 0
    <3>1. \A x \in Callers \ {c} : b.data[x].talk \in Nat
      BY <2>2 DEF LocationData
    <3>2. ASSUME NEW x \in Callers, data[x].talk # 0
          PROVE  b.location[x] \in Rooms /\ data[x].talk <= talks[b.location[x]]
      <4>1. CASE x = c
        BY <1>2, <2>3, <2>6, <4>1
      <4>2. CASE x # c /\ b.location[x] = r
        <5>1. data[x].talk <= b.talks[r] /\ b.data[x].talk \in Nat /\ b.talks[r] \in Nat
          BY <1>2, <2>2, <2>3, <2>7, <3>1, <3>2, <4>2
        <5> QED
          BY <1>2, <2>3, <4>2, <5>1
      <4>3. CASE x # c /\ b.location[x] # r
        BY <1>2, <2>3, <3>2, <4>3 DEF Orderly, Numbered
      <4> QED
        BY <4>1, <4>2, <4>3
    <3>3. ASSUME NEW x \in Callers, NEW y \in Callers, x # y, b.location[x] = b.location[y],
                 data[x].talk = data[y].talk, data[x].talk # 0
          PROVE  FALSE
      <4>1. CASE x = c
        BY <2>3, <2>6, <2>7, <3>3, <4>1
      <4>2. CASE y = c
        BY <2>3, <2>6, <2>7, <3>3, <4>2
      <4>3. CASE x # c /\ y # c
        BY <1>2, <2>3, <3>3, <4>3 DEF Orderly, Numbered
      <4> QED
        BY <4>1, <4>2, <4>3
    <3> QED
      BY <3>2, <3>3
  <2>9. Orderly(w) /\ Unasked(w)
    BY <1>2, <2>5, <2>8 DEF Orderly, Placed, Looping, Numbered, Emptied, Unasked
  <2>10. say \in Molecule /\ say[1] # "others"
    BY <1>2 DEF Molecule
  <2> HIDE DEF say
  <2>11. /\ Orderly(Tell(w, {c}, say)) /\ Unasked(Tell(w, {c}, say)) /\ Alike(Tell(w, {c}, say), w)
    BY <2>5, <2>9, <2>10, TellKeeps
  <2> DEFINE v == Tell(w, {c}, say)
  <2> HIDE DEF v
  <2>12. Orderly(v) /\ Unasked(v) /\ v.location = world.location /\ v.connected = world.connected /\ Becomes(v)
    BY <1>2, <1>5, <2>5, <2>11 DEF v, Alike
  <2>13. HouseIsOrderly'
    BY <2>12, BecomesKeeps DEF HouseIsOrderly
  <2>14. AnnouncedAreThere'
    BY <2>12 DEF Becomes, Unasked, AnnouncedAreThere
  <2>15. DoorStep
    BY <2>12 DEF Becomes, DoorStep
  <2> QED
    BY <2>13, <2>14, <2>15 DEF Fair
<1> QED
  BY <1>3, <1>4, <1>5

-----------------------------------------------------------------------------
(* The theorems.                                                           *)

LEMMA KeyIsFair ==
    ASSUME HouseIsOrderly, NEW c \in Callers, NEW k \in Keys, Key(c, k)
    PROVE  Fair
BY MoveKeyIsFair, DigitKeyIsFair, LookupIsFair, HelpIsFair, GiveUpIsFair, BeginModeIsFair,
   AnnounceOthersIsFair, TalkIsFair, OtherKeyIsFair DEF Key

LEMMA NextIsFair ==
    ASSUME HouseIsOrderly, Next
    PROVE  Fair
<1>1. CASE \E c \in Callers : CallAccepted(c) \/ PeerHangsUp(c)
  BY <1>1, CallAcceptedIsFair, PeerHangsUpIsFair
<1>2. CASE \E c \in Callers, k \in Keys : Key(c, k)
  BY <1>2, KeyIsFair
<1>3. CASE \E c \in Callers, t \in Timers : TimerFires(c, t)
  BY <1>3, TimerFiresIsFair
<1>4. CASE ConnectionLost
  BY <1>4, ConnectionLostIsFair
<1>5. CASE Reconnect
  BY <1>5, ReconnectIsFair
<1> QED
  BY <1>1, <1>2, <1>3, <1>4, <1>5 DEF Next

\* Nothing disturbs the invariant: the house is orderly after any steps.
THEOREM HouseStaysOrderly == Spec => []HouseIsOrderly
<1>1. HouseIsOrderly /\ [Next]_vars => HouseIsOrderly'
  <2>1. ASSUME HouseIsOrderly, UNCHANGED vars
        PROVE  HouseIsOrderly'
    BY <2>1 DEF vars, HouseIsOrderly, Orderly, Placed, Looping, Numbered, Emptied
  <2> QED
    BY <2>1, NextIsFair DEF Fair
<1> QED
  BY <1>1, InitIsOrderly, PTL DEF Spec

\* Every variable keeps its type, and no call is up without a connection.
THEOREM HouseTypes == Spec => []TypeOK
<1>1. HouseIsOrderly => TypeOK
  BY DEF HouseIsOrderly, Orderly, TypeOK
<1> QED
  BY <1>1, HouseStaysOrderly, PTL

\* The lists of the rooms and the rooms of the callers agree, each caller is
\* in one list once, and no call is up of a caller that is nowhere: enter,
\* leave and move, with whatever exception, keep both.
THEOREM CallersAreSomewhere == Spec => []EveryoneIsSomewhere
<1>1. HouseIsOrderly => EveryoneIsSomewhere
  BY DEF HouseIsOrderly, Orderly, Placed, EveryoneIsSomewhere
<1> QED
  BY <1>1, HouseStaysOrderly, PTL

\* The one background that repeats for a caller is that of its room.
THEOREM BackgroundsFit == Spec => []BackgroundFits
<1>1. HouseIsOrderly => BackgroundFits
  BY DEF HouseIsOrderly, Orderly, Looping, BackgroundFits
<1> QED
  BY <1>1, HouseStaysOrderly, PTL

\* No two callers of a room record into one file, as a room gives every
\* number once.
THEOREM TalksStayOwn == Spec => []TalksAreOwn
<1>1. HouseIsOrderly => TalksAreOwn
  BY DEF HouseIsOrderly, Orderly, Numbered, TalksAreOwn
<1> QED
  BY <1>1, HouseStaysOrderly, PTL

\* How many others key 6 announces is how many others are in the room.
THEOREM AnnouncementsAreTrue == Spec => []AnnouncedAreThere
<1>1. Init => AnnouncedAreThere
  BY DEF Init, NewWorld, AnnouncedAreThere
<1>2. HouseIsOrderly /\ AnnouncedAreThere /\ [Next]_vars => AnnouncedAreThere'
  <2>1. AnnouncedAreThere /\ UNCHANGED vars => AnnouncedAreThere'
    BY DEF vars, AnnouncedAreThere
  <2> QED
    BY <2>1, NextIsFair DEF Fair
<1> QED
  BY <1>1, <1>2, HouseStaysOrderly, PTL DEF Spec

\* Whoever comes to another room is heard by everyone it left and everyone it
\* joins, once, and by nobody else.
THEOREM DoorsStayHeard == Spec => DoorsAreHeard
<1> DEFINE step == \A c, d \in Callers :
        LET dest == world'.location[c] IN
        /\ world.location[c] \in Rooms
        /\ world'.connected /\ dest # world.location[c]
        => dest \in Rooms /\ world'.told[d] = Heard(d, c, dest)
<1>1. HouseIsOrderly /\ [Next]_vars => [step]_vars
  BY NextIsFair DEF Fair, DoorStep
<1> QED
  BY <1>1, HouseStaysOrderly, PTL DEF Spec, DoorsAreHeard

-----------------------------------------------------------------------------
(* The data of a caller is changed by its own keys, and its timers.        *)

\* v has the fields of a world.
Fielded(v) == DOMAIN v = DOMAIN NewWorld /\ DOMAIN v.data = Callers

\* The others' data is in v what it is in w, unless something was raised.
Spares(v, w, c) == /\ Fielded(v)
                   /\ IF v.connected THEN \A d \in Callers \ {c} : v.data[d] = w.data[d]
                                     ELSE v.data = [d \in Callers |-> NewData]

LEMMA RaiseSpares ==
    ASSUME NEW u, NEW w, NEW c
    PROVE  Spares(Raise(u), w, c) /\ Raise(u).connected = FALSE
BY DEF Raise, Spares, Fielded, NewWorld

LEMMA TellSpares ==
    ASSUME NEW v, NEW w, NEW c, Spares(v, w, c), NEW to, NEW say
    PROVE  Spares(Tell(v, to, say), w, c) /\ Tell(v, to, say).connected = v.connected
<1> DEFINE told == [d \in Callers |-> IF d \in to THEN Append(v.told[d], say) ELSE v.told[d]]
           t == [v EXCEPT !.told = told]
<1>1. Tell(v, to, say) = t
  BY DEF Tell
<1> HIDE DEF told
<1>2. DOMAIN t = DOMAIN v /\ t.data = v.data /\ t.connected = v.connected
  BY DEF Spares, Fielded, NewWorld
<1> QED
  BY <1>1, <1>2 DEF Spares, Fielded

\* The data of c is set, and other fields but for connected.
LEMMA DataSpares ==
    ASSUME NEW v, NEW w, NEW c, Spares(v, w, c), v.connected, NEW x, Fielded(x),
           x.connected = v.connected, NEW d, x.data = [v.data EXCEPT ![c] = d]
    PROVE  Spares(x, w, c)
BY DEF Spares, Fielded

LEMMA EnterSpares ==
    ASSUME NEW v, NEW w, NEW c, Spares(v, w, c), v.connected, NEW r
    PROVE  Spares(Enter(v, c, r), w, c) /\ Enter(v, c, r).connected = v.connected
<1> DEFINE e == [v EXCEPT !.location[c] = r, !.inside[r] = Append(@, c),
                          !.data[c] = Arm(NewData, "orientation")]
           f == [e EXCEPT !.loops[c] = Append(@, r)]
<1>1. /\ Fielded(e) /\ e.connected = v.connected
      /\ e.data = [v.data EXCEPT ![c] = Arm(NewData, "orientation")]
  BY DEF Spares, Fielded, NewWorld
<1>2. Spares(e, w, c)
  BY <1>1, DataSpares
<1>3. Enter(v, c, r) = IF r \in Background THEN Tell(f, {c}, <<"background", r>>) ELSE e
  BY DEF Enter
<1> HIDE DEF e
<1>4. Fielded(f) /\ f.connected = e.connected /\ f.data = e.data
  BY <1>1 DEF Fielded, NewWorld
<1>5. Spares(f, w, c)
  BY <1>2, <1>4 DEF Spares
<1> HIDE DEF f
<1>6. /\ Spares(Tell(f, {c}, <<"background", r>>), w, c)
      /\ Tell(f, {c}, <<"background", r>>).connected = f.connected
  BY <1>5, TellSpares
<1> QED
  BY <1>1, <1>2, <1>3, <1>4, <1>6

LEMMA LeaveSpares ==
    ASSUME NEW v, NEW w, NEW c, Spares(v, w, c), v.connected
    PROVE  Spares(Leave(v, c), w, c)
<1> DEFINE r == v.location[c]
           e == [v EXCEPT !.location[c] = Nowhere, !.inside[r] = RemoveFirst(@, c), !.data[c] = NewData]
<1>1. Leave(v, c) = IF r \in Background THEN Raise(v) ELSE e
  BY DEF Leave
<1>2. Fielded(e) /\ e.connected = v.connected /\ e.data = [v.data EXCEPT ![c] = NewData]
  BY DEF Spares, Fielded, NewWorld
<1>3. Spares(e, w, c)
  BY <1>2, DataSpares
<1>4. Spares(Raise(v), w, c)
  BY RaiseSpares
<1> HIDE DEF e
<1> QED
  BY <1>1, <1>3, <1>4

LEMMA MoveSpares ==
    ASSUME NEW v, NEW w, NEW c, Spares(v, w, c), v.connected, NEW dest
    PROVE  Spares(Move(v, c, dest), w, c)
<1> DEFINE a == Tell(v, {c}, <<"transition">>)
           b == Tell(a, Others(v, v.location[c], c), <<"door out">>)
           left == Leave(b, c)
           entered == Enter(left, c, dest)
<1>1. Move(v, c, dest) = IF left.connected THEN Tell(entered, Others(entered, dest, c), <<"door in">>) ELSE left
  BY DEF Move
<1>2. Spares(a, w, c) /\ a.connected = v.connected
  BY TellSpares
<1> HIDE DEF a
<1>3. Spares(b, w, c) /\ b.connected = a.connected
  BY <1>2, TellSpares
<1> HIDE DEF b
<1>4. Spares(left, w, c)
  BY <1>2, <1>3, LeaveSpares
<1> HIDE DEF left
<1>5. ASSUME left.connected
      PROVE  Spares(entered, w, c)
  BY <1>4, <1>5, EnterSpares
<1> HIDE DEF entered
<1>6. ASSUME left.connected
      PROVE  Spares(Tell(entered, Others(entered, dest, c), <<"door in">>), w, c)
  BY <1>5, <1>6, TellSpares
<1> QED
  BY <1>1, <1>4, <1>6

LEMMA QuietSpares ==
    ASSUME HouseIsOrderly, world.connected, NEW c
    PROVE  Spares(Quiet, world, c) /\ Quiet.data = world.data /\ Quiet.connected = world.connected
<1>1. Quiet.data = world.data /\ Quiet \in World /\ Quiet.connected = world.connected
  BY QuietKeeps DEF HouseIsOrderly, Orderly, Alike
<1>2. DOMAIN Quiet = DOMAIN NewWorld /\ DOMAIN Quiet.data = Callers
  BY <1>1, NewWorldIsOrderly DEF Orderly, World
<1> QED
  BY <1>1, <1>2 DEF Spares, Fielded

LEMMA BegunSpares ==
    ASSUME HouseIsOrderly, world.connected, NEW c
    PROVE  Spares(Begun(c), world, c) /\ Begun(c).connected
<1> DEFINE d == Cancel(Quiet.data[c], "orientation")
           x == [Quiet EXCEPT !.data[c] = d]
<1>1. Spares(Quiet, world, c) /\ Quiet.connected
  BY QuietSpares
<1>2. Begun(c) = x
  BY <1>1 DEF Begun, Spares, Fielded, NewWorld
<1> HIDE DEF d
<1>3. Fielded(x) /\ x.connected = Quiet.connected /\ x.data = [Quiet.data EXCEPT ![c] = d]
  BY <1>1 DEF Spares, Fielded, NewWorld
<1> QED
  BY <1>1, <1>2, <1>3, DataSpares

LEMMA WithoutSpares ==
    ASSUME HouseIsOrderly, world.connected, NEW c, NEW t
    PROVE  Spares(Without(c, t), world, c) /\ Without(c, t).connected
<1> DEFINE b == Begun(c)
           d == Cancel(b.data[c], t)
           x == [b EXCEPT !.data[c] = d]
<1>1. Spares(b, world, c) /\ b.connected
  BY BegunSpares
<1> HIDE DEF d
<1>2. Fielded(x) /\ x.connected = b.connected /\ x.data = [b.data EXCEPT ![c] = d]
  BY <1>1 DEF Spares, Fielded, NewWorld
<1>3. Spares(x, world, c)
  BY <1>1, <1>2, DataSpares
<1>4. Without(c, t) = x
  BY <1>1 DEF Without, d, Spares, Fielded, NewWorld
<1> QED
  BY <1>1, <1>2, <1>3, <1>4

\* A key of a caller leaves alone what the others have.
LEMMA KeySpares ==
    ASSUME HouseIsOrderly, NEW c \in Callers, NEW k \in Keys, Key(c, k)
    PROVE  Spares(world', world, c)
<1>1. world.connected
  BY DEF Key, MoveKey, DigitKey, Lookup, Help, GiveUp, BeginMode, AnnounceOthers, Talk, OtherKey,
         StarhashMode, Dials
<1> DEFINE b == Begun(c)
<1>2. Spares(b, world, c) /\ b.connected
  BY <1>1, BegunSpares
<1>3. \A say : Spares(Tell(b, {c}, say), world, c)
  BY <1>2, TellSpares
<1>4. \A t : Spares(Without(c, t), world, c) /\ Without(c, t).connected
  BY <1>1, WithoutSpares
<1>5. \A t, say : Spares(Tell(Without(c, t), {c}, say), world, c)
  BY <1>4, TellSpares
<1>6. \A u : Spares(Raise(u), world, c)
  BY RaiseSpares
<1>7. ASSUME NEW d
      PROVE  Spares([b EXCEPT !.data[c] = d], world, c)
  <2> DEFINE x == [b EXCEPT !.data[c] = d]
  <2>1. Fielded(x) /\ x.connected = b.connected /\ x.data = [b.data EXCEPT ![c] = d]
    BY <1>2 DEF Spares, Fielded, NewWorld
  <2> HIDE DEF b
  <2> QED
    BY <1>2, <2>1, DataSpares
<1>8. CASE MoveKey(c, k)
  <2>1. Spares(Move(Without(c, "move"), c, DoorOf(c, k)), world, c)
    BY <1>4, MoveSpares
  <2> QED
    BY <1>5, <1>8, <2>1 DEF MoveKey, Becomes
<1>9. CASE DigitKey(c, k)
  BY <1>7, <1>9 DEF DigitKey, Becomes
<1>10. CASE Lookup(c)
  BY <1>4, <1>6, <1>10 DEF Lookup, Becomes
<1>11. CASE Help(c)
  BY <1>3, <1>11 DEF Help, Becomes
<1>12. CASE GiveUp(c)
  BY <1>5, <1>12 DEF GiveUp, Becomes
<1>13. CASE BeginMode(c, k)
  <2> DEFINE d == Arm(b.data[c], IF k = "5" THEN "move" ELSE "starhash")
  <2>1. world' = [b EXCEPT !.data[c] = d]
    BY <1>2, <1>13 DEF BeginMode, Becomes, Spares, Fielded, NewWorld
  <2> QED
    BY <1>7, <2>1
<1>14. CASE AnnounceOthers(c)
  BY <1>3, <1>14 DEF AnnounceOthers, Becomes
<1>15. CASE Talk(c)
  <2> DEFINE r == world.location[c]
             n == world.talks[r] + 1
             d == [b.data[c] EXCEPT !.talk = n]
             x == [b EXCEPT !.talks[r] = n, !.data[c] = d]
             y == [b EXCEPT !.talks[r] = n, !.data[c].talk = n]
  <2>1. world' = Raise(b) \/ world' = Tell(y, {c}, <<"record", r, n>>)
    BY <1>15 DEF Talk, Becomes
  <2>2. y = x
    BY <1>2 DEF Spares, Fielded, NewWorld
  <2> HIDE DEF d, n, y
  <2>3. Fielded(x) /\ x.connected = b.connected /\ x.data = [b.data EXCEPT ![c] = d]
    BY <1>2 DEF Spares, Fielded, NewWorld
  <2> HIDE DEF x, b
  <2>4. Spares(x, world, c)
    BY <1>2, <2>3, DataSpares
  <2>5. Spares(Tell(x, {c}, <<"record", r, n>>), world, c)
    BY <2>4, TellSpares
  <2> QED
    BY <1>6, <2>1, <2>2, <2>5
<1>16. CASE OtherKey(c)
  BY <1>2, <1>16 DEF OtherKey, Becomes
<1> QED
  BY <1>8, <1>9, <1>10, <1>11, <1>12, <1>13, <1>14, <1>15, <1>16 DEF Key

\* Nothing is armed without a connection.
Stopped == ~world.connected => world.data = [d \in Callers |-> NewData]

\* What a step does to the data of those who stay.
DataStep == \A c \in Callers :
    /\ world'.connected /\ world'.location[c] = world.location[c]
    /\ world'.data[c] # world.data[c]
    => \/ \E k \in Keys : Key(c, k)
       \/ \E t \in Timers : TimerFires(c, t)

LEMMA StepSparesData ==
    ASSUME HouseIsOrderly, Stopped, Next
    PROVE  Stopped' /\ DataStep
<1>0. /\ world \in World
      /\ world.connected => \A c : Spares(Quiet, world, c)
      /\ world.connected => Quiet.data = world.data /\ Quiet.connected
  BY QuietSpares DEF HouseIsOrderly, Orderly
<1>1. ASSUME NEW c \in Callers, CallAccepted(c)
      PROVE  Stopped' /\ DataStep
  <2>1. Spares(world', world, c) /\ world'.connected
    BY <1>0, <1>1, EnterSpares DEF CallAccepted
  <2>2. world'.location[c] = Entry
    BY <1>0, <1>1 DEF CallAccepted, Enter, Tell, Quiet, World
  <2>3. world.location[c] # Entry
    BY <1>1, HouseAssumption DEF CallAccepted
  <2> QED
    BY <2>1, <2>2, <2>3 DEF Stopped, DataStep, Spares
<1>2. ASSUME NEW c \in Callers, PeerHangsUp(c)
      PROVE  Stopped' /\ DataStep
  <2>1. world.connected
    BY <1>2 DEF PeerHangsUp, HouseIsOrderly
  <2> QED
    BY <1>0, <1>2, <2>1 DEF PeerHangsUp, Stopped, DataStep
<1>3. ASSUME NEW c \in Callers, NEW k \in Keys, Key(c, k)
      PROVE  Stopped' /\ DataStep
  <2>1. Spares(world', world, c)
    BY <1>3, KeySpares
  <2> QED
    BY <1>3, <2>1 DEF Stopped, DataStep, Spares
<1>4. ASSUME NEW c \in Callers, NEW t \in Timers, TimerFires(c, t)
      PROVE  Stopped' /\ DataStep
  <2> DEFINE d == [Quiet.data[c] EXCEPT !.due[t] = @ - 1]
             x == [Quiet EXCEPT !.data[c] = d]
  <2>1. world' = x /\ world.connected
    BY <1>0, <1>4 DEF TimerFires, Spares, Fielded, NewWorld
  <2> HIDE DEF d
  <2>2. Fielded(x) /\ x.connected /\ x.data = [world.data EXCEPT ![c] = d]
    BY <1>0, <2>1 DEF Spares, Fielded, NewWorld
  <2>3. \A e \in Callers \ {c} : x.data[e] = world.data[e]
    BY <1>0, <2>1, <2>2 DEF World
  <2> HIDE DEF x
  <2> QED
    BY <1>4, <2>1, <2>2, <2>3 DEF Stopped, DataStep
<1>5. CASE ConnectionLost
  <2>1. world' = Raise(Quiet)
    BY <1>5 DEF ConnectionLost, Becomes
  <2>2. Spares(Raise(Quiet), world, 0) /\ Raise(Quiet).connected = FALSE
    BY RaiseSpares
  <2> QED
    BY <2>1, <2>2 DEF Stopped, DataStep, Spares
<1>6. CASE Reconnect
  BY <1>6 DEF Reconnect, Stopped, DataStep, NewWorld, NewData
<1> QED
  BY <1>1, <1>2, <1>3, <1>4, <1>5, <1>6 DEF Next

\* While a caller stays in a room nothing but its own keys and its own timers
\* changes its data: no key of another caller, not its coming and going, no
\* connection that is lost and renewed, and no call that ends.
THEOREM DataStaysOwn == Spec => DataIsOwn
<1>1. Init => Stopped
  BY DEF Init, NewWorld, Stopped
<1>2. HouseIsOrderly /\ Stopped /\ [Next]_vars => Stopped'
  <2>1. Stopped /\ UNCHANGED vars => Stopped'
    BY DEF vars, Stopped
  <2> QED
    BY <2>1, StepSparesData
<1>3. HouseIsOrderly /\ Stopped /\ [Next]_vars => [DataStep]_vars
  BY StepSparesData
<1> QED
  BY <1>1, <1>2, <1>3, HouseStaysOrderly, PTL DEF Spec, DataIsOwn, DataStep
=============================================================================
