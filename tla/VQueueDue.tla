------------------------------ MODULE VQueueDue ------------------------------
(***************************************************************************)
(* The proof that _active is always the molecule VQueue::next returns.     *)
(*                                                                         *)
(* While a command or event is handled the queue need not be in order: the *)
(* molecule that is due may just have been enqueued, or its predecessor    *)
(* may have been discarded.  What schedule needs is weaker (Ready): if a   *)
(* molecule is active, it is the first of its own priority.  From this it  *)
(* makes a queue in which the active molecule is due (ScheduleIsDue), and  *)
(* commands and events that do not call it keep it due (Steady).           *)
(***************************************************************************)
EXTENDS VQueueProofs, WellFoundedInduction

\* _active points to its molecule, and all atoms could be started.
Sound(q) == q.faults \cap {"stale", "start"} = {} /\ ~q.crashed

\* Molecules have left from q to r, and no other one has come.
Fewer(q, r) == /\ Queued(r) \subseteq Queued(q)
               /\ \A s \in Queued(r) : r.mol[s].priority = q.mol[s].priority

\* What every part of schedule does: vectors stay where they are, and what is
\* out of step stays so.
Kept(q, r) == /\ r.buffer = q.buffer
              /\ r.capacity = q.capacity
              /\ Fewer(q, r)
              /\ q.faults \subseteq r.faults
              /\ Sound(r) => Sound(q)

\* Two vectors never share their memory.
Apart(q) == /\ \A s \in Queued(q) : q.capacity[q.mol[s].priority] > 0
            /\ \A x, y \in Priorities :
                  q.capacity[x] > 0 /\ q.capacity[y] > 0 /\ q.buffer[x] = q.buffer[y] => x = y

\* _active points to the molecule that is due, and to none only when there is
\* none, or when a discarded one was masked.
Due(q) == IF q.active = Null THEN Playable(q) = {} \/ "masked" \in q.faults
          ELSE /\ q.pin \in Playable(q)
               /\ q.active = Address(q, q.pin)
               /\ \A s \in Playable(q) \ {q.pin} : Before(q, q.pin, s)

\* What schedule relies on: _active points to the first of its priority.
Ready(q) == Sound(q) /\ q.active # Null =>
               /\ q.pin \in Playable(q)
               /\ q.active = Address(q, q.pin)
               /\ \A s \in Playable(q) \ {q.pin} :
                     q.mol[s].priority = q.mol[q.pin].priority => q.pin < s

-----------------------------------------------------------------------------
(* Priorities, serials and addresses.                                      *)

LEMMA LeastNatural ==
    ASSUME NEW T \in SUBSET Nat, T # {}
    PROVE  \E x \in T : \A y \in T : x <= y
<1> DEFINE F == {0 .. x : x \in T}
           R == StrictSubsetOrdering(Nat)
<1>1. IsWellFoundedOn(R, FiniteSubsetsOf(Nat))
  BY FS_StrictSubsetOrderingWellFounded
<1>2. F \subseteq FiniteSubsetsOf(Nat) /\ F # {}
  <2>1. ASSUME NEW x \in T
        PROVE  0 .. x \in SUBSET Nat /\ IsFiniteSet(0 .. x)
    BY FS_Interval
  <2> QED BY <2>1 DEF FiniteSubsetsOf
<1>3. PICK I \in F : \A J \in F : <<J, I>> \notin R
  <2> HIDE DEF F, R
  <2> QED BY <1>1, <1>2, WFMin
<1>4. PICK x \in T : I = 0 .. x
  BY <1>3
<1>5. ASSUME NEW y \in T, y < x
      PROVE  <<0 .. y, I>> \in R
  BY <1>4, <1>5 DEF StrictSubsetOrdering
<1>6. \A y \in T : ~ (y < x)
  BY <1>3, <1>5
<1> QED
  BY <1>6

\* VQueue::next finds a molecule if any has atoms.
LEMMA NextUpExists ==
    ASSUME NEW q, Consistent(q), Playable(q) # {}
    PROVE  NextUp(q) # {}
<1> DEFINE high(s) == MaxPriority - q.mol[s].priority
           T == {high(s) : s \in Playable(q)}
<1>1. \A s \in Playable(q) : /\ q.mol[s].priority \in 0 .. MaxPriority
                             /\ s \in Nat
  BY MoleculeType, BoundsAssumption DEF Playable, Molecule, Priorities, Serials
<1>2. T \in SUBSET Nat /\ T # {}
  BY <1>1, PrioritiesAssumption
<1>3. PICK h \in T : \A k \in T : h <= k
  <2> HIDE DEF T
  <2> QED BY <1>2, LeastNatural
<1>4. PICK top \in Playable(q) : h = high(top)
  BY <1>3
<1> DEFINE U == {s \in Playable(q) : q.mol[s].priority = q.mol[top].priority}
<1>5. U \in SUBSET Nat /\ U # {}
  BY <1>1, <1>4
<1>6. PICK s \in U : \A t \in U : s <= t
  <2> HIDE DEF U
  <2> QED BY <1>5, LeastNatural
<1>7. \A t \in Playable(q) : q.mol[t].priority <= q.mol[top].priority
  <2>1. TAKE t \in Playable(q)
  <2>2. high(t) \in T
    OBVIOUS
  <2>3. high(top) <= high(t)
    BY <1>3, <1>4, <2>2
  <2> QED BY <1>1, <1>4, <2>1, <2>3, PrioritiesAssumption
<1>8. ASSUME NEW t \in Playable(q) \ {s}
      PROVE  Before(q, s, t)
  <2>1. CASE q.mol[t].priority = q.mol[top].priority
    <3>1. t \in U BY <2>1
    <3>2. s <= t /\ s # t BY <1>6, <1>8, <3>1
    <3> QED BY <1>1, <1>6, <2>1, <3>2 DEF Before
  <2>2. CASE q.mol[t].priority # q.mol[top].priority
    <3>1. q.mol[s].priority = q.mol[top].priority BY <1>6
    <3>2. q.mol[t].priority <= q.mol[top].priority BY <1>7
    <3>3. /\ q.mol[t].priority \in Int /\ q.mol[top].priority \in Int
      BY <1>1, <1>4
    <3> QED BY <2>2, <3>1, <3>2, <3>3 DEF Before
  <2> QED BY <2>1, <2>2
<1> QED
  BY <1>6, <1>8 DEF NextUp

\* Molecules of one vector have different slots.
LEMMA SlotInjective ==
    ASSUME NEW q, Consistent(q), NEW s \in Queued(q), NEW t \in Queued(q),
           q.mol[s].priority = q.mol[t].priority, Slot(q, s) = Slot(q, t)
    PROVE  s = t
<1> DEFINE V == Vector(q, q.mol[s].priority)
           Upto(x) == {u \in V : u <= x}
<1>1. IsFiniteSet(V) BY VectorFinite
<1>2. \A x : IsFiniteSet(Upto(x)) BY <1>1, FS_Subset
<1>3. s \in V /\ t \in V /\ V \subseteq Int /\ s \in Int /\ t \in Int
  BY MoleculeType, BoundsAssumption DEF Vector, Serials
<1>4. Cardinality(Upto(s)) = Cardinality(Upto(t))
  BY DEF Slot
<1>5. ASSUME NEW x \in V, NEW y \in V, x < y, Cardinality(Upto(x)) = Cardinality(Upto(y))
      PROVE  FALSE
  <2>1. Upto(x) \in SUBSET Upto(y) BY <1>3, <1>5
  <2>2. IsFiniteSet(Upto(y)) BY <1>2
  <2>3. Upto(y) = Upto(x)
    <3> HIDE DEF Upto
    <3> QED BY <1>5, <2>1, <2>2, FS_Subset
  <2>4. y \in Upto(y) /\ y \notin Upto(x) BY <1>3, <1>5
  <2> QED BY <2>3, <2>4
<1> QED
  BY <1>3, <1>4, <1>5

LEMMA SlotPositive ==
    ASSUME NEW q, Consistent(q), NEW s \in Queued(q)
    PROVE  Address(q, s) # Null
<1> DEFINE V == Vector(q, q.mol[s].priority)
           Upto == {u \in V : u <= s}
<1>1. IsFiniteSet(Upto) BY VectorFinite, FS_Subset
<1>2. s \in Upto
  BY MoleculeType, BoundsAssumption DEF Vector, Serials
<1>3. Cardinality(Upto) # 0 BY <1>1, <1>2, FS_EmptySet
<1>4. Slot(q, s) # 0
  BY <1>3 DEF Slot
<1> QED
  BY <1>4 DEF Address, Null

\* No two molecules are at one address.
LEMMA AddressInjective ==
    ASSUME NEW q, Consistent(q), Apart(q), NEW s \in Queued(q), NEW t \in Queued(q),
           Address(q, s) = Address(q, t)
    PROVE  s = t
<1>1. /\ q.buffer[q.mol[s].priority] = q.buffer[q.mol[t].priority]
      /\ Slot(q, s) = Slot(q, t)
  BY DEF Address
<1>2. q.mol[s].priority \in Priorities /\ q.mol[t].priority \in Priorities
  BY MoleculeType DEF Molecule
<1>3. q.mol[s].priority = q.mol[t].priority
  BY <1>1, <1>2 DEF Apart
<1> QED BY <1>1, <1>3, SlotInjective

LEMMA TargetOfAddress ==
    ASSUME NEW q, Consistent(q), Apart(q), NEW s \in Queued(q)
    PROVE  Target(q, Address(q, s)) = {s}
BY AddressInjective DEF Target

-----------------------------------------------------------------------------
(* What the helpers leave alone.                                           *)

LEMMA KeptTransitive ==
    ASSUME NEW q, NEW r, NEW x, Kept(q, r), Kept(r, x)
    PROVE  Kept(q, x)
BY DEF Kept, Fewer

LEMMA KeptReflexive ==
    ASSUME NEW q
    PROVE  Kept(q, q)
BY DEF Kept, Fewer

LEMMA KeptApart ==
    ASSUME NEW q, NEW r, Kept(q, r), Apart(q)
    PROVE  Apart(r)
BY DEF Kept, Fewer, Apart

LEMMA NoteFrame ==
    ASSUME NEW q, Consistent(q), NEW fault, NEW if
    PROVE  /\ Kept(q, Note(q, fault, if))
           /\ Note(q, fault, if).active = q.active
           /\ Note(q, fault, if).pin = q.pin
           /\ if => fault \in Note(q, fault, if).faults
           /\ if /\ fault \in {"stale", "start"} => ~Sound(Note(q, fault, if))
<1> DEFINE r == Note(q, fault, if)
           faults == IF if THEN q.faults \cup {fault} ELSE q.faults
<1>1. r = [q EXCEPT !.faults = faults]
  BY DEF Note
<1> HIDE DEF r, faults
<1>2. /\ r.mol = q.mol /\ r.buffer = q.buffer /\ r.capacity = q.capacity
      /\ r.active = q.active /\ r.pin = q.pin /\ r.crashed = q.crashed
      /\ r.faults = faults
  BY <1>1 DEF Consistent, IsSession, Session
<1>3. q.faults \subseteq faults /\ (if => fault \in faults)
  BY DEF faults
<1>4. Sound(r) => Sound(q)
  BY <1>2, <1>3 DEF Sound
<1>5. if /\ fault \in {"stale", "start"} => ~Sound(r)
  BY <1>2, <1>3 DEF Sound
<1> QED
  BY <1>2, <1>3, <1>4, <1>5 DEF Kept, Fewer, Queued, r

LEMMA StopRecordsFrame ==
    ASSUME NEW q, Consistent(q), NEW A
    PROVE  /\ Kept(q, StopRecords(q, A))
           /\ StopRecords(q, A).active = q.active
           /\ StopRecords(q, A).pin = q.pin
<1> DEFINE stopped == {a \in A \cap q.open : a.kind.type = "record"}
           open == q.open \ stopped
           timers == {t \in q.timers : t.atom \notin stopped}
           player == IF stopped = {} THEN q.player ELSE {}
           r == [q EXCEPT !.open = open, !.timers = timers, !.player = player]
<1>1. StopRecords(q, A) = Note(r, "cut", stopped # {} /\ q.player \ stopped # {})
  BY DEF StopRecords
<1> HIDE DEF stopped
<1>2. Consistent(r)
  BY DEF Consistent, IsSession, Session, Queued
<1>3. /\ r.mol = q.mol /\ r.buffer = q.buffer /\ r.capacity = q.capacity
      /\ r.active = q.active /\ r.pin = q.pin /\ r.crashed = q.crashed
      /\ r.faults = q.faults
  BY DEF Consistent, IsSession, Session
<1> HIDE DEF r
<1>4. Kept(q, r)
  BY <1>3 DEF Kept, Fewer, Queued, Sound
<1> QED
  BY <1>1, <1>2, <1>3, <1>4, NoteFrame, KeptTransitive

LEMMA SameMolecules ==
    ASSUME NEW q, NEW r, r.mol = q.mol, r.buffer = q.buffer, r.capacity = q.capacity,
           r.crashed = q.crashed, r.faults = q.faults
    PROVE  Kept(q, r)
BY DEF Kept, Fewer, Queued, Sound

LEMMA StopPlayFrame ==
    ASSUME NEW q, Consistent(q), NEW a
    PROVE  /\ Kept(q, StopPlay(q, a))
           /\ StopPlay(q, a).active = q.active
           /\ StopPlay(q, a).pin = q.pin
<1> DEFINE open == q.open \ {a}
           r == [q EXCEPT !.open = open, !.source = {}]
<1>1. /\ r.mol = q.mol /\ r.buffer = q.buffer /\ r.capacity = q.capacity
      /\ r.active = q.active /\ r.pin = q.pin /\ r.crashed = q.crashed
      /\ r.faults = q.faults
  BY DEF Consistent, IsSession, Session
<1>2. StopPlay(q, a) = q \/ StopPlay(q, a) = r
  BY DEF StopPlay
<1> HIDE DEF r
<1> QED
  BY <1>1, <1>2, SameMolecules, KeptReflexive

LEMMA DestroyFrame ==
    ASSUME NEW q, Consistent(q), NEW D
    PROVE  /\ Kept(q, Destroy(q, D))
           /\ Destroy(q, D).active = q.active
           /\ Destroy(q, D).pin = q.pin
<1> DEFINE A == {a \in q.open : a.molecule \in D}
           r == StopRecords(q, A)
           mol == Restrict(r.mol, Queued(q) \ D)
           open == {a \in r.open : a.molecule \notin D}
           d == [r EXCEPT !.mol = mol, !.open = open]
<1>1. Destroy(q, D) = d
  BY DEF Destroy
<1>2. /\ Consistent(r) /\ Kept(q, r) /\ r.mol = q.mol
      /\ r.active = q.active /\ r.pin = q.pin
  BY StopRecordsKeeps, StopRecordsFrame
<1> HIDE DEF mol, open, r
<1>3. /\ d.buffer = r.buffer /\ d.capacity = r.capacity
      /\ d.active = r.active /\ d.pin = r.pin /\ d.crashed = r.crashed
      /\ d.faults = r.faults
  BY <1>2 DEF Consistent, IsSession, Session
<1>4. /\ d.mol = [s \in Queued(q) \ D |-> q.mol[s]]
      /\ Queued(d) = Queued(q) \ D
  BY <1>1, DestroyKeeps
<1> HIDE DEF d
<1>5. Fewer(q, d)
  BY <1>4 DEF Fewer
<1>6. Sound(d) => Sound(q)
  BY <1>2, <1>3 DEF Sound, Kept
<1>7. d.buffer = q.buffer /\ d.capacity = q.capacity
  BY <1>2, <1>3 DEF Kept
<1> QED
  BY <1>1, <1>2, <1>3, <1>5, <1>6, <1>7 DEF Kept

LEMMA IdleFrame ==
    ASSUME NEW q, Consistent(q)
    PROVE  Kept(q, Idle(q))
<1>1. /\ Idle(q).buffer = q.buffer /\ Idle(q).capacity = q.capacity
      /\ Idle(q).crashed = q.crashed /\ Idle(q).faults = q.faults
      /\ Idle(q).mol = q.mol
  BY DEF Idle, Consistent, IsSession, Session
<1> QED
  BY <1>1, SameMolecules

LEMMA FinishFrame ==
    ASSUME NEW q, Consistent(q), NEW D \in SUBSET Queued(q), NEW r \in Finish(q, D)
    PROVE  Kept(q, r)
<1> DEFINE x == Destroy(q, D)
           d == Idle(x)
<1>1. Consistent(x) /\ Kept(q, x)
  BY DestroyKeeps, DestroyFrame
<1> HIDE DEF x
<1>2. Consistent(d) /\ Kept(q, d)
  BY <1>1, IdleKeeps, IdleFrame, KeptTransitive
<1>3. PICK new : r = [d EXCEPT !.done = new]
  BY DEF Finish, x
<1> HIDE DEF d
<1>4. /\ r.mol = d.mol /\ r.buffer = d.buffer /\ r.capacity = d.capacity
      /\ r.crashed = d.crashed /\ r.faults = d.faults
  BY <1>2, <1>3 DEF Consistent, IsSession, Session
<1> QED
  BY <1>2, <1>4, SameMolecules, KeptTransitive

LEMMA UndefinedIsUnsound ==
    ASSUME NEW q, Consistent(q)
    PROVE  Kept(q, Undefined(q)) /\ ~Sound(Undefined(q))
<1>1. /\ Undefined(q).buffer = q.buffer /\ Undefined(q).capacity = q.capacity
      /\ Undefined(q).crashed = TRUE /\ Undefined(q).mol = q.mol
      /\ Undefined(q).faults = q.faults
  BY DEF Undefined, Consistent, IsSession, Session
<1> QED
  BY <1>1 DEF Kept, Fewer, Queued, Sound

LEMMA WildIsUnsound ==
    ASSUME NEW q, Consistent(q)
    PROVE  Kept(q, Wild(q)) /\ ~Sound(Wild(q))
<1>1. Consistent(Undefined(q)) /\ Kept(q, Undefined(q)) /\ ~Sound(Undefined(q))
  BY UndefinedKeeps, UndefinedIsUnsound
<1>2. Kept(Undefined(q), Wild(q))
  BY <1>1, NoteFrame DEF Wild
<1> QED
  BY <1>1, <1>2, KeptTransitive DEF Kept

LEMMA MisreadIsUnsound ==
    ASSUME NEW q, Consistent(q), NEW A, NEW E, NEW r \in Misread(q, A, E)
    PROVE  Kept(q, r) /\ ~Sound(r)
<1>1. r = Note(Undefined(q), "file", TRUE) \/ r = Note(Undefined(q), "empty", TRUE)
  BY DEF Misread
<1>2. Consistent(Undefined(q)) /\ Kept(q, Undefined(q)) /\ ~Sound(Undefined(q))
  BY UndefinedKeeps, UndefinedIsUnsound
<1>3. Kept(Undefined(q), r)
  BY <1>1, <1>2, NoteFrame
<1> QED
  BY <1>2, <1>3, KeptTransitive DEF Kept

LEMMA PutFrame ==
    ASSUME NEW q, Consistent(q), NEW s \in Queued(q), NEW m \in Molecule,
           m.priority = q.mol[s].priority
    PROVE  /\ Kept(q, Put(q, s, m))
           /\ Put(q, s, m).active = q.active
           /\ Put(q, s, m).pin = q.pin
           /\ Put(q, s, m).mol = [q.mol EXCEPT ![s] = m]
           /\ Queued(Put(q, s, m)) = Queued(q)
<1> DEFINE r == Put(q, s, m)
<1>1. /\ r.buffer = q.buffer /\ r.capacity = q.capacity
      /\ r.active = q.active /\ r.pin = q.pin /\ r.crashed = q.crashed
      /\ r.faults = q.faults
      /\ r.mol = [q.mol EXCEPT ![s] = m]
  BY DEF Put, Consistent, IsSession, Session, Queued
<1>2. Queued(r) = Queued(q)
  BY <1>1 DEF Queued
<1> HIDE DEF r
<1>3. Fewer(q, r)
  BY <1>1, <1>2 DEF Fewer, Queued
<1>4. Sound(r) => Sound(q)
  BY <1>1 DEF Sound
<1> QED
  BY <1>1, <1>2, <1>3, <1>4 DEF Kept, r

\* Nothing changes that decides which molecule is due.
Alike(q, r) == /\ Queued(r) = Queued(q)
               /\ r.buffer = q.buffer
               /\ \A s \in Queued(q) : /\ r.mol[s].priority = q.mol[s].priority
                                       /\ r.mol[s].atoms = <<>> <=> q.mol[s].atoms = <<>>

LEMMA AlikeAddress ==
    ASSUME NEW q, NEW r, Alike(q, r), NEW s \in Queued(q)
    PROVE  Address(r, s) = Address(q, s)
<1>1. Vector(r, r.mol[s].priority) = Vector(q, q.mol[s].priority)
  BY DEF Alike, Vector
<1> QED
  BY <1>1 DEF Alike, Address, Slot

LEMMA AlikePlayable ==
    ASSUME NEW q, NEW r, Alike(q, r)
    PROVE  /\ Playable(r) = Playable(q)
           /\ NextUp(r) = NextUp(q)
           /\ \A s, t \in Queued(q) : Before(r, s, t) <=> Before(q, s, t)
<1>1. Playable(r) = Playable(q)
  BY DEF Alike, Playable
<1>2. \A s, t \in Queued(q) : Before(r, s, t) <=> Before(q, s, t)
  BY DEF Alike, Before
<1>3. Playable(q) \subseteq Queued(q)
  BY DEF Playable
<1> QED
  BY <1>1, <1>2, <1>3 DEF NextUp

LEMMA AlikeActive ==
    ASSUME NEW q, NEW r, Alike(q, r), r.active = q.active
    PROVE  ActiveOnes(r) = ActiveOnes(q)
<1>1. \A s \in Queued(q) : Address(r, s) = Address(q, s)
  BY AlikeAddress
<1> QED
  BY <1>1 DEF ActiveOnes, Target, Alike

LEMMA SameMoleculesAlike ==
    ASSUME NEW q, NEW r, r.mol = q.mol, r.buffer = q.buffer
    PROVE  Alike(q, r)
BY DEF Alike, Queued

LEMMA StartAtomFrame ==
    ASSUME NEW q, Consistent(q), NEW a
    PROVE  /\ StartAtom(q, a).mol = q.mol
           /\ StartAtom(q, a).buffer = q.buffer
           /\ StartAtom(q, a).capacity = q.capacity
           /\ StartAtom(q, a).crashed = q.crashed
           /\ StartAtom(q, a).faults = q.faults
BY DEF StartAtom, Consistent, IsSession, Session

LEMMA FailAtomFrame ==
    ASSUME NEW q, Consistent(q), NEW a
    PROVE  /\ FailAtom(q, a).mol = q.mol
           /\ FailAtom(q, a).buffer = q.buffer
           /\ FailAtom(q, a).capacity = q.capacity
           /\ FailAtom(q, a).crashed = q.crashed
           /\ FailAtom(q, a).faults = q.faults
BY DEF FailAtom, Consistent, IsSession, Session

LEMMA SuccessIsDue ==
    ASSUME NEW q, Consistent(q), NEW s \in Queued(q), IsActive(q.mol[s])
    PROVE  Kept(q, Success(q, s)) /\ (s \in NextUp(q) => Due(Success(q, s)))
<1> DEFINE m == q.mol[s]
           n == [m EXCEPT !.started = m.started \/ m.current = 1]
           u == StartAtom(q, CurrentAtom(m))
           v == Put(u, s, n)
           r == [v EXCEPT !.active = Address(q, s), !.pin = s]
<1>1. Success(q, s) = r
  BY DEF Success
<1>2. s \in Queued(q) /\ (s \in NextUp(q) => s \in Playable(q))
  BY DEF NextUp
<1>3. CurrentAtom(m) \in Atom /\ CurrentAtom(m).molecule \in Queued(q)
  BY <1>2, CurrentAtomType
<1>4. /\ Consistent(u)
      /\ u.mol = q.mol /\ u.buffer = q.buffer /\ u.capacity = q.capacity
      /\ u.crashed = q.crashed /\ u.faults = q.faults
  BY <1>3, StartAtomKeeps, StartAtomFrame
<1> HIDE DEF u
<1>5. Kept(q, u)
  BY <1>4, SameMolecules
<1>6. m \in Molecule
  BY <1>2, MoleculeType
<1>7. n \in Molecule /\ n.priority = m.priority /\ n.atoms = m.atoms
  <2>1. (m.started \/ m.current = 1) \in BOOLEAN
    BY Zenon
  <2> DEFINE b == m.started \/ m.current = 1
  <2> HIDE DEF b, m
  <2> QED BY <1>6, <2>1 DEF Molecule, b
<1> HIDE DEF n
<1>8. /\ Kept(u, v) /\ v.mol = [q.mol EXCEPT ![s] = n] /\ Queued(v) = Queued(q)
  BY <1>2, <1>4, <1>7, PutFrame DEF Queued
<1>9. Consistent(v)
  <2>1. \A i \in DOMAIN n.atoms : n.atoms[i].molecule = s
    BY <1>2, <1>7, MoleculeType
  <2>2. s \in Queued(u)
    BY <1>2, <1>4 DEF Queued
  <2> QED BY <1>4, <1>7, <2>1, <2>2, PutKeeps
<1> HIDE DEF v
<1>10. /\ r.mol = v.mol /\ r.buffer = v.buffer /\ r.capacity = v.capacity
       /\ r.crashed = v.crashed /\ r.faults = v.faults
       /\ r.active = Address(q, s) /\ r.pin = s
  BY <1>9 DEF Consistent, IsSession, Session
<1> HIDE DEF r
<1>11. Kept(q, r)
  BY <1>5, <1>8, <1>10, SameMolecules, KeptTransitive
<1>12. Alike(q, r)
  <2>1. \A t \in Queued(q) : /\ r.mol[t].priority = q.mol[t].priority
                             /\ r.mol[t].atoms = q.mol[t].atoms
    BY <1>7, <1>8, <1>10 DEF Queued
  <2> QED BY <1>8, <1>10, <1>11, <2>1 DEF Alike, Kept, Queued
<1>13. ASSUME s \in NextUp(q)
       PROVE  /\ r.active = Address(r, s) /\ r.active # Null
              /\ Playable(r) = Playable(q)
              /\ \A t \in Playable(q) \ {s} : Before(r, s, t)
  <2>1. Playable(q) \subseteq Queued(q)
    BY DEF Playable
  <2>2. \A t \in Playable(q) \ {s} : Before(q, s, t)
    BY <1>13 DEF NextUp
  <2> QED BY <1>2, <1>10, <1>12, <2>1, <2>2, AlikeAddress, AlikePlayable, SlotPositive
<1>14. s \in NextUp(q) => Due(r)
  BY <1>2, <1>10, <1>13 DEF Due
<1> QED
  BY <1>1, <1>11, <1>14

LEMMA FailureFrame ==
    ASSUME NEW q, Consistent(q), NEW s \in Queued(q), IsActive(q.mol[s])
    PROVE  Kept(q, Failure(q, s)) /\ ~Sound(Failure(q, s))
<1> DEFINE m == q.mol[s]
           n == [m EXCEPT !.atoms = RemoveAt(m.atoms, m.current), !.current = m.current + 1]
           u == FailAtom(q, CurrentAtom(m))
           v == Put(u, s, n)
<1>1. Failure(q, s) = Note(v, "start", TRUE)
  BY DEF Failure
<1>2. m \in Molecule
  BY MoleculeType
<1>3. CurrentAtom(m) \in Atom /\ CurrentAtom(m).molecule = s
  BY CurrentAtomType
<1>4. /\ Consistent(u)
      /\ u.mol = q.mol /\ u.buffer = q.buffer /\ u.capacity = q.capacity
      /\ u.crashed = q.crashed /\ u.faults = q.faults
  BY <1>3, FailAtomKeeps, FailAtomFrame
<1> HIDE DEF u
<1>5. /\ n \in Molecule /\ n.priority = m.priority
      /\ \A i \in DOMAIN n.atoms : n.atoms[i].molecule = s
  <2>1. /\ m.atoms \in Seq(Atom) /\ m.current \in Nat
        /\ m.current \in 1 .. Len(m.atoms)
        /\ \A i \in DOMAIN m.atoms : m.atoms[i].molecule = s
    BY <1>2, MoleculeType DEF Molecule, IsActive
  <2> HIDE DEF m
  <2>2. RemoveAt(m.atoms, m.current) \in Seq(Atom) /\ m.current + 1 \in Nat \ {0}
    BY <2>1, RemoveAtAtoms
  <2>3. n \in Molecule /\ n.priority = m.priority /\ n.atoms = RemoveAt(m.atoms, m.current)
    BY <1>2, <2>1, <2>2 DEF Molecule
  <2> HIDE DEF n
  <2> QED BY <2>1, <2>3, RemoveAtAtoms
<1> HIDE DEF n
<1>6. Kept(q, u) /\ s \in Queued(u)
  BY <1>4, SameMolecules DEF Queued
<1>7. Consistent(v) /\ Kept(u, v)
  BY <1>4, <1>5, <1>6, PutKeeps, PutFrame
<1> QED
  BY <1>1, <1>6, <1>7, NoteFrame, KeptTransitive

LEMMA BeginIsDue ==
    ASSUME NEW q, Consistent(q), NEW s \in Queued(q),
           DividesByZero(q.mol[s]) \/ ~Spent(q.mol[s]),
           NEW r \in Begin(q, s)
    PROVE  Kept(q, r) /\ (Sound(r) /\ s \in NextUp(q) => Due(r))
<1>1. CASE DividesByZero(q.mol[s])
  BY <1>1, UndefinedIsUnsound DEF Begin
<1>2. CASE r \in Misread(q, LengthsRead(q.mol[s]), Divisor(q.mol[s]))
  BY <1>2, MisreadIsUnsound
<1>3. CASE ~DividesByZero(q.mol[s]) /\ r \notin Misread(q, LengthsRead(q.mol[s]), Divisor(q.mol[s]))
  <2> DEFINE m == q.mol[s]
             At(i) == [m EXCEPT !.current = i]
  <2>1. PICK i \in Positions(m) : \/ r = Success(Put(q, s, At(i)), s)
                                  \/ r = Failure(Put(q, s, At(i)), s)
    BY <1>3 DEF Begin
  <2>2. /\ m \in Molecule /\ ~Spent(m)
        /\ \A k \in DOMAIN m.atoms : m.atoms[k].molecule = s
    BY <1>3, MoleculeType
  <2>3. i \in 1 .. Len(m.atoms) /\ i \in Nat \ {0}
    BY <2>1, <2>2, PositionsType
  <2>4. /\ At(i) \in Molecule
        /\ At(i).atoms = m.atoms
        /\ At(i).priority = m.priority
        /\ At(i).current = i
    <3> HIDE DEF m
    <3> QED BY <2>2, <2>3 DEF Molecule
  <2> DEFINE t == Put(q, s, At(i))
  <2>5. \A k \in DOMAIN At(i).atoms : At(i).atoms[k].molecule = s
    BY <2>2, <2>4
  <2> HIDE DEF At
  <2>6. Consistent(t)
    BY <2>4, <2>5, PutKeeps
  <2>7. /\ Kept(q, t) /\ Queued(t) = Queued(q)
        /\ t.mol = [q.mol EXCEPT ![s] = At(i)]
    BY <2>4, PutFrame
  <2>8. t.mol[s] = At(i) /\ Alike(q, t)
    <3>1. \A x \in Queued(q) : /\ t.mol[x].priority = q.mol[x].priority
                               /\ t.mol[x].atoms = q.mol[x].atoms
      BY <2>4, <2>7 DEF Queued
    <3>2. t.mol[s] = At(i)
      BY <2>7 DEF Queued
    <3> QED BY <2>7, <3>1, <3>2 DEF Alike, Kept
  <2>9. (s \in NextUp(q) <=> s \in NextUp(t)) /\ s \in Queued(t)
    BY <2>7, <2>8, AlikePlayable
  <2>10. IsActive(t.mol[s])
    <3> HIDE DEF t, m
    <3> QED BY <2>3, <2>4, <2>8 DEF IsActive
  <2> HIDE DEF t, m
  <2>11. Kept(t, r) /\ (Sound(r) /\ s \in NextUp(t) => Due(r))
    BY <2>1, <2>6, <2>9, <2>10, SuccessIsDue, FailureFrame DEF t
  <2> QED BY <2>7, <2>9, <2>11, KeptTransitive
<1> QED BY <1>1, <1>2, <1>3

LEMMA ProceedIsDue ==
    ASSUME NEW q, Consistent(q), NEW r \in Proceed(q)
    PROVE  Kept(q, r) /\ (Sound(r) => Due(r))
<1> DEFINE D == {s \in Playable(q) :
                   \A t \in Playable(q) : t = s \/ Before(q, t, s) => Spent(q.mol[t])}
<1>1. PICK x \in Finish(q, D) : IF NextUp(x) = {} THEN r \in {x}
                                ELSE r \in UNION {Begin(x, s) : s \in NextUp(x)}
  BY DEF Proceed
<1>2. /\ Consistent(x) /\ Kept(q, x) /\ x.active = Null
      /\ x.mol = [s \in Queued(q) \ D |-> q.mol[s]]
      /\ Queued(x) = Queued(q) \ D
  <2>1. D \in SUBSET Queued(q)
    BY DEF Playable
  <2> HIDE DEF D
  <2> QED BY <1>1, <2>1, FinishKeeps, FinishFrame
<1>3. CASE NextUp(x) = {}
  BY <1>1, <1>2, <1>3, NextUpExists DEF Due
<1>4. CASE NextUp(x) # {}
  <2>1. PICK s \in NextUp(x) : r \in Begin(x, s)
    BY <1>1, <1>4
  <2>2. /\ s \in Playable(q) /\ s \notin D /\ s \in Queued(x)
        /\ x.mol[s] = q.mol[s]
    BY <1>2, <2>1 DEF NextUp, Playable
  <2>3. PICK t \in Playable(q) : (t = s \/ Before(q, t, s)) /\ ~Spent(q.mol[t])
    BY <2>2
  <2>4. ~Spent(x.mol[s])
    <3>1. CASE t = s
      BY <2>2, <2>3, <3>1
    <3>2. CASE t # s
      <4>1. t \notin D
        BY <2>3
      <4>2. t \in Playable(x) /\ x.mol[t] = q.mol[t]
        BY <1>2, <2>3, <4>1 DEF Playable
      <4>3. Before(x, s, t)
        BY <2>1, <3>2, <4>2 DEF NextUp
      <4>4. Before(q, s, t)
        BY <2>2, <4>2, <4>3 DEF Before
      <4> QED BY <2>2, <2>3, <3>2, <4>4, BeforeAsymmetric DEF Playable
    <3> QED BY <3>1, <3>2
  <2> QED BY <1>2, <2>1, <2>2, <2>4, BeginIsDue, KeptTransitive
<1> QED BY <1>3, <1>4

LEMMA SettleIsDue ==
    ASSUME NEW q, Consistent(q), NEW s \in Queued(q), NEW r \in Settle(q, s)
    PROVE  Kept(q, r) /\ (Sound(r) /\ s \in NextUp(q) => Due(r))
<1>1. CASE DividesByZero(q.mol[s]) \/ ~Spent(q.mol[s])
  BY <1>1, BeginIsDue DEF Settle
<1>2. CASE ~(DividesByZero(q.mol[s]) \/ ~Spent(q.mol[s]))
  <2>1. PICK x \in Finish(q, {s}) : r \in Proceed(x)
    BY <1>2 DEF Settle
  <2>2. Consistent(x) /\ Kept(q, x)
    BY <2>1, FinishKeeps, FinishFrame
  <2> QED BY <2>1, <2>2, ProceedIsDue, KeptTransitive
<1> QED BY <1>1, <1>2

\* Where the molecule of _active stands, if the queue is ready.
LEMMA ActiveOfReady ==
    ASSUME NEW q, Consistent(q), Apart(q), Ready(q), Sound(q), q.active # Null
    PROVE  ActiveOnes(q) = {q.pin} /\ q.pin \in Playable(q) /\ ~Dangling(q)
<1>1. q.pin \in Playable(q) /\ q.active = Address(q, q.pin)
  BY DEF Ready
<1>2. ActiveOnes(q) = {q.pin}
  BY <1>1, TargetOfAddress DEF ActiveOnes, Playable
<1> QED
  BY <1>1, <1>2 DEF Dangling

\* The erasure of another priority's molecule moves nobody else.
LEMMA ErasedElsewhere ==
    ASSUME NEW q, NEW r, NEW d, NEW c \in Queued(q),
           r.mol = [s \in Queued(q) \ {d} |-> q.mol[s]],
           r.buffer = q.buffer,
           q.mol[c].priority # q.mol[d].priority
    PROVE  Address(r, c) = Address(q, c)
<1>1. Queued(r) = Queued(q) \ {d} /\ c # d
  BY DEF Queued
<1>2. Vector(r, r.mol[c].priority) = Vector(q, q.mol[c].priority)
  BY <1>1 DEF Vector
<1> QED
  BY <1>1, <1>2 DEF Address, Slot

LEMMA NextUpRemains ==
    ASSUME NEW q, NEW r, NEW d, NEW c \in NextUp(q), c # d,
           r.mol = [s \in Queued(q) \ {d} |-> q.mol[s]]
    PROVE  c \in NextUp(r)
<1>1. Queued(r) = Queued(q) \ {d}
  BY DEF Queued
<1>2. Playable(r) = Playable(q) \ {d} /\ c \in Playable(r)
  BY <1>1 DEF Playable, NextUp
<1>3. \A t \in Playable(r) \ {c} : Before(r, c, t)
  <2>1. TAKE t \in Playable(r) \ {c}
  <2>2. Before(q, c, t) BY <1>2 DEF NextUp
  <2>3. r.mol[t] = q.mol[t] /\ r.mol[c] = q.mol[c] BY <1>1, <1>2 DEF Playable
  <2> QED BY <2>2, <2>3 DEF Before
<1> QED
  BY <1>2, <1>3 DEF NextUp

\* After `if (_active)' the iterator still points to the molecule that is due.
LEMMA LeaveKeepsNextUp ==
    ASSUME NEW q, Consistent(q), Apart(q), Ready(q), NEW c \in NextUp(q), NEW reason,
           NEW r \in Leave(q, c, reason)
    PROVE  /\ Kept(q, r)
           /\ Sound(r) => c \in NextUp(r) /\ Address(r, c) = Address(q, c)
<1> DEFINE m == q.mol[c]
           discarded == {s \in ActiveOnes(q) \ {c} : "discard" \in q.mol[s].mode}
           Moved(i, b) == Put(q, c, [m EXCEPT !.current = i, !.stopped = b])
<1>0. c \in Playable(q) /\ c \in Queued(q)
  BY DEF NextUp, Playable
<1>1. CASE r = q
  BY <1>1, KeptReflexive
<1>2. CASE r = Undefined(q) \/ r \in Misread(q, Sounds(m), {})
  BY <1>2, UndefinedIsUnsound, MisreadIsUnsound
<1>3. ASSUME NEW i \in Nat \ {0}, NEW b \in BOOLEAN, r = Moved(i, b)
      PROVE  /\ Kept(q, r)
             /\ c \in NextUp(r) /\ Address(r, c) = Address(q, c)
  <2> DEFINE n == [m EXCEPT !.current = i, !.stopped = b]
  <2>1. n \in Molecule /\ n.atoms = m.atoms /\ n.priority = m.priority
    <3>1. m \in Molecule BY <1>0, MoleculeType
    <3> HIDE DEF m
    <3> QED BY <3>1 DEF Molecule
  <2> HIDE DEF n
  <2>2. r = Put(q, c, n)
    BY <1>3 DEF n
  <2>3. Kept(q, r) /\ r.mol = [q.mol EXCEPT ![c] = n] /\ Queued(r) = Queued(q)
    BY <1>0, <2>1, <2>2, PutFrame
  <2>4. Alike(q, r)
    <3>1. \A x \in Queued(q) : /\ r.mol[x].priority = q.mol[x].priority
                               /\ r.mol[x].atoms = q.mol[x].atoms
      BY <2>1, <2>3 DEF Queued
    <3> QED BY <2>3, <3>1 DEF Alike, Kept
  <2> QED BY <1>0, <2>3, <2>4, AlikePlayable, AlikeAddress
<1>4. CASE q.active # Null /\ Dangling(q)
  <2>1. ~Sound(q)
    BY <1>4, ActiveOfReady
  <2>2. CASE r = [Idle(q) EXCEPT !.done = Idle(q).done \cup {[id |-> NoId, token |-> NoId]}]
    <3> DEFINE d == Idle(q)
    <3>1. Consistent(d) /\ Kept(q, d)
      BY IdleKeeps, IdleFrame
    <3>2. r = [d EXCEPT !.done = d.done \cup {[id |-> NoId, token |-> NoId]}]
      BY <2>2
    <3> HIDE DEF d
    <3>3. /\ r.mol = d.mol /\ r.buffer = d.buffer /\ r.capacity = d.capacity
          /\ r.crashed = d.crashed /\ r.faults = d.faults
      BY <3>1, <3>2 DEF Consistent, IsSession, Session
    <3>4. Kept(q, r)
      BY <3>1, <3>3, SameMolecules, KeptTransitive
    <3> QED BY <2>1, <3>4 DEF Kept
  <2>3. \/ r = q \/ r = Undefined(q)
        \/ r = [Idle(q) EXCEPT !.done = Idle(q).done \cup {[id |-> NoId, token |-> NoId]}]
    BY <1>4 DEF Leave
  <2> QED BY <1>1, <1>2, <2>2, <2>3
<1>5. CASE q.active # Null /\ ~Dangling(q) /\ discarded # {}
  <2>1. r \in Finish(q, discarded)
    BY <1>5 DEF Leave
  <2>2. discarded \in SUBSET Queued(q)
    BY DEF ActiveOnes, Target
  <2>3. /\ Consistent(r) /\ Kept(q, r)
        /\ r.mol = [s \in Queued(q) \ discarded |-> q.mol[s]]
    <3> HIDE DEF discarded
    <3> QED BY <2>1, <2>2, FinishKeeps, FinishFrame
  <2>4. ASSUME Sound(r)
        PROVE  c \in NextUp(r) /\ Address(r, c) = Address(q, c)
    <3>1. Sound(q)
      BY <2>3, <2>4 DEF Kept
    <3>2. ActiveOnes(q) = {q.pin} /\ q.pin \in Playable(q)
      BY <1>5, <3>1, ActiveOfReady
    <3>3. discarded = {q.pin} /\ q.pin # c
      BY <1>5, <3>2
    <3>4. q.mol[c].priority # q.mol[q.pin].priority
      <4>1. Before(q, c, q.pin)
        BY <3>2, <3>3 DEF NextUp
      <4>2. q.mol[c].priority = q.mol[q.pin].priority => q.pin < c
        BY <1>0, <1>5, <3>1, <3>3 DEF Ready
      <4>3. c \in Int /\ q.pin \in Int /\ q.mol[c].priority \in Int /\ q.mol[q.pin].priority \in Int
        BY <1>0, <3>2, MoleculeType, PrioritiesAssumption, BoundsAssumption
        DEF Playable, Molecule, Priorities, Serials
      <4> QED BY <4>1, <4>2, <4>3 DEF Before
    <3> HIDE DEF discarded
    <3>5. r.mol = [s \in Queued(q) \ {q.pin} |-> q.mol[s]] /\ r.buffer = q.buffer
      BY <2>3, <3>3 DEF Kept
    <3>6. c \in NextUp(r)
      BY <3>3, <3>5, NextUpRemains
    <3>7. Address(r, c) = Address(q, c)
      BY <1>0, <3>4, <3>5, ErasedElsewhere
    <3> QED BY <3>6, <3>7
  <2> QED BY <2>3, <2>4
<1>6. m \in Molecule /\ m.current + 1 \in Nat \ {0}
  BY <1>0, MoleculeType DEF Molecule
<1>7. CASE q.active = Null \/ (~Dangling(q) /\ discarded = {})
  <2>1. \/ r = q
        \/ r = Moved(m.current + 1, m.stopped \/ m.current + 1 > Len(m.atoms))
        \/ \E i \in Seekable(m) \cup {m.current} : r = Moved(i, TRUE)
        \/ r \in Misread(q, Sounds(m), {})
    BY <1>7 DEF Leave
  <2>2. CASE r = Moved(m.current + 1, m.stopped \/ m.current + 1 > Len(m.atoms))
    <3>1. (m.stopped \/ m.current + 1 > Len(m.atoms)) \in BOOLEAN
      BY Zenon
    <3> QED BY <1>3, <1>6, <2>2, <3>1
  <2>3. CASE \E i \in Seekable(m) \cup {m.current} : r = Moved(i, TRUE)
    <3>1. PICK i \in Seekable(m) \cup {m.current} : r = Moved(i, TRUE)
      BY <2>3
    <3>2. i \in Nat \ {0}
      BY <1>6, PositionsType DEF Molecule
    <3> HIDE DEF Moved
    <3> QED BY <1>3, <3>1, <3>2
  <2> QED BY <1>1, <1>2, <2>1, <2>2, <2>3
<1> QED BY <1>4, <1>5, <1>7

\* Whenever schedule was called with a queue in step, the molecule that is
\* due is active afterwards.
LEMMA ScheduleIsDue ==
    ASSUME NEW q, Consistent(q), Apart(q), Ready(q), NEW reason,
           NEW r \in Schedule(q, reason)
    PROVE  Kept(q, r) /\ (Sound(r) => Due(r))
<1>1. CASE NextUp(q) = {}
  <2>1. r = Idle(q)
    BY <1>1 DEF Schedule
  <2>2. Playable(r) = {}
    BY <1>1, <2>1, NextUpExists, IdleKeeps DEF Playable, Queued
  <2> QED BY <2>1, <2>2, IdleKeeps, IdleFrame DEF Due
<1>2. CASE NextUp(q) # {}
  <2>0. PICK c \in NextUp(q) : \E x \in Leave(q, c, reason) :
            r \in IF x.crashed \/ Target(x, Address(q, c)) = {} THEN {Undefined(x)}
                  ELSE UNION {Settle(x, s) : s \in Target(x, Address(q, c))}
    BY <1>2 DEF Schedule
  <2>1. PICK x \in Leave(q, c, reason) :
            r \in IF x.crashed \/ Target(x, Address(q, c)) = {} THEN {Undefined(x)}
                  ELSE UNION {Settle(x, s) : s \in Target(x, Address(q, c))}
    BY <2>0
  <2>2. /\ Consistent(x) /\ Kept(q, x) /\ Apart(x)
        /\ Sound(x) => c \in NextUp(x) /\ Address(x, c) = Address(q, c)
    BY LeaveKeeps, LeaveKeepsNextUp, KeptApart DEF NextUp, Playable
  <2>3. CASE r = Undefined(x)
    BY <2>2, <2>3, UndefinedIsUnsound, KeptTransitive
  <2>4. ASSUME NEW s \in Target(x, Address(q, c)), r \in Settle(x, s)
        PROVE  Kept(q, r) /\ (Sound(r) => Due(r))
    <3>1. CASE Sound(x)
      <4>1. s = c
        BY <2>2, <2>4, <3>1, TargetOfAddress DEF NextUp, Playable
      <4>2. c \in Queued(x)
        BY <2>2, <3>1 DEF NextUp, Playable
      <4> QED BY <2>2, <2>4, <3>1, <4>1, <4>2, SettleIsDue, KeptTransitive
    <3>2. CASE ~Sound(x)
      <4>1. Kept(x, r)
        BY <2>2, <2>4, SettleIsDue DEF Target
      <4> QED BY <2>2, <3>2, <4>1, KeptTransitive DEF Kept
    <3> QED BY <3>1, <3>2
  <2> QED BY <2>1, <2>3, <2>4
<1> QED BY <1>1, <1>2

-----------------------------------------------------------------------------
(* The commands and events.                                                *)

\* The inductive invariant.
Steady(q) == Consistent(q) /\ Apart(q) /\ (Sound(q) => Due(q))

\* r differs from q in nothing that decides which molecule is due or active.
Mirrors(q, r) == /\ Kept(q, r)
                 /\ Alike(q, r)
                 /\ r.active = q.active
                 /\ r.pin = q.pin

LEMMA MirrorSteady ==
    ASSUME NEW q, NEW r, Mirrors(q, r), Steady(q), Consistent(r)
    PROVE  Steady(r)
<1>1. Apart(r) /\ Playable(r) = Playable(q)
  BY KeptApart, AlikePlayable DEF Mirrors, Steady
<1>2. ASSUME Sound(r)
      PROVE  Due(r)
  <2>1. Due(q)
    BY <1>2 DEF Mirrors, Kept, Steady
  <2>2. CASE q.active = Null
    BY <1>1, <2>1, <2>2 DEF Due, Mirrors, Kept
  <2>3. CASE q.active # Null
    <3>1. q.pin \in Playable(q) /\ q.active = Address(q, q.pin)
      BY <2>1, <2>3 DEF Due
    <3>2. Playable(q) \subseteq Queued(q)
      BY DEF Playable
    <3>3. Address(r, q.pin) = Address(q, q.pin)
      BY <3>1, <3>2, AlikeAddress DEF Mirrors
    <3>4. \A t \in Playable(q) \ {q.pin} : Before(r, q.pin, t)
      BY <2>1, <2>3, <3>1, <3>2, AlikePlayable DEF Due, Mirrors
    <3> QED BY <1>1, <2>3, <3>1, <3>3, <3>4 DEF Due, Mirrors
  <2> QED BY <2>2, <2>3
<1> QED
  BY <1>1, <1>2 DEF Steady

LEMMA SteadyReady ==
    ASSUME NEW q, Steady(q)
    PROVE  Ready(q)
<1> SUFFICES ASSUME Sound(q), q.active # Null
             PROVE  /\ q.pin \in Playable(q)
                    /\ q.active = Address(q, q.pin)
                    /\ \A s \in Playable(q) \ {q.pin} :
                          q.mol[s].priority = q.mol[q.pin].priority => q.pin < s
  BY DEF Ready
<1>1. /\ q.pin \in Playable(q)
      /\ q.active = Address(q, q.pin)
      /\ \A s \in Playable(q) \ {q.pin} : Before(q, q.pin, s)
  BY DEF Steady, Due
<1>2. \A s \in Playable(q) : q.mol[s].priority \in Int
  BY MoleculeType, PrioritiesAssumption DEF Steady, Playable, Molecule, Priorities
<1> QED
  BY <1>1, <1>2 DEF Before

\* What schedule makes of a steady queue is steady.
LEMMA ScheduleSteady ==
    ASSUME NEW q, Consistent(q), Apart(q), Ready(q), NEW reason,
           NEW r \in Schedule(q, reason)
    PROVE  Steady(r) /\ Kept(q, r)
BY ScheduleKeeps, ScheduleIsDue, KeptApart DEF Steady

LEMMA UndefinedSteady ==
    ASSUME NEW q, Steady(q)
    PROVE  Steady(Undefined(q)) /\ Kept(q, Undefined(q))
BY UndefinedKeeps, UndefinedIsUnsound, KeptApart DEF Steady

LEMMA WildSteady ==
    ASSUME NEW q, Steady(q)
    PROVE  Steady(Wild(q)) /\ Kept(q, Wild(q))
BY WildKeeps, WildIsUnsound, KeptApart DEF Steady

LEMMA SameMirrors ==
    ASSUME NEW q, NEW r, r.mol = q.mol, r.buffer = q.buffer, r.capacity = q.capacity,
           r.crashed = q.crashed, r.faults = q.faults, r.active = q.active, r.pin = q.pin
    PROVE  Mirrors(q, r)
BY SameMolecules, SameMoleculesAlike DEF Mirrors

LEMMA MirrorsTransitive ==
    ASSUME NEW q, NEW r, NEW x, Mirrors(q, r), Mirrors(r, x)
    PROVE  Mirrors(q, x)
BY KeptTransitive DEF Mirrors, Alike

LEMMA RunningMirrors ==
    ASSUME Steady(session), NEW q \in Running
    PROVE  Steady(q) /\ Mirrors(session, q)
<1>1. /\ q.mol = session.mol /\ q.buffer = session.buffer /\ q.capacity = session.capacity
      /\ q.crashed = session.crashed /\ q.faults = session.faults
      /\ q.active = session.active /\ q.pin = session.pin
  BY DEF Running, Steady, Consistent, IsSession, Session
<1>2. Consistent(q)
  BY RunningKeeps DEF Steady
<1> QED
  BY <1>1, <1>2, SameMirrors, MirrorSteady

LEMMA StopRecordsMirrors ==
    ASSUME NEW q, Consistent(q), NEW A
    PROVE  Mirrors(q, StopRecords(q, A))
BY StopRecordsKeeps, StopRecordsFrame, SameMoleculesAlike DEF Mirrors, Kept

LEMMA TouchMirrors ==
    ASSUME NEW q, Consistent(q)
    PROVE  Mirrors(q, Touch(q))
<1> DEFINE mol == [s \in Queued(q) |-> IF s \in ActiveOnes(q)
                                       THEN [q.mol[s] EXCEPT !.stopped = TRUE]
                                       ELSE q.mol[s]]
           r == Touch(q)
<1>1. ASSUME NEW s \in Queued(q)
      PROVE  mol[s].atoms = q.mol[s].atoms /\ mol[s].priority = q.mol[s].priority
  <2> DEFINE m == q.mol[s]
  <2>1. m \in Molecule
    BY MoleculeType
  <2>2. mol[s] = m \/ mol[s] = [m EXCEPT !.stopped = TRUE]
    OBVIOUS
  <2> HIDE DEF m, mol
  <2>3. mol[s].atoms = m.atoms /\ mol[s].priority = m.priority
    BY <2>1, <2>2 DEF Molecule
  <2> QED BY <2>3 DEF m
<1>2. DOMAIN mol = Queued(q)
  OBVIOUS
<1>3. r = [q EXCEPT !.mol = mol]
  BY DEF Touch
<1> HIDE DEF mol, r
<1>4. /\ r.mol = mol /\ r.buffer = q.buffer /\ r.capacity = q.capacity
      /\ r.crashed = q.crashed /\ r.faults = q.faults
      /\ r.active = q.active /\ r.pin = q.pin
  BY <1>3 DEF Consistent, IsSession, Session
<1>5. Alike(q, r)
  BY <1>1, <1>2, <1>4 DEF Alike, Queued
<1>6. Kept(q, r)
  BY <1>1, <1>2, <1>4 DEF Kept, Fewer, Queued, Sound
<1> QED
  BY <1>4, <1>5, <1>6 DEF Mirrors, r

\* An end of the current atom of a steady queue.
LEMMA EndSteady ==
    ASSUME NEW q, Steady(q), NEW r, Mirrors(q, r), Consistent(r), NEW reason,
           session' \in Schedule(r, reason)
    PROVE  Steady(session') /\ Kept(q, session')
<1>1. Steady(r)
  BY MirrorSteady
<1>2. Steady(session') /\ Kept(r, session')
  BY <1>1, SteadyReady, ScheduleSteady DEF Steady
<1> QED
  BY <1>2, KeptTransitive DEF Mirrors

LEMMA EndOfFileSteady ==
    ASSUME Steady(session), EndOfFile
    PROVE  Steady(session') /\ Kept(session, session')
<1>1. PICK q \in Running :
         LET r == [q EXCEPT !.source = {}]
         IN  session' = r \/ session' \in Schedule(Touch(r), "eof")
  BY DEF EndOfFile
<1> DEFINE r == [q EXCEPT !.source = {}]
<1>2. Steady(q) /\ Mirrors(session, q)
  BY RunningMirrors
<1>3. Consistent(r)
  BY <1>2 DEF Steady, Consistent, IsSession, Session, Queued
<1>4. Mirrors(q, r)
  <2>1. /\ r.mol = q.mol /\ r.buffer = q.buffer /\ r.capacity = q.capacity
        /\ r.crashed = q.crashed /\ r.faults = q.faults
        /\ r.active = q.active /\ r.pin = q.pin
    BY <1>2 DEF Steady, Consistent, IsSession, Session
  <2> HIDE DEF r
  <2> QED BY <2>1, SameMirrors
<1>5. session' = r \/ session' \in Schedule(Touch(r), "eof")
  BY <1>1
<1> HIDE DEF r
<1>6. Mirrors(session, r) /\ Mirrors(session, Touch(r))
  BY <1>2, <1>3, <1>4, TouchMirrors, MirrorsTransitive
<1>7. CASE session' = r
  BY <1>3, <1>6, <1>7, MirrorSteady DEF Mirrors
<1>8. CASE session' \in Schedule(Touch(r), "eof")
  BY <1>3, <1>6, <1>8, TouchKeeps, EndSteady
<1> QED BY <1>5, <1>7, <1>8

LEMMA DtmfBeginSteady ==
    ASSUME Steady(session), DtmfBegin
    PROVE  Steady(session') /\ Kept(session, session')
<1>1. PICK q \in Running :
         \/ \E a \in ActiveRecords(q) : session' \in Schedule(StopRecords(q, {a}), "eof")
         \/ session' = Undefined(q)
  BY DEF DtmfBegin
<1>2. Steady(q) /\ Mirrors(session, q) /\ Consistent(q)
  BY RunningMirrors DEF Steady
<1>3. CASE session' = Undefined(q)
  BY <1>2, <1>3, UndefinedSteady, KeptTransitive DEF Mirrors
<1>4. ASSUME NEW a, session' \in Schedule(StopRecords(q, {a}), "eof")
      PROVE  Steady(session') /\ Kept(session, session')
  <2>1. Consistent(StopRecords(q, {a})) /\ Mirrors(session, StopRecords(q, {a}))
    BY <1>2, StopRecordsKeeps, StopRecordsMirrors, MirrorsTransitive
  <2> QED BY <1>4, <2>1, EndSteady
<1> QED BY <1>1, <1>3, <1>4

LEMMA VoiceActivitySteady ==
    ASSUME Steady(session), NEW on \in BOOLEAN, VoiceActivity(on)
    PROVE  Steady(session') /\ Kept(session, session')
<1>1. PICK q \in Running : \E timers :
         \/ session' = [q EXCEPT !.vad = on, !.timers = timers]
         \/ session' = Undefined(q)
  BY DEF VoiceActivity
<1>2. Steady(q) /\ Mirrors(session, q) /\ Consistent(q)
  BY RunningMirrors DEF Steady
<1>3. CASE session' = Undefined(q)
  BY <1>2, <1>3, UndefinedSteady, KeptTransitive DEF Mirrors
<1>4. ASSUME NEW timers, session' = [q EXCEPT !.vad = on, !.timers = timers]
      PROVE  Steady(session') /\ Kept(session, session')
  <2> DEFINE r == [q EXCEPT !.vad = on, !.timers = timers]
  <2>1. /\ r.mol = q.mol /\ r.buffer = q.buffer /\ r.capacity = q.capacity
        /\ r.crashed = q.crashed /\ r.faults = q.faults
        /\ r.active = q.active /\ r.pin = q.pin
    BY <1>2 DEF Steady, Consistent, IsSession, Session
  <2>2. Consistent(session')
    BY VoiceActivityKeeps DEF Steady
  <2>3. session' = r
    BY <1>4
  <2> HIDE DEF r
  <2>4. Mirrors(session, r)
    BY <1>2, <2>1, SameMirrors, MirrorsTransitive
  <2> QED BY <2>2, <2>3, <2>4, MirrorSteady DEF Mirrors
<1> QED BY <1>1, <1>3, <1>4

LEMMA RecordTimerSteady ==
    ASSUME Steady(session), NEW t, RecordTimer(t)
    PROVE  Steady(session') /\ Kept(session, session')
<1>1. PICK q \in Running :
         LET r == [q EXCEPT !.timers = q.timers \ {t}]
         IN  \/ session' \in Schedule(StopRecords(r, {t.atom}), "eof")
             \/ session' = r
             \/ session' = Undefined(r)
  BY DEF RecordTimer
<1> DEFINE r == [q EXCEPT !.timers = q.timers \ {t}]
<1>2. Steady(q) /\ Mirrors(session, q)
  BY RunningMirrors
<1>3. Consistent(r)
  BY <1>2 DEF Steady, Consistent, IsSession, Session, Queued
<1>4. Mirrors(q, r)
  <2>1. /\ r.mol = q.mol /\ r.buffer = q.buffer /\ r.capacity = q.capacity
        /\ r.crashed = q.crashed /\ r.faults = q.faults
        /\ r.active = q.active /\ r.pin = q.pin
    BY <1>2 DEF Steady, Consistent, IsSession, Session
  <2> HIDE DEF r
  <2> QED BY <2>1, SameMirrors
<1>5. \/ session' \in Schedule(StopRecords(r, {t.atom}), "eof")
      \/ session' = r
      \/ session' = Undefined(r)
  BY <1>1
<1> HIDE DEF r
<1>6. Mirrors(session, r) /\ Steady(r)
  BY <1>2, <1>3, <1>4, MirrorsTransitive, MirrorSteady
<1>7. CASE session' = r
  BY <1>6, <1>7 DEF Mirrors
<1>8. CASE session' = Undefined(r)
  BY <1>6, <1>8, UndefinedSteady, KeptTransitive DEF Mirrors
<1>9. CASE session' \in Schedule(StopRecords(r, {t.atom}), "eof")
  <2>1. Consistent(StopRecords(r, {t.atom})) /\ Mirrors(session, StopRecords(r, {t.atom}))
    BY <1>3, <1>6, StopRecordsKeeps, StopRecordsMirrors, MirrorsTransitive
  <2> QED BY <1>9, <2>1, EndSteady
<1> QED BY <1>5, <1>7, <1>8, <1>9

LEMMA StopAtomFrame ==
    ASSUME NEW q, Consistent(q), NEW a
    PROVE  Kept(q, StopAtom(q, a))
BY StopPlayFrame, StopRecordsFrame DEF StopAtom

\* No molecule is active: schedule has nothing to compare with.
LEMMA NullReady ==
    ASSUME NEW q, q.active = Null
    PROVE  Ready(q)
BY DEF Ready

LEMMA EnqueueUncheckedSteady ==
    ASSUME Steady(session), EnqueueUnchecked
    PROVE  Steady(session') /\ Kept(session, session')
BY RunningMirrors, WildSteady, KeptTransitive DEF EnqueueUnchecked, Mirrors

LEMMA DiscardRangeSteady ==
    ASSUME Steady(session), NEW from, NEW to, DiscardRange(from, to)
    PROVE  Steady(session') /\ Kept(session, session')
<1>1. PICK q \in Running :
         LET live == {s \in ActiveOnes(q) : IsActive(q.mol[s])}
             quiet == IF live = {} THEN q
                      ELSE StopAtom(q, CurrentAtom(q.mol[CHOOSE s \in live : TRUE]))
             r == Destroy(Idle(quiet),
                          {s \in Queued(q) : q.mol[s].priority \in from .. (to - 1)})
         IN  session' \in Schedule(r, "interrupt") \/ session' \in {Undefined(q), Wild(q)}
  BY DEF DiscardRange
<1> DEFINE live == {s \in ActiveOnes(q) : IsActive(q.mol[s])}
           quiet == IF live = {} THEN q
                    ELSE StopAtom(q, CurrentAtom(q.mol[CHOOSE s \in live : TRUE]))
           D == {s \in Queued(q) : q.mol[s].priority \in from .. (to - 1)}
<1>2. Steady(q) /\ Mirrors(session, q) /\ Consistent(q)
  BY RunningMirrors DEF Steady
<1>3. Consistent(quiet) /\ Kept(q, quiet)
  <2>1. CASE live = {}
    BY <1>2, <2>1, KeptReflexive
  <2>2. CASE live # {}
    <3>1. PICK s \in live : s = CHOOSE t \in live : TRUE
      BY <2>2
    <3>2. CurrentAtom(q.mol[s]) \in Atom
      BY <1>2, CurrentAtomType DEF ActiveOnes, Target
    <3> QED BY <1>2, <2>2, <3>1, <3>2, StopAtomKeeps, StopAtomFrame
  <2> QED BY <2>1, <2>2
<1>4. session' \in Schedule(Destroy(Idle(quiet), D), "interrupt") \/ session' \in {Undefined(q), Wild(q)}
  BY <1>1
<1> HIDE DEF quiet, D
<1> DEFINE r == Destroy(Idle(quiet), D)
<1>5. Consistent(r) /\ Kept(q, r) /\ r.active = Null
  <2>1. Consistent(Idle(quiet)) /\ Kept(q, Idle(quiet)) /\ Idle(quiet).active = Null
    BY <1>3, IdleKeeps, IdleFrame, KeptTransitive
  <2> QED BY <2>1, DestroyKeeps, DestroyFrame, KeptTransitive
<1>6. session' \in Schedule(r, "interrupt") \/ session' \in {Undefined(q), Wild(q)}
  BY <1>4
<1> HIDE DEF r
<1>7. CASE session' \in Schedule(r, "interrupt")
  <2>1. Apart(r) /\ Ready(r)
    BY <1>2, <1>5, KeptApart, NullReady DEF Steady
  <2>2. Steady(session') /\ Kept(r, session')
    BY <1>5, <1>7, <2>1, ScheduleSteady
  <2> QED BY <1>2, <1>5, <2>2, KeptTransitive DEF Mirrors
<1>8. CASE session' \in {Undefined(q), Wild(q)}
  BY <1>2, <1>8, UndefinedSteady, WildSteady, KeptTransitive DEF Mirrors
<1> QED BY <1>6, <1>7, <1>8

\* A molecule is erased elsewhere: the one that is due stays so, or _active
\* does not point to it any more.
LEMMA EraseSteady ==
    ASSUME NEW q, Steady(q), NEW D,
           Sound(q) /\ q.active # Null => q.pin \notin D
    PROVE  LET gone == Checked(Destroy(q, D))
           IN  Steady(gone) /\ Kept(q, gone)
<1> DEFINE d == Destroy(q, D)
           gone == Checked(d)
<1>1. /\ Consistent(d) /\ Kept(q, d) /\ d.active = q.active /\ d.pin = q.pin
      /\ d.mol = [s \in Queued(q) \ D |-> q.mol[s]] /\ Queued(d) = Queued(q) \ D
  BY DestroyKeeps, DestroyFrame DEF Steady
<1> HIDE DEF d
<1> DEFINE stray == d.active # Null /\ d.pin \notin ActiveOnes(d)
<1>2. gone = Note(d, "stale", stray)
  BY DEF Checked
<1>3. /\ Consistent(gone) /\ gone.mol = d.mol
      /\ Kept(d, gone) /\ gone.active = d.active /\ gone.pin = d.pin
      /\ stray => ~Sound(gone)
  <2> HIDE DEF stray, gone
  <2> QED BY <1>1, <1>2, NoteKeeps, NoteFrame DEF Faults
<1> HIDE DEF gone
<1>4. gone.buffer = d.buffer /\ Apart(gone)
  BY <1>1, <1>3, KeptApart DEF Kept, Steady
<1>5. ASSUME Sound(gone)
      PROVE  Due(gone)
  <2>1. ~stray /\ Due(q) /\ Sound(q)
    BY <1>1, <1>3, <1>5 DEF Kept, Steady
  <2>2. Playable(gone) = Playable(q) \ D /\ \A s \in Playable(gone) : gone.mol[s] = q.mol[s]
    BY <1>1, <1>3 DEF Playable, Queued
  <2>3. CASE q.active = Null
    BY <1>1, <1>3, <2>1, <2>2, <2>3 DEF Due, Kept
  <2>4. CASE q.active # Null
    <3>1. q.pin \in Playable(q) \ D /\ \A s \in Playable(q) \ {q.pin} : Before(q, q.pin, s)
      BY <2>1, <2>4 DEF Due
    <3>2. gone.active = Address(gone, gone.pin)
      <4>1. d.active = Address(d, d.pin)
        BY <1>1, <2>1, <2>4 DEF ActiveOnes, Target
      <4>2. Address(gone, gone.pin) = Address(d, d.pin)
        BY <1>3, <1>4 DEF Address, Slot, Vector, Queued
      <4> QED BY <1>3, <4>1, <4>2
    <3>3. \A s \in Playable(gone) \ {gone.pin} : Before(gone, gone.pin, s)
      BY <1>1, <1>3, <2>2, <3>1 DEF Before
    <3> QED BY <1>1, <1>3, <2>2, <2>4, <3>1, <3>2, <3>3 DEF Due
  <2> QED BY <2>3, <2>4
<1> QED
  BY <1>1, <1>3, <1>4, <1>5, KeptTransitive DEF Steady, gone, d

LEMMA DiscardSteady ==
    ASSUME Steady(session), NEW id, Discard(id)
    PROVE  Steady(session') /\ Kept(session, session')
<1>1. PICK q \in Running :
         \E D \in SUBSET Queued(q) :
            \E r \in IF D \cap ActiveOnes(q) = {} THEN {q} ELSE Finish(q, D \cap ActiveOnes(q)) :
               LET hit  == D \cap ActiveOnes(q)
                   gone == Checked(Destroy(r, D \ hit))
               IN  \/ hit # {} /\ session' \in Schedule(gone, "interrupt")
                   \/ session' = Note(gone, "masked", hit # {})
  BY ZenonT(40) DEF Discard
<1>2. PICK D \in SUBSET Queued(q) :
            \E r \in IF D \cap ActiveOnes(q) = {} THEN {q} ELSE Finish(q, D \cap ActiveOnes(q)) :
               LET hit  == D \cap ActiveOnes(q)
                   gone == Checked(Destroy(r, D \ hit))
               IN  \/ hit # {} /\ session' \in Schedule(gone, "interrupt")
                   \/ session' = Note(gone, "masked", hit # {})
  BY <1>1
<1> DEFINE hit == D \cap ActiveOnes(q)
<1>3. PICK r \in IF hit = {} THEN {q} ELSE Finish(q, hit) :
               LET gone == Checked(Destroy(r, D \ hit))
               IN  \/ hit # {} /\ session' \in Schedule(gone, "interrupt")
                   \/ session' = Note(gone, "masked", hit # {})
  BY <1>2
<1> DEFINE d == Destroy(r, D \ hit)
           gone == Checked(d)
<1>4. Steady(q) /\ Mirrors(session, q) /\ Consistent(q)
  BY RunningMirrors DEF Steady
<1>5. CASE hit = {}
  <2>1. r = q
    BY <1>3, <1>5
  <2>2. ASSUME Sound(q), q.active # Null
        PROVE  q.pin \notin D \ hit
    <3>1. ActiveOnes(q) = {q.pin}
      BY <1>4, <2>2, SteadyReady, ActiveOfReady DEF Steady
    <3> QED BY <1>5, <3>1
  <2>3. Steady(gone) /\ Kept(q, gone)
    <3> HIDE DEF hit
    <3> QED BY <1>4, <2>1, <2>2, EraseSteady
  <2>4. session' = Note(gone, "masked", FALSE)
    BY <1>3, <1>5
  <2> HIDE DEF gone
  <2>5. Note(gone, "masked", FALSE) = gone
    <3>1. [gone EXCEPT !.faults = gone.faults] = gone
      BY <2>3 DEF Steady, Consistent, IsSession, Session
    <3> QED BY <3>1 DEF Note
  <2> QED BY <1>4, <2>3, <2>4, <2>5, KeptTransitive DEF Mirrors
<1>6. CASE hit # {}
  <2>1. Consistent(r) /\ Kept(q, r) /\ r.active = Null
    <3>1. r \in Finish(q, hit) /\ hit \in SUBSET Queued(q)
      BY <1>3, <1>6
    <3> HIDE DEF hit
    <3> QED BY <1>4, <3>1, FinishKeeps, FinishFrame
  <2>2. Consistent(d) /\ Kept(q, d) /\ d.active = Null
    BY <2>1, DestroyKeeps, DestroyFrame, KeptTransitive
  <2> HIDE DEF d
  <2>3. Consistent(gone) /\ Kept(q, gone) /\ gone.active = Null
    <3> DEFINE stray == d.active # Null /\ d.pin \notin ActiveOnes(d)
    <3>1. gone = Note(d, "stale", stray)
      BY DEF Checked
    <3> HIDE DEF gone, stray
    <3> QED BY <2>2, <3>1, NoteKeeps, NoteFrame, KeptTransitive DEF Faults
  <2>4. \/ session' \in Schedule(gone, "interrupt")
        \/ session' = Note(gone, "masked", TRUE)
    BY <1>3, <1>6 DEF d
  <2> HIDE DEF gone
  <2>5. Apart(gone) /\ Ready(gone)
    BY <1>4, <2>3, KeptApart, NullReady DEF Steady
  <2>6. CASE session' \in Schedule(gone, "interrupt")
    <3>1. Steady(session') /\ Kept(gone, session')
      BY <2>3, <2>5, <2>6, ScheduleSteady
    <3> QED BY <1>4, <2>3, <3>1, KeptTransitive DEF Mirrors
  <2>7. CASE session' = Note(gone, "masked", TRUE)
    <3>1. /\ Consistent(session') /\ Kept(gone, session')
          /\ session'.active = Null /\ "masked" \in session'.faults
      BY <2>3, <2>7, NoteKeeps, NoteFrame DEF Faults
    <3> QED BY <1>4, <2>3, <2>5, <3>1, KeptApart, KeptTransitive DEF Mirrors, Steady, Due
  <2> QED BY <2>4, <2>6, <2>7
<1> QED BY <1>5, <1>6

LEMMA MirrorReady ==
    ASSUME NEW q, NEW r, Mirrors(q, r), Ready(q)
    PROVE  Ready(r)
<1> SUFFICES ASSUME Sound(r), r.active # Null
             PROVE  /\ r.pin \in Playable(r)
                    /\ r.active = Address(r, r.pin)
                    /\ \A s \in Playable(r) \ {r.pin} :
                          r.mol[s].priority = r.mol[r.pin].priority => r.pin < s
  BY DEF Ready
<1>1. /\ q.pin \in Playable(q)
      /\ q.active = Address(q, q.pin)
      /\ \A s \in Playable(q) \ {q.pin} :
            q.mol[s].priority = q.mol[q.pin].priority => q.pin < s
  BY DEF Ready, Mirrors, Kept
<1>2. Playable(r) = Playable(q) /\ Playable(q) \subseteq Queued(q)
  BY AlikePlayable DEF Mirrors, Playable
<1>3. Address(r, q.pin) = Address(q, q.pin)
  BY <1>1, <1>2, AlikeAddress DEF Mirrors
<1> QED
  BY <1>1, <1>2, <1>3 DEF Mirrors, Alike

\* A new molecule has the highest serial: the active one still precedes all
\* others of its priority.
LEMMA PushReady ==
    ASSUME NEW q, Steady(q), NEW p \in Priorities, NEW shape \in Shapes,
           NEW id \in MaybeIds, NEW s \in Serials, \A t \in Queued(q) : t < s,
           NEW r \in Push(q, p, shape, id, s)
    PROVE  /\ Consistent(r) /\ Apart(r) /\ Ready(r)
           /\ Queued(r) = Queued(q) \cup {s}
           /\ r.mol[s].priority = p
           /\ \A t \in Queued(q) : r.mol[t] = q.mol[t]
           /\ r.active = q.active /\ r.pin = q.pin
           /\ Sound(r) => Sound(q)
<1> DEFINE n == Cardinality(Vector(q, p))
           m == [priority |-> p, mode |-> shape.mode, id |-> id,
                 atoms |-> [i \in DOMAIN shape.kinds |->
                               [molecule |-> s, index |-> i, kind |-> shape.kinds[i]]],
                 current |-> 1, started |-> FALSE, stopped |-> FALSE]
           mol == [t \in Queued(q) \cup {s} |-> IF t = s THEN m ELSE q.mol[t]]
           x == [q EXCEPT !.mol = mol]
           larger == IF n = 0 THEN 1 ELSE 2 * n
           Moved(b) == [x EXCEPT !.buffer[p] = b, !.capacity[p] = larger]
<1>0. Consistent(r)
  BY PushKeeps DEF Steady
<1>1. /\ Consistent(q) /\ Apart(q) /\ q.capacity \in [Priorities -> Nat]
      /\ q.buffer \in [Priorities -> Buffers \cup {NoBuffer}]
      /\ \A t \in Queued(q) : q.mol[t].priority \in Priorities
      /\ \A t \in Queued(q) : t # s
      /\ n \in Nat
  <2>1. \A t \in Queued(q) : t \in Int /\ s \in Int
    BY MoleculeType, BoundsAssumption DEF Steady, Serials
  <2>2. q.capacity \in [Priorities -> Nat] /\ q.buffer \in [Priorities -> Buffers \cup {NoBuffer}]
    BY DEF Steady, Consistent, IsSession, Session
  <2>3. \A t \in Queued(q) : q.mol[t].priority \in Priorities
    BY MoleculeType DEF Steady, Molecule
  <2>4. n \in Nat
    BY VectorFinite DEF Steady
  <2>5. \A t \in Queued(q) : t # s
    BY <2>1
  <2> HIDE DEF n
  <2> QED BY <2>2, <2>3, <2>4, <2>5 DEF Steady
<1>2. \/ n < q.capacity[p] /\ r = x
      \/ \E b \in Buffers \ {q.buffer[y] : y \in Priorities} : r = Checked(Moved(b))
  BY DEF Push
<1>3. /\ mol[s].priority = p
      /\ \A t \in Queued(q) : mol[t] = q.mol[t]
      /\ DOMAIN mol = Queued(q) \cup {s}
  BY <1>1
<1> HIDE DEF mol, n
<1>4. /\ x.mol = mol /\ x.buffer = q.buffer /\ x.capacity = q.capacity
      /\ x.active = q.active /\ x.pin = q.pin /\ x.crashed = q.crashed
      /\ x.faults = q.faults
  BY <1>1 DEF Consistent, IsSession, Session
<1> DEFINE Frame(y) == /\ y.mol = mol /\ y.active = q.active /\ y.pin = q.pin
                       /\ Sound(y) => Sound(q)
<1>5. ASSUME n < q.capacity[p], r = x
      PROVE  /\ Frame(r) /\ Apart(r)
             /\ q.active # Null /\ Sound(r) =>
                   r.active = Address(r, q.pin) /\ q.pin \in Playable(q)
  <2> HIDE DEF x
  <2>1. Frame(r)
    BY <1>4, <1>5 DEF Sound
  <2>2. Apart(r)
    <3>1. \A t \in Queued(r) : r.capacity[r.mol[t].priority] > 0
      <4>1. TAKE t \in Queued(r)
      <4>2. CASE t = s
        BY <1>1, <1>3, <1>4, <1>5, <4>2
      <4>3. CASE t # s
        BY <1>1, <1>3, <1>4, <1>5, <4>1, <4>3 DEF Apart, Queued
      <4> QED BY <4>2, <4>3
    <3> QED BY <1>1, <1>4, <1>5, <3>1 DEF Apart
  <2>3. ASSUME q.active # Null, Sound(r)
        PROVE  r.active = Address(r, q.pin) /\ q.pin \in Playable(q)
    <3>1. q.pin \in Playable(q) /\ q.active = Address(q, q.pin) /\ q.pin \in Queued(q)
      BY <2>1, <2>3 DEF Steady, Due, Playable
    <3>2. \A t \in Vector(r, q.mol[q.pin].priority) :
             t <= q.pin => t \in Vector(q, q.mol[q.pin].priority)
      <4>1. TAKE t \in Vector(r, q.mol[q.pin].priority)
      <4>2. ASSUME t <= q.pin PROVE t # s
        <5>1. q.pin < s /\ q.pin \in Int /\ s \in Int
          BY <1>1, <3>1, MoleculeType, BoundsAssumption DEF Serials
        <5> QED BY <4>2, <5>1
      <4> QED BY <1>3, <2>1, <4>1, <4>2 DEF Vector, Queued
    <3>3. Vector(q, q.mol[q.pin].priority) \subseteq Vector(r, q.mol[q.pin].priority)
      BY <1>3, <2>1 DEF Vector, Queued
    <3>4. Slot(r, q.pin) = Slot(q, q.pin)
      <4>1. r.mol[q.pin].priority = q.mol[q.pin].priority
        BY <1>3, <2>1, <3>1
      <4>2. {t \in Vector(r, q.mol[q.pin].priority) : t <= q.pin}
            = {t \in Vector(q, q.mol[q.pin].priority) : t <= q.pin}
        BY <3>2, <3>3
      <4> QED BY <4>1, <4>2 DEF Slot
    <3> QED BY <1>3, <1>4, <1>5, <2>1, <3>1, <3>4 DEF Address
  <2> QED BY <2>1, <2>2, <2>3
<1>6. ASSUME NEW b \in Buffers \ {q.buffer[y] : y \in Priorities}, r = Checked(Moved(b))
      PROVE  /\ Frame(r) /\ Apart(r)
             /\ q.active # Null /\ Sound(r) =>
                   r.active = Address(r, q.pin) /\ q.pin \in Playable(q)
  <2> DEFINE y == Moved(b)
  <2>1. /\ y.mol = mol /\ y.active = q.active /\ y.pin = q.pin
        /\ y.crashed = q.crashed /\ y.faults = q.faults
        /\ y.buffer = [q.buffer EXCEPT ![p] = b]
        /\ y.capacity = [q.capacity EXCEPT ![p] = larger]
    BY <1>1 DEF Consistent, IsSession, Session
  <2> DEFINE stray == y.active # Null /\ y.pin \notin ActiveOnes(y)
             faults == IF stray THEN y.faults \cup {"stale"} ELSE y.faults
  <2>2. r = [y EXCEPT !.faults = faults]
    BY <1>6 DEF Checked, Note
  <2>3. "stale" \in faults \/ ~stray
    OBVIOUS
  <2>4. y.faults \subseteq faults
    OBVIOUS
  <2>5. r.mol = y.mol /\ r.active = y.active /\ r.pin = y.pin /\ r.buffer = y.buffer
        /\ r.capacity = y.capacity /\ r.crashed = y.crashed /\ r.faults = faults
    <3>1. DOMAIN y = DOMAIN q
      OBVIOUS
    <3>2. {"mol", "active", "pin", "buffer", "capacity", "crashed", "faults"} \subseteq DOMAIN y
      BY <1>1, <3>1 DEF Consistent, IsSession, Session
    <3> HIDE DEF y, faults
    <3> QED BY <2>2, <3>2
  <2> HIDE DEF y, faults
  <2>6. Frame(r)
    BY <2>1, <2>4, <2>5 DEF Sound
  <2>7. Apart(r)
    <3>1. larger > 0
      BY <1>1
    <3> HIDE DEF larger
    <3>2. \A z \in Priorities : z # p => r.capacity[z] = q.capacity[z] /\ r.buffer[z] = q.buffer[z]
      BY <1>1, <2>1, <2>5
    <3>3. r.capacity[p] > 0 /\ r.buffer[p] = b
      BY <1>1, <2>1, <2>5, <3>1
    <3>4. ASSUME NEW t \in Queued(r)
          PROVE  r.capacity[r.mol[t].priority] > 0
      <4>1. \/ r.mol[t].priority = p
            \/ t \in Queued(q) /\ r.mol[t] = q.mol[t]
        BY <1>3, <2>6, <3>4 DEF Queued
      <4>2. CASE r.mol[t].priority = p
        BY <3>3, <4>2
      <4>3. CASE t \in Queued(q) /\ r.mol[t] = q.mol[t] /\ r.mol[t].priority # p
        BY <1>1, <3>2, <4>3 DEF Apart
      <4> QED BY <4>1, <4>2, <4>3
    <3>5. ASSUME NEW u \in Priorities, NEW v \in Priorities,
                 r.capacity[u] > 0, r.capacity[v] > 0, r.buffer[u] = r.buffer[v]
          PROVE  u = v
      <4>1. CASE u = p \/ v = p
        BY <1>6, <3>2, <3>3, <3>5, <4>1
      <4>2. CASE u # p /\ v # p
        BY <1>1, <3>2, <3>5, <4>2 DEF Apart
      <4> QED BY <4>1, <4>2
    <3> QED BY <3>4, <3>5 DEF Apart
  <2>8. ASSUME q.active # Null, Sound(r)
        PROVE  r.active = Address(r, q.pin) /\ q.pin \in Playable(q)
    <3>1. q.pin \in Playable(q)
      BY <2>6, <2>8 DEF Steady, Due
    <3>2. ~stray
      BY <2>3, <2>5, <2>8 DEF Sound
    <3>3. y.active = Address(y, y.pin)
      BY <2>1, <2>8, <3>2 DEF ActiveOnes, Target
    <3>4. Address(r, q.pin) = Address(y, y.pin)
      BY <2>1, <2>5 DEF Address, Slot, Vector, Queued
    <3> QED BY <2>1, <2>5, <3>1, <3>3, <3>4
  <2> QED BY <2>6, <2>7, <2>8
<1>7. /\ Frame(r) /\ Apart(r)
      /\ q.active # Null /\ Sound(r) =>
            r.active = Address(r, q.pin) /\ q.pin \in Playable(q)
  <2>1. CASE n < q.capacity[p] /\ r = x
    BY <1>5, <2>1
  <2> HIDE DEF Moved, Frame
  <2> QED BY <1>2, <1>6, <2>1
<1>8. Queued(r) = Queued(q) \cup {s} /\ \A t \in Queued(q) : r.mol[t] = q.mol[t]
  BY <1>3, <1>7 DEF Queued
<1>9. Ready(r)
  <2> SUFFICES ASSUME Sound(r), r.active # Null
               PROVE  /\ r.pin \in Playable(r)
                      /\ r.active = Address(r, r.pin)
                      /\ \A t \in Playable(r) \ {r.pin} :
                            r.mol[t].priority = r.mol[r.pin].priority => r.pin < t
    BY DEF Ready
  <2>1. r.pin = q.pin /\ r.active = q.active /\ Sound(q)
    BY <1>7
  <2>2. /\ q.pin \in Playable(q) /\ q.pin \in Queued(q) /\ r.active = Address(r, r.pin)
    BY <1>7, <2>1 DEF Playable
  <2>3. q.pin \in Playable(r)
    BY <1>8, <2>2 DEF Playable
  <2>4. ASSUME NEW t \in Playable(r) \ {r.pin},
               r.mol[t].priority = r.mol[r.pin].priority
        PROVE  r.pin < t
    <3>1. CASE t = s
      BY <2>1, <2>2, <3>1
    <3>2. CASE t # s
      <4>1. t \in Queued(q) /\ r.mol[t] = q.mol[t] /\ r.mol[q.pin] = q.mol[q.pin]
        BY <1>8, <2>2, <2>4, <3>2 DEF Playable
      <4>2. t \in Playable(q) \ {q.pin} /\ q.mol[t].priority = q.mol[q.pin].priority
        BY <2>1, <2>4, <4>1 DEF Playable
      <4> QED BY <2>1, <4>2, SteadyReady DEF Ready
    <3> QED BY <3>1, <3>2
  <2> QED BY <2>1, <2>2, <2>3, <2>4
<1> QED
  BY <1>0, <1>3, <1>7, <1>8, <1>9

\* The serials of the queued molecules are numbers of past commands.
Numbered == \A s \in Queued(session) : s <= count

LEMMA EnqueueSteady ==
    ASSUME Steady(session), count \in 0 .. MaxMolecules, Numbered,
           NEW p \in Priorities, NEW shape \in Shapes, NEW id \in MaybeIds,
           Enqueue(p, shape, id)
    PROVE  Steady(session') /\ Numbered'
<1>1. /\ count' = count + 1 /\ count + 1 \in Serials /\ count \in Nat
  BY BoundsAssumption DEF Enqueue, Serials
<1>2. PICK q \in Running : \E r \in Push(q, p, shape, id, count + 1) :
         \E now \in Preempts(r, p) :
            IF now THEN session' \in Schedule(Touch(r), "interrupt") ELSE session' = r
  BY DEF Enqueue
<1>3. PICK r \in Push(q, p, shape, id, count + 1) :
         \E now \in Preempts(r, p) :
            IF now THEN session' \in Schedule(Touch(r), "interrupt") ELSE session' = r
  BY <1>2
<1>4. Steady(q) /\ Queued(q) = Queued(session)
  BY RunningMirrors DEF Mirrors, Alike
<1>5. \A t \in Queued(q) : t < count + 1 /\ t \in Nat
  BY <1>1, <1>4, MoleculeType, BoundsAssumption DEF Numbered, Serials, Steady
<1>6. /\ Consistent(r) /\ Apart(r) /\ Ready(r)
      /\ Queued(r) = Queued(q) \cup {count + 1}
      /\ r.mol[count + 1].priority = p
      /\ \A t \in Queued(q) : r.mol[t] = q.mol[t]
      /\ r.active = q.active /\ r.pin = q.pin
      /\ Sound(r) => Sound(q)
  BY <1>1, <1>3, <1>4, <1>5, PushReady
<1>7. \A t \in Queued(r) : t <= count + 1
  BY <1>1, <1>5, <1>6
<1>8. CASE session' \in Schedule(Touch(r), "interrupt")
  <2>1. /\ Consistent(Touch(r)) /\ Apart(Touch(r)) /\ Ready(Touch(r))
        /\ Queued(Touch(r)) = Queued(r)
    BY <1>6, TouchKeeps, TouchMirrors, MirrorReady, KeptApart DEF Mirrors, Alike
  <2>2. Steady(session') /\ Queued(session') \subseteq Queued(Touch(r))
    BY <1>8, <2>1, ScheduleSteady DEF Kept, Fewer
  <2> QED BY <1>1, <1>7, <2>1, <2>2 DEF Numbered, Queued
<1>9. CASE session' = r /\ FALSE \in Preempts(r, p)
  <2>1. ASSUME Sound(r)
        PROVE  Due(r)
    <3>1. r.active # Null
      BY <1>9 DEF Preempts
    <3>2. ActiveOnes(r) = {r.pin} /\ r.pin \in Playable(r) /\ ~Dangling(r)
      BY <1>6, <2>1, <3>1, ActiveOfReady
    <3>3. ~(r.mol[r.pin].priority < p)
      BY <1>9, <3>1, <3>2 DEF Preempts
    <3>4. /\ r.active = Address(r, r.pin)
          /\ \A t \in Playable(r) \ {r.pin} :
                r.mol[t].priority = r.mol[r.pin].priority => r.pin < t
      BY <1>6, <2>1, <3>1 DEF Ready
    <3>5. Due(q) /\ r.pin \in Playable(q) /\ Playable(q) \subseteq Queued(q)
      BY <1>4, <1>6, <2>1, <3>1 DEF Steady, Due, Playable
    <3>6. ASSUME NEW t \in Playable(r) \ {r.pin}
          PROVE  Before(r, r.pin, t)
      <4>1. CASE t = count + 1
        <5>1. r.mol[r.pin].priority \in Int /\ p \in Int
          BY <1>6, <3>2, MoleculeType, PrioritiesAssumption DEF Playable, Molecule, Priorities
        <5>2. r.mol[r.pin].priority >= p
          BY <3>3, <5>1
        <5> QED BY <1>6, <3>4, <3>6, <4>1, <5>1, <5>2 DEF Before
      <4>2. CASE t # count + 1
        <5>1. t \in Playable(q) \ {r.pin} /\ r.mol[t] = q.mol[t] /\ r.mol[r.pin] = q.mol[r.pin]
          BY <1>6, <3>5, <3>6, <4>2 DEF Playable
        <5>2. Before(q, r.pin, t)
          BY <1>6, <3>1, <3>5, <5>1 DEF Due
        <5> QED BY <5>1, <5>2 DEF Before
      <4> QED BY <4>1, <4>2
    <3> QED BY <3>1, <3>2, <3>4, <3>6 DEF Due
  <2> QED BY <1>1, <1>6, <1>7, <1>9, <2>1 DEF Steady, Numbered, Queued
<1>10. session' \in Schedule(Touch(r), "interrupt") \/ (session' = r /\ FALSE \in Preempts(r, p))
  <2>1. PICK now \in Preempts(r, p) :
            IF now THEN session' \in Schedule(Touch(r), "interrupt") ELSE session' = r
    BY <1>3
  <2>2. now \in BOOLEAN
    <3>1. Preempts(r, p) \subseteq BOOLEAN
      <4>1. \A x \in ActiveOnes(r) : (r.mol[x].priority < p) \in BOOLEAN
        <5>1. \A x \in ActiveOnes(r) : r.mol[x].priority \in Int /\ p \in Int
          BY <1>6, MoleculeType, PrioritiesAssumption
          DEF ActiveOnes, Target, Molecule, Priorities
        <5> QED BY <5>1
      <4> QED BY <4>1, Zenon DEF Preempts
    <3> QED BY <3>1
  <2>3. CASE now = TRUE
    BY <2>1, <2>3
  <2>4. CASE now = FALSE
    BY <2>1, <2>4
  <2> QED BY <2>2, <2>3, <2>4
<1> QED BY <1>8, <1>9, <1>10

-----------------------------------------------------------------------------
(* The theorem.                                                            *)

QueueIsSteady == Steady(session) /\ count \in 0 .. MaxMolecules /\ Numbered

LEMMA InitIsSteady ==
    ASSUME Init
    PROVE  QueueIsSteady
<1>1. Consistent(session) /\ count \in 0 .. MaxMolecules
  BY InitIsConsistent DEF SessionIsConsistent
<1>2. /\ Queued(session) = {} /\ session.active = Null
      /\ \A p \in Priorities : session.capacity[p] = 0
  BY DEF Init, Queued
<1>3. Apart(session) /\ Due(session) /\ Numbered
  BY <1>2 DEF Apart, Due, Playable, Numbered
<1> QED BY <1>1, <1>3 DEF QueueIsSteady, Steady

LEMMA StepIsSteady ==
    ASSUME QueueIsSteady, [Next]_vars
    PROVE  QueueIsSteady'
<1>1. Steady(session) /\ count \in 0 .. MaxMolecules /\ Numbered
  BY DEF QueueIsSteady
<1>2. count' \in 0 .. MaxMolecules
  BY <1>1, StepKeeps DEF Steady, SessionIsConsistent
<1>3. CASE UNCHANGED vars
  <2>1. session' = session /\ count' = count
    BY <1>3 DEF vars
  <2>2. Steady(session')
    BY <1>1, <2>1
  <2> QED BY <1>1, <2>1, <2>2 DEF QueueIsSteady, Numbered, Steady, Queued
<1>4. ASSUME NEW p \in Priorities, NEW shape \in Shapes, NEW id \in MaybeIds,
             Enqueue(p, shape, id)
      PROVE  Steady(session') /\ Numbered'
  BY <1>1, <1>4, EnqueueSteady
<1>5. ASSUME NEW from \in Accepted, NEW to \in Accepted, DiscardRange(from, to)
      PROVE  Steady(session') /\ Kept(session, session') /\ count' = count
  BY <1>1, <1>5, DiscardRangeSteady DEF DiscardRange
<1>6. ASSUME NEW id \in MaybeIds, Discard(id)
      PROVE  Steady(session') /\ Kept(session, session') /\ count' = count
  BY <1>1, <1>6, DiscardSteady DEF Discard
<1>7. ASSUME EndOfFile
      PROVE  Steady(session') /\ Kept(session, session') /\ count' = count
  BY <1>1, <1>7, EndOfFileSteady DEF EndOfFile
<1>8. ASSUME DtmfBegin
      PROVE  Steady(session') /\ Kept(session, session') /\ count' = count
  BY <1>1, <1>8, DtmfBeginSteady DEF DtmfBegin
<1>9. ASSUME NEW on \in BOOLEAN, VoiceActivity(on)
      PROVE  Steady(session') /\ Kept(session, session') /\ count' = count
  BY <1>1, <1>9, VoiceActivitySteady DEF VoiceActivity
<1>10. ASSUME NEW t \in session.timers, RecordTimer(t)
       PROVE  Steady(session') /\ Kept(session, session') /\ count' = count
  BY <1>1, <1>10, RecordTimerSteady DEF RecordTimer
<1>11. ASSUME Steady(session') /\ Kept(session, session') /\ count' = count
       PROVE  QueueIsSteady'
  <2>1. Numbered'
    BY <1>1, <1>11 DEF Numbered, Kept, Fewer, Queued
  <2>2. Steady(session)'
    BY <1>11
  <2> QED BY <1>2, <2>1, <2>2 DEF QueueIsSteady
<1>12. ASSUME Steady(session') /\ Numbered'
       PROVE  QueueIsSteady'
  <2>2. Steady(session)'
    BY <1>12
  <2> QED BY <1>2, <1>12, <2>2 DEF QueueIsSteady
<1>13. ASSUME EnqueueUnchecked
       PROVE  Steady(session') /\ Kept(session, session') /\ count' = count
  BY <1>1, <1>13, EnqueueUncheckedSteady DEF EnqueueUnchecked
<1> QED
  BY <1>3, <1>4, <1>5, <1>6, <1>7, <1>8, <1>9, <1>10, <1>11, <1>12, <1>13
  DEF Next, Commands, Events

\* A steady queue has the molecule active that is due.
LEMMA SteadyIsDue ==
    ASSUME QueueIsSteady
    PROVE  ActiveIsDue
<1> SUFFICES ASSUME InStep, session.active # Null
             PROVE  /\ session.pin \in ActiveOnes(session) \cap Playable(session)
                    /\ \A s \in Playable(session) \ {session.pin} :
                          LET other == session.mol[s].priority
                              own   == session.mol[session.pin].priority
                          IN  other < own \/ (other = own /\ session.pin < s)
  BY DEF ActiveIsDue, QueueIsSteady, Steady, Due, InStep, Without, Sound
<1>1. Sound(session) /\ Consistent(session)
  BY DEF QueueIsSteady, Steady, InStep, Without, Sound
<1>2. /\ session.pin \in Playable(session) /\ session.active = Address(session, session.pin)
      /\ \A s \in Playable(session) \ {session.pin} : Before(session, session.pin, s)
  BY <1>1 DEF QueueIsSteady, Steady, Due
<1>3. session.pin \in ActiveOnes(session)
  BY <1>2 DEF ActiveOnes, Target, Playable
<1>4. \A s \in Playable(session) : session.mol[s].priority \in Int
  BY <1>1, MoleculeType, PrioritiesAssumption DEF Playable, Molecule, Priorities
<1> QED BY <1>2, <1>3, <1>4 DEF Before

\* Whatever clients and baresip do, as long as nothing put the queue out of
\* step, the earliest molecule of the highest priority is the active one.
THEOREM ActiveStaysDue == Spec => []ActiveIsDue
<1>1. Init => QueueIsSteady
  BY InitIsSteady
<1>2. QueueIsSteady /\ [Next]_vars => QueueIsSteady'
  BY StepIsSteady
<1>3. QueueIsSteady => ActiveIsDue
  BY SteadyIsDue
<1> QED
  BY <1>1, <1>2, <1>3, PTL DEF Spec
=============================================================================
