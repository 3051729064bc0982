---------------------------- MODULE VQueueProofs ----------------------------
(***************************************************************************)
(* Theorems about VQueue, for any number of priorities, molecules, ids and *)
(* shapes.                                                                 *)
(***************************************************************************)
EXTENDS VQueue, FiniteSetTheorems, SequenceTheorems, TLAPS

-----------------------------------------------------------------------------
(* What the helpers preserve.                                              *)

LEMMA CurrentAtomType ==
    ASSUME NEW q, Consistent(q), NEW s \in Queued(q), IsActive(q.mol[s])
    PROVE  /\ CurrentAtom(q.mol[s]) \in Atom
           /\ CurrentAtom(q.mol[s]).molecule = s
<1>1. q.mol[s] \in Molecule
  BY DEF Consistent, IsSession, Session, Queued
<1>2. q.mol[s].atoms \in Seq(Atom) /\ q.mol[s].current \in DOMAIN q.mol[s].atoms
  BY <1>1 DEF Molecule, IsActive
<1> QED
  BY <1>2 DEF CurrentAtom, Consistent

LEMMA NoteKeeps ==
    ASSUME NEW q, Consistent(q), NEW fault \in Faults, NEW if
    PROVE  /\ Consistent(Note(q, fault, if))
           /\ Note(q, fault, if).mol = q.mol
BY DEF Note, Consistent, IsSession, Session, Queued, Faults

LEMMA StopRecordsKeeps ==
    ASSUME NEW q, Consistent(q), NEW A
    PROVE  /\ Consistent(StopRecords(q, A))
           /\ StopRecords(q, A).mol = q.mol
<1> DEFINE stopped == {a \in A \cap q.open : a.kind.type = "record"}
           open    == q.open \ stopped
           player  == IF stopped = {} THEN q.player ELSE {}
           timers  == {t \in q.timers : t.atom \notin stopped}
           r == [q EXCEPT !.open = open, !.timers = timers, !.player = player]
<1>1. /\ open \in SUBSET Atom
      /\ player \in SUBSET Atom
      /\ timers \in SUBSET [atom : Atom, timer : Timers]
  BY DEF Consistent, IsSession, Session
<1>2. /\ \A a \in open : a.molecule \in Queued(q)
      /\ \A a \in player : a \in open /\ a.kind.type = "record"
  BY DEF Consistent
<1>3. Consistent(r) /\ r.mol = q.mol
  <2> HIDE DEF open, player, timers
  <2> QED BY <1>1, <1>2 DEF Consistent, IsSession, Session, Queued
<1>4. StopRecords(q, A) = Note(r, "cut", stopped # {} /\ q.player \ stopped # {})
  BY Zenon DEF StopRecords
<1>5. "cut" \in Faults
  BY DEF Faults
<1> QED
  <2> HIDE DEF r, stopped
  <2> QED BY <1>3, <1>4, <1>5, NoteKeeps

LEMMA StopPlayKeeps ==
    ASSUME NEW q, Consistent(q), NEW a, a.kind.type = "play"
    PROVE  /\ Consistent(StopPlay(q, a))
           /\ StopPlay(q, a).mol = q.mol
BY DEF StopPlay, Consistent, IsSession, Session, Queued

LEMMA StopAtomKeeps ==
    ASSUME NEW q, Consistent(q), NEW a \in Atom
    PROVE  /\ Consistent(StopAtom(q, a))
           /\ StopAtom(q, a).mol = q.mol
BY StopPlayKeeps, StopRecordsKeeps DEF StopAtom

LEMMA DestroyKeeps ==
    ASSUME NEW q, Consistent(q), NEW D
    PROVE  /\ Consistent(Destroy(q, D))
           /\ Destroy(q, D).mol = [s \in Queued(q) \ D |-> q.mol[s]]
           /\ Queued(Destroy(q, D)) = Queued(q) \ D
<1> DEFINE A == {a \in q.open : a.molecule \in D}
           r == StopRecords(q, A)
           mol == [s \in Queued(q) \ D |-> q.mol[s]]
           open == {a \in r.open : a.molecule \notin D}
           d == [r EXCEPT !.mol = mol, !.open = open]
<1>1. Consistent(r) /\ r.mol = q.mol
  BY StopRecordsKeeps
<1>2. Destroy(q, D) = d
  BY <1>1 DEF Destroy, Restrict
<1>3. \A a \in r.player : a.molecule \notin D
  BY DEF StopRecords, Note, Consistent, IsSession, Session
<1>4. mol \in [Queued(q) \ D -> Molecule] /\ Queued(q) \ D \subseteq Serials
  BY DEF Consistent, IsSession, Session, Queued
<1>5. /\ open \in SUBSET Atom
      /\ \A a \in open : a.molecule \in Queued(q) \ D
      /\ \A a \in r.player : a \in open /\ a.kind.type = "record"
  BY <1>1, <1>3 DEF Consistent, IsSession, Session, Queued
<1>6. d.mol = mol /\ Queued(d) = Queued(q) \ D
  BY <1>1 DEF Consistent, IsSession, Session, Queued
<1>7. IsSession(d)
  <2> HIDE DEF mol, open, r
  <2> QED BY <1>1, <1>4, <1>5, <1>6 DEF Consistent, IsSession, Session, Queued
<1>8. d.open = open /\ d.player = r.player
  <2> HIDE DEF mol, open, r
  <2> QED BY <1>1 DEF Consistent, IsSession, Session
<1>9. \A s \in Queued(d) : \A i \in DOMAIN d.mol[s].atoms : d.mol[s].atoms[i].molecule = s
  BY <1>6, ZenonT(40) DEF Consistent
<1> HIDE DEF d, open, mol, r
<1> QED
  BY <1>2, <1>5, <1>6, <1>7, <1>8, <1>9 DEF Consistent, mol

LEMMA IdleKeeps ==
    ASSUME NEW q, Consistent(q)
    PROVE  /\ Consistent(Idle(q))
           /\ Idle(q).mol = q.mol
           /\ Idle(q).active = Null
BY DEF Idle, Consistent, IsSession, Session, Queued, Null, Pointer

LEMMA FinishKeeps ==
    ASSUME NEW q, Consistent(q), NEW D \in SUBSET Queued(q), NEW r \in Finish(q, D)
    PROVE  /\ Consistent(r)
           /\ r.mol = [s \in Queued(q) \ D |-> q.mol[s]]
           /\ Queued(r) = Queued(q) \ D
           /\ r.active = Null
<1> DEFINE d == Idle(Destroy(q, D))
<1>1. /\ Consistent(d) /\ d.active = Null
      /\ d.mol = [s \in Queued(q) \ D |-> q.mol[s]]
  BY DestroyKeeps, IdleKeeps
<1>2. PICK f \in [D -> MaybeIds] :
        r = [d EXCEPT !.done = d.done \cup {[id |-> q.mol[s].id, token |-> f[s]] : s \in D}]
  BY DEF Finish
<1>3. {[id |-> q.mol[s].id, token |-> f[s]] : s \in D} \in SUBSET [id : MaybeIds, token : MaybeIds]
  BY DEF Consistent, IsSession, Session, Queued, Molecule
<1> DEFINE new == {[id |-> q.mol[s].id, token |-> f[s]] : s \in D}
<1> HIDE DEF d, new
<1>4. r = [d EXCEPT !.done = d.done \cup new]
  BY <1>2 DEF new
<1>5. /\ Consistent(r) /\ r.mol = d.mol /\ r.active = d.active
  BY <1>1, <1>3, <1>4 DEF Consistent, IsSession, Session, Queued, new
<1> QED
  BY <1>1, <1>5 DEF Queued

LEMMA StartAtomKeeps ==
    ASSUME NEW q, Consistent(q), NEW a \in Atom, a.molecule \in Queued(q)
    PROVE  /\ Consistent(StartAtom(q, a))
           /\ StartAtom(q, a).mol = q.mol
<1>1. TimersOf(a, q.vad) \in SUBSET [atom : Atom, timer : Timers]
  BY DEF TimersOf
<1>2. CASE a.kind.type = "play"
  BY <1>2 DEF StartAtom, Consistent, IsSession, Session, Queued
<1>3. CASE a.kind.type # "play"
  <2>1. a.kind.type = "record"
    BY <1>3 DEF Atom, Kind
  <2> QED BY <1>1, <1>3, <2>1 DEF StartAtom, Consistent, IsSession, Session, Queued
<1> QED BY <1>2, <1>3

LEMMA FailAtomKeeps ==
    ASSUME NEW q, Consistent(q), NEW a \in Atom
    PROVE  /\ Consistent(FailAtom(q, a))
           /\ FailAtom(q, a).mol = q.mol
BY ZenonT(40) DEF FailAtom, Consistent, IsSession, Session, Queued, Atom, Kind

\* One molecule is changed, its atoms still know it.
LEMMA PutKeeps ==
    ASSUME NEW q, Consistent(q), NEW s \in Queued(q), NEW m \in Molecule,
           \A i \in DOMAIN m.atoms : m.atoms[i].molecule = s
    PROVE  /\ Consistent(Put(q, s, m))
           /\ Put(q, s, m).mol = [q.mol EXCEPT ![s] = m]
           /\ Queued(Put(q, s, m)) = Queued(q)
BY DEF Put, Consistent, IsSession, Session, Queued

LEMMA MoleculeType ==
    ASSUME NEW q, Consistent(q), NEW s \in Queued(q)
    PROVE  /\ q.mol[s] \in Molecule
           /\ \A i \in DOMAIN q.mol[s].atoms : q.mol[s].atoms[i].molecule = s
           /\ s \in Serials
BY DEF Consistent, IsSession, Session, Queued

LEMMA VectorFinite ==
    ASSUME NEW q, Consistent(q), NEW p
    PROVE  /\ IsFiniteSet(Vector(q, p))
           /\ Cardinality(Vector(q, p)) \in Nat
<1>1. IsFiniteSet(Serials)
  BY BoundsAssumption, FS_Interval DEF Serials
<1>2. Vector(q, p) \subseteq Serials
  BY DEF Vector, Consistent, IsSession
<1> QED
  BY <1>1, <1>2, FS_Subset, FS_CardinalityType

LEMMA AddressType ==
    ASSUME NEW q, Consistent(q), NEW s \in Queued(q)
    PROVE  Address(q, s) \in Pointer
<1>1. Slot(q, s) \in Nat
  <2> DEFINE V == Vector(q, q.mol[s].priority)
  <2>1. IsFiniteSet(V) BY VectorFinite
  <2>2. {t \in V : t <= s} \subseteq V OBVIOUS
  <2>3. IsFiniteSet({t \in V : t <= s}) BY <2>1, <2>2, FS_Subset
  <2> QED BY <2>3, FS_CardinalityType DEF Slot
<1>2. q.mol[s].priority \in Priorities
  BY MoleculeType DEF Molecule
<1>3. q.buffer[q.mol[s].priority] \in Buffers \cup {NoBuffer}
  BY <1>2 DEF Consistent, IsSession, Session
<1> QED
  BY <1>1, <1>3 DEF Address, Pointer

LEMMA RemoveAtAtoms ==
    ASSUME NEW S, NEW seq \in Seq(S), NEW i \in 1 .. Len(seq)
    PROVE  /\ RemoveAt(seq, i) \in Seq(S)
           /\ Len(RemoveAt(seq, i)) = Len(seq) - 1
           /\ \A j \in DOMAIN RemoveAt(seq, i) :
                 \E k \in DOMAIN seq : RemoveAt(seq, i)[j] = seq[k]
<1> DEFINE u == SubSeq(seq, 1, i - 1)
           v == SubSeq(seq, i + 1, Len(seq))
<1>1. Len(seq) \in Nat /\ DOMAIN seq = 1 .. Len(seq)
  OBVIOUS
<1>2. /\ u \in Seq(S) /\ Len(u) = i - 1
      /\ \A j \in 1 .. (i - 1) : u[j] = seq[j]
  BY <1>1, SubSeqProperties
<1>3. /\ v \in Seq(S) /\ Len(v) = Len(seq) - i
      /\ \A j \in 1 .. (Len(seq) - i) : v[j] = seq[i + j]
  <2>1. \A k \in (i + 1) .. Len(seq) : seq[k] \in S
    BY <1>1
  <2>2. /\ v \in Seq(S)
        /\ Len(v) = IF i + 1 <= Len(seq) THEN Len(seq) - (i + 1) + 1 ELSE 0
        /\ \A j \in 1 .. (Len(seq) - (i + 1) + 1) : v[j] = seq[(i + 1) + j - 1]
    BY <1>1, <2>1, SubSeqProperties
  <2> HIDE DEF v
  <2>3. ASSUME NEW j \in 1 .. (Len(seq) - i)
        PROVE  v[j] = seq[i + j]
    <3>1. j \in 1 .. (Len(seq) - (i + 1) + 1)
      BY <1>1
    <3>2. v[j] = seq[(i + 1) + j - 1]
      BY <2>2, <3>1, Zenon
    <3>3. (i + 1) + j - 1 = i + j
      BY <1>1
    <3>4. seq[(i + 1) + j - 1] = seq[i + j]
      BY <3>3
    <3> QED BY <3>2, <3>4
  <2>4. Len(v) = Len(seq) - i
    <3>0. i \in Nat /\ Len(seq) \in Nat /\ i <= Len(seq)
      BY <1>1
    <3>1. Len(v) = IF i + 1 <= Len(seq) THEN Len(seq) - (i + 1) + 1 ELSE 0
      BY <2>2
    <3>2. CASE i + 1 <= Len(seq)
      <4>1. Len(v) = Len(seq) - (i + 1) + 1
        BY <3>1, <3>2, Zenon
      <4>2. Len(seq) - (i + 1) + 1 = Len(seq) - i
        BY <1>1
      <4> QED BY <4>1, <4>2, Zenon
    <3>3. CASE ~(i + 1 <= Len(seq))
      <4>1. Len(v) = 0
        BY <3>1, <3>3, Zenon
      <4>2. Len(seq) - i = 0
        BY ONLY <3>0, <3>3
      <4> QED BY <4>1, <4>2, Zenon
    <3> QED BY <3>2, <3>3
  <2> QED BY <2>2, <2>3, <2>4, Zenon
<1>4. RemoveAt(seq, i) = u \o v
  BY DEF RemoveAt
<1> HIDE DEF u, v
<1>5. /\ u \o v \in Seq(S) /\ Len(u \o v) = Len(u) + Len(v)
      /\ \A j \in 1 .. (Len(u) + Len(v)) :
            (u \o v)[j] = IF j <= Len(u) THEN u[j] ELSE v[j - Len(u)]
  BY <1>2, <1>3, ConcatProperties
<1>6. Len(u \o v) = Len(seq) - 1 /\ DOMAIN (u \o v) = 1 .. (Len(seq) - 1)
  <2>1. Len(u \o v) = (i - 1) + (Len(seq) - i)
    BY <1>2, <1>3, <1>5, Zenon
  <2>2. (i - 1) + (Len(seq) - i) = Len(seq) - 1
    BY <1>1
  <2>3. DOMAIN (u \o v) = 1 .. Len(u \o v)
    BY <1>5, LenProperties
  <2> QED BY <2>1, <2>2, <2>3
<1>7. ASSUME NEW j \in 1 .. (Len(seq) - 1)
      PROVE  \E k \in DOMAIN seq : (u \o v)[j] = seq[k]
  <2>1. CASE j <= i - 1
    <3>1. (u \o v)[j] = seq[j] /\ j \in DOMAIN seq
      BY <1>1, <1>2, <1>3, <1>5, <2>1
    <3> QED BY <3>1
  <2>2. CASE j > i - 1
    <3>1. j - (i - 1) \in 1 .. (Len(seq) - i) /\ j + 1 \in DOMAIN seq
      BY <1>1, <2>2
    <3>2. (u \o v)[j] = v[j - (i - 1)]
      BY <1>1, <1>2, <1>3, <1>5, <2>2
    <3>3. v[j - (i - 1)] = seq[i + (j - (i - 1))] /\ i + (j - (i - 1)) = j + 1
      BY <1>1, <1>3, <3>1
    <3>4. v[j - (i - 1)] = seq[j + 1]
      BY <3>3
    <3> QED BY <3>1, <3>2, <3>4
  <2>3. j <= i - 1 \/ j > i - 1
    BY <1>1
  <2> QED BY <2>1, <2>2, <2>3, Zenon
<1> QED
  BY <1>4, <1>5, <1>6, <1>7

\* Only _active and its serial change.
LEMMA PointKeeps ==
    ASSUME NEW q, Consistent(q), NEW p \in Pointer, NEW s \in Serials \cup {0}
    PROVE  /\ Consistent([q EXCEPT !.active = p, !.pin = s])
           /\ [q EXCEPT !.active = p, !.pin = s].mol = q.mol
BY DEF Consistent, IsSession, Session, Queued

-----------------------------------------------------------------------------
(* What schedule preserves.                                                *)

LEMMA SuccessKeeps ==
    ASSUME NEW q, Consistent(q), NEW s \in Queued(q), IsActive(q.mol[s])
    PROVE  Consistent(Success(q, s))
<1> DEFINE m == q.mol[s]
           n == [m EXCEPT !.started = m.started \/ m.current = 1]
           r == StartAtom(q, CurrentAtom(m))
           t == Put(r, s, n)
<1>1. Consistent(r) /\ Queued(r) = Queued(q) /\ r.mol = q.mol
  BY CurrentAtomType, StartAtomKeeps DEF Queued
<1>2. n \in Molecule /\ n.atoms = m.atoms
  BY MoleculeType DEF Molecule
<1>3. Consistent(t)
  <2>1. \A i \in DOMAIN n.atoms : n.atoms[i].molecule = s
    BY <1>2, MoleculeType
  <2> HIDE DEF n, r
  <2> QED BY <1>1, <1>2, <2>1, PutKeeps
<1>4. Address(q, s) \in Pointer /\ s \in Serials \cup {0}
  BY AddressType, MoleculeType
<1>5. Success(q, s) = [t EXCEPT !.active = Address(q, s), !.pin = s]
  BY DEF Success
<1> QED
  <2> HIDE DEF t
  <2>1. Consistent([t EXCEPT !.active = Address(q, s), !.pin = s])
    BY ONLY <1>3, <1>4, PointKeeps
  <2> QED BY <1>5, <2>1

LEMMA FailureKeeps ==
    ASSUME NEW q, Consistent(q), NEW s \in Queued(q), IsActive(q.mol[s])
    PROVE  Consistent(Failure(q, s))
<1> DEFINE m == q.mol[s]
           n == [m EXCEPT !.atoms = RemoveAt(m.atoms, m.current), !.current = m.current + 1]
           r == FailAtom(q, CurrentAtom(m))
<1>1. Consistent(r) /\ Queued(r) = Queued(q)
  BY CurrentAtomType, FailAtomKeeps DEF Queued
<1>2. /\ m \in Molecule /\ m.atoms \in Seq(Atom) /\ m.current \in Nat
      /\ m.current \in 1 .. Len(m.atoms)
  BY MoleculeType DEF Molecule, IsActive
<1>3. RemoveAt(m.atoms, m.current) \in Seq(Atom) /\ m.current + 1 \in Nat \ {0}
  <2> HIDE DEF m
  <2> QED BY <1>2, RemoveAtAtoms
<1>4. n \in Molecule /\ n.atoms = RemoveAt(m.atoms, m.current)
  <2> HIDE DEF m
  <2> QED BY <1>2, <1>3 DEF Molecule
<1>5. \A i \in DOMAIN n.atoms : n.atoms[i].molecule = s
  <2>1. \A i \in DOMAIN m.atoms : m.atoms[i].molecule = s
    BY MoleculeType
  <2> HIDE DEF m, n
  <2> QED BY <1>2, <1>4, <2>1, RemoveAtAtoms
<1>6. Consistent(Put(r, s, n))
  <2> HIDE DEF n, r
  <2> QED BY <1>1, <1>4, <1>5, PutKeeps
<1>7. Failure(q, s) = Note(Put(r, s, n), "start", TRUE)
  BY DEF Failure
<1> QED
  <2> HIDE DEF n, r
  <2> QED BY <1>6, <1>7, NoteKeeps DEF Faults

LEMMA UndefinedKeeps ==
    ASSUME NEW q, Consistent(q)
    PROVE  Consistent(Undefined(q))
BY DEF Undefined, Consistent, IsSession, Session, Queued

LEMMA WildKeeps ==
    ASSUME NEW q, Consistent(q)
    PROVE  Consistent(Wild(q))
BY UndefinedKeeps, NoteKeeps DEF Wild, Faults

LEMMA MisreadKeeps ==
    ASSUME NEW q, Consistent(q), NEW A, NEW E, NEW r \in Misread(q, A, E)
    PROVE  Consistent(r)
<1>1. r = Note(Undefined(q), "file", TRUE) \/ r = Note(Undefined(q), "empty", TRUE)
  BY DEF Misread
<1> QED
  BY <1>1, UndefinedKeeps, NoteKeeps DEF Faults

LEMMA PositionsType ==
    ASSUME NEW m \in Molecule
    PROVE  /\ Positions(m) \in SUBSET (Nat \ {0})
           /\ Seekable(m) \in SUBSET (Nat \ {0})
           /\ ~Spent(m) => Positions(m) \subseteq 1 .. Len(m.atoms)
<1>1. m.atoms \in Seq(Atom) /\ Len(m.atoms) \in Nat /\ m.current \in Nat \ {0}
  BY DEF Molecule
<1>2. Sounds(m) \subseteq 1 .. Len(m.atoms)
  BY <1>1 DEF Sounds
<1>3. ASSUME ~Spent(m)
      PROVE  1 \in 1 .. Len(m.atoms)
  <2>1. IsActive(m) \/ m.atoms # <<>>
    BY <1>3 DEF Spent
  <2> QED BY <1>1, <2>1, EmptySeq DEF IsActive
<1>4. ASSUME ~Spent(m), ~Looped(m)
      PROVE  m.current \in 1 .. Len(m.atoms)
  BY <1>1, <1>4 DEF Spent, IsActive
<1> QED
  BY <1>1, <1>2, <1>3, <1>4 DEF Positions, Seekable, Measured

LEMMA BeginKeeps ==
    ASSUME NEW q, Consistent(q), NEW s \in Queued(q),
           DividesByZero(q.mol[s]) \/ ~Spent(q.mol[s]),
           NEW r \in Begin(q, s)
    PROVE  Consistent(r)
<1>1. CASE DividesByZero(q.mol[s])
  BY <1>1, UndefinedKeeps DEF Begin
<1>2. CASE r \in Misread(q, LengthsRead(q.mol[s]), Divisor(q.mol[s]))
  BY <1>2, MisreadKeeps
<1>3. CASE ~DividesByZero(q.mol[s]) /\ r \notin Misread(q, LengthsRead(q.mol[s]), Divisor(q.mol[s]))
  <2> DEFINE m == q.mol[s]
             At(i) == [m EXCEPT !.current = i]
  <2>1. PICK i \in Positions(m) : \/ r = Success(Put(q, s, At(i)), s)
                                  \/ r = Failure(Put(q, s, At(i)), s)
    BY <1>3 DEF Begin
  <2>2. /\ m \in Molecule /\ ~Spent(m)
        /\ \A k \in DOMAIN m.atoms : m.atoms[k].molecule = s
    BY <1>3, MoleculeType
  <2>3. i \in 1 .. Len(m.atoms) /\ i \in Nat \ {0}
    BY <2>1, <2>2, PositionsType
  <2>4. /\ At(i) \in Molecule
        /\ At(i).atoms = m.atoms
        /\ At(i).current = i
    <3> HIDE DEF m
    <3> QED BY <2>2, <2>3 DEF Molecule
  <2> DEFINE t == Put(q, s, At(i))
  <2>5. Consistent(t) /\ s \in Queued(t) /\ t.mol[s] = At(i)
    <3>1. \A k \in DOMAIN At(i).atoms : At(i).atoms[k].molecule = s
      BY <2>2, <2>4
    <3> HIDE DEF At
    <3>2. /\ Consistent(t) /\ Queued(t) = Queued(q)
          /\ t.mol = [q.mol EXCEPT ![s] = At(i)]
      BY <2>4, <3>1, PutKeeps
    <3> QED BY <3>2 DEF Queued
  <2>6. IsActive(t.mol[s])
    <3> HIDE DEF t, At, m
    <3> QED BY <2>3, <2>4, <2>5 DEF IsActive
  <2> HIDE DEF t
  <2> QED BY <2>1, <2>5, <2>6, SuccessKeeps, FailureKeeps DEF t
<1> QED BY <1>1, <1>2, <1>3

LEMMA BeforeAsymmetric ==
    ASSUME NEW q, Consistent(q), NEW s \in Queued(q), NEW t \in Queued(q),
           Before(q, s, t)
    PROVE  ~Before(q, t, s)
<1>1. /\ q.mol[s].priority \in Int /\ q.mol[t].priority \in Int
      /\ s \in Int /\ t \in Int
  BY MoleculeType, PrioritiesAssumption, BoundsAssumption
  DEF Molecule, Priorities, Serials
<1> QED BY <1>1 DEF Before

LEMMA ProceedKeeps ==
    ASSUME NEW q, Consistent(q), NEW r \in Proceed(q)
    PROVE  Consistent(r)
<1> DEFINE D == {s \in Playable(q) :
                   \A t \in Playable(q) : t = s \/ Before(q, t, s) => Spent(q.mol[t])}
<1>1. PICK x \in Finish(q, D) : IF NextUp(x) = {} THEN r \in {x}
                                ELSE r \in UNION {Begin(x, s) : s \in NextUp(x)}
  BY DEF Proceed
<1>2. /\ Consistent(x)
      /\ x.mol = [s \in Queued(q) \ D |-> q.mol[s]]
      /\ Queued(x) = Queued(q) \ D
  <2>1. D \in SUBSET Queued(q)
    BY DEF Playable
  <2> HIDE DEF D
  <2> QED BY <1>1, <2>1, FinishKeeps
<1>3. CASE NextUp(x) = {}
  BY <1>1, <1>2, <1>3
<1>4. CASE NextUp(x) # {}
  <2>1. PICK s \in NextUp(x) : r \in Begin(x, s)
    BY <1>1, <1>4
  <2>2. /\ s \in Playable(q) /\ s \notin D /\ s \in Queued(x)
        /\ x.mol[s] = q.mol[s]
    BY <1>2, <2>1 DEF NextUp, Playable
  <2>3. PICK t \in Playable(q) : (t = s \/ Before(q, t, s)) /\ ~Spent(q.mol[t])
    BY <2>2
  <2>4. CASE t = s
    BY <1>2, <2>1, <2>2, <2>3, <2>4, BeginKeeps
  <2>5. CASE t # s
    <3>1. t \notin D
      BY <2>3
    <3>2. t \in Playable(x) /\ x.mol[t] = q.mol[t]
      BY <1>2, <2>3, <3>1 DEF Playable
    <3>3. Before(x, s, t)
      BY <2>1, <2>5, <3>2 DEF NextUp
    <3>4. Before(q, s, t)
      BY <2>2, <3>2, <3>3 DEF Before
    <3> QED BY <2>2, <2>3, <2>5, <3>4, BeforeAsymmetric DEF Playable
  <2> QED BY <2>4, <2>5
<1> QED BY <1>3, <1>4

LEMMA SettleKeeps ==
    ASSUME NEW q, Consistent(q), NEW s \in Queued(q), NEW r \in Settle(q, s)
    PROVE  Consistent(r)
<1>1. CASE DividesByZero(q.mol[s]) \/ ~Spent(q.mol[s])
  BY <1>1, BeginKeeps DEF Settle
<1>2. CASE ~(DividesByZero(q.mol[s]) \/ ~Spent(q.mol[s]))
  <2>1. PICK x \in Finish(q, {s}) : r \in Proceed(x)
    BY <1>2 DEF Settle
  <2> QED BY <2>1, FinishKeeps, ProceedKeeps
<1> QED BY <1>1, <1>2

LEMMA LeaveKeeps ==
    ASSUME NEW q, Consistent(q), NEW c \in Queued(q), NEW reason,
           NEW r \in Leave(q, c, reason)
    PROVE  Consistent(r)
<1> DEFINE m == q.mol[c]
           discarded == {s \in ActiveOnes(q) \ {c} : "discard" \in q.mol[s].mode}
           Moved(i, b) == Put(q, c, [m EXCEPT !.current = i, !.stopped = b])
<1>1. CASE r = q \/ r = Undefined(q)
  BY <1>1, UndefinedKeeps
<1>2. CASE r = [Idle(q) EXCEPT !.done = Idle(q).done \cup {[id |-> NoId, token |-> NoId]}]
  <2> DEFINE d == Idle(q)
             new == {[id |-> NoId, token |-> NoId]}
  <2>1. Consistent(d)
    BY IdleKeeps
  <2>2. new \in SUBSET [id : MaybeIds, token : MaybeIds]
    BY DEF MaybeIds
  <2>3. r = [d EXCEPT !.done = d.done \cup new]
    BY <1>2
  <2> HIDE DEF d, new
  <2> QED BY <2>1, <2>2, <2>3 DEF Consistent, IsSession, Session, Queued
<1>3. CASE r \in Finish(q, discarded)
  <2>1. discarded \in SUBSET Queued(q)
    BY DEF ActiveOnes, Target
  <2> HIDE DEF discarded
  <2> QED BY <1>3, <2>1, FinishKeeps
<1>4. ASSUME NEW i \in Nat \ {0}, NEW b \in BOOLEAN, r = Moved(i, b)
      PROVE  Consistent(r)
  <2>1. m \in Molecule /\ \A k \in DOMAIN m.atoms : m.atoms[k].molecule = c
    BY MoleculeType
  <2> DEFINE n == [m EXCEPT !.current = i, !.stopped = b]
  <2>2. n \in Molecule /\ n.atoms = m.atoms
    <3> HIDE DEF m
    <3> QED BY <2>1 DEF Molecule
  <2>3. \A k \in DOMAIN n.atoms : n.atoms[k].molecule = c
    BY <2>1, <2>2
  <2> HIDE DEF n
  <2> QED BY <1>4, <2>2, <2>3, PutKeeps DEF n
<1>5. m \in Molecule /\ m.current + 1 \in Nat \ {0}
  BY MoleculeType DEF Molecule
<1>6. \/ r = q \/ r = Undefined(q)
      \/ r = [Idle(q) EXCEPT !.done = Idle(q).done \cup {[id |-> NoId, token |-> NoId]}]
      \/ r \in Finish(q, discarded)
      \/ r = Moved(m.current + 1, m.stopped \/ m.current + 1 > Len(m.atoms))
      \/ \E i \in Seekable(m) \cup {m.current} : r = Moved(i, TRUE)
      \/ r \in Misread(q, Sounds(m), {})
  BY DEF Leave
<1>7. CASE r = Moved(m.current + 1, m.stopped \/ m.current + 1 > Len(m.atoms))
  <2>1. (m.stopped \/ m.current + 1 > Len(m.atoms)) \in BOOLEAN
    BY Zenon
  <2> QED BY <1>4, <1>5, <1>7, <2>1
<1>8. CASE \E i \in Seekable(m) \cup {m.current} : r = Moved(i, TRUE)
  <2>1. PICK i \in Seekable(m) \cup {m.current} : r = Moved(i, TRUE)
    BY <1>8
  <2>2. i \in Nat \ {0}
    BY <1>5, PositionsType DEF Molecule
  <2> HIDE DEF Moved
  <2> QED BY <1>4, <2>1, <2>2
<1>9. CASE r \in Misread(q, Sounds(m), {})
  BY <1>9, MisreadKeeps
<1> QED BY <1>1, <1>2, <1>3, <1>6, <1>7, <1>8, <1>9

LEMMA ScheduleKeeps ==
    ASSUME NEW q, Consistent(q), NEW reason, NEW r \in Schedule(q, reason)
    PROVE  Consistent(r)
<1>1. CASE NextUp(q) = {}
  BY <1>1, IdleKeeps DEF Schedule
<1>2. CASE NextUp(q) # {}
  <2>0. PICK c \in NextUp(q) : \E x \in Leave(q, c, reason) :
            r \in IF x.crashed \/ Target(x, Address(q, c)) = {} THEN {Undefined(x)}
                  ELSE UNION {Settle(x, s) : s \in Target(x, Address(q, c))}
    BY <1>2 DEF Schedule
  <2>1. PICK x \in Leave(q, c, reason) :
            r \in IF x.crashed \/ Target(x, Address(q, c)) = {} THEN {Undefined(x)}
                  ELSE UNION {Settle(x, s) : s \in Target(x, Address(q, c))}
    BY <2>0
  <2>2. Consistent(x)
    BY LeaveKeeps DEF NextUp, Playable
  <2>3. CASE r = Undefined(x)
    BY <2>2, <2>3, UndefinedKeeps
  <2>4. CASE \E s \in Target(x, Address(q, c)) : r \in Settle(x, s)
    BY <2>2, <2>4, SettleKeeps DEF Target
  <2> QED BY <2>1, <2>3, <2>4
<1> QED BY <1>1, <1>2

-----------------------------------------------------------------------------
(* What the commands and events preserve.                                  *)

LEMMA TouchKeeps ==
    ASSUME NEW q, Consistent(q)
    PROVE  Consistent(Touch(q))
<1> DEFINE mol == [s \in Queued(q) |-> IF s \in ActiveOnes(q)
                                       THEN [q.mol[s] EXCEPT !.stopped = TRUE]
                                       ELSE q.mol[s]]
<1>1. ASSUME NEW s \in Queued(q)
      PROVE  mol[s] \in Molecule /\ mol[s].atoms = q.mol[s].atoms
  <2> DEFINE m == q.mol[s]
  <2>1. m \in Molecule
    BY MoleculeType
  <2>2. mol[s] = m \/ mol[s] = [m EXCEPT !.stopped = TRUE]
    OBVIOUS
  <2> HIDE DEF m, mol
  <2>3. mol[s] \in Molecule /\ mol[s].atoms = m.atoms
    BY <2>1, <2>2 DEF Molecule
  <2> QED BY <2>3 DEF m
<1>2. mol \in [Queued(q) -> Molecule] /\ DOMAIN mol = Queued(q)
  BY <1>1
<1>3. Touch(q) = [q EXCEPT !.mol = mol]
  BY DEF Touch
<1> HIDE DEF mol
<1> QED BY <1>1, <1>2, <1>3 DEF Consistent, IsSession, Session, Queued

LEMMA CheckedKeeps ==
    ASSUME NEW q, Consistent(q)
    PROVE  Consistent(Checked(q)) /\ Checked(q).mol = q.mol
BY NoteKeeps DEF Checked, Faults

LEMMA PushKeeps ==
    ASSUME NEW q, Consistent(q), NEW p \in Priorities, NEW shape \in Shapes,
           NEW id \in MaybeIds, NEW s \in Serials, NEW r \in Push(q, p, shape, id, s)
    PROVE  Consistent(r)
<1> DEFINE atoms == [i \in DOMAIN shape.kinds |->
                        [molecule |-> s, index |-> i, kind |-> shape.kinds[i]]]
           m == [priority |-> p, mode |-> shape.mode, id |-> id, atoms |-> atoms,
                 current |-> 1, started |-> FALSE, stopped |-> FALSE]
           mol == [t \in Queued(q) \cup {s} |-> IF t = s THEN m ELSE q.mol[t]]
           x == [q EXCEPT !.mol = mol]
           n == Cardinality(Vector(q, p))
           larger == IF n = 0 THEN 1 ELSE 2 * n
           Moved(b) == [x EXCEPT !.buffer[p] = b, !.capacity[p] = larger]
<1>1. atoms \in Seq(Atom)
  <2>1. shape.kinds \in Seq(Kind)
    BY ShapesAssumption
  <2>2. /\ Len(shape.kinds) \in Nat
        /\ DOMAIN shape.kinds = 1 .. Len(shape.kinds)
        /\ \A i \in 1 .. Len(shape.kinds) : shape.kinds[i] \in Kind
    BY <2>1
  <2>3. \A i \in 1 .. Len(shape.kinds) :
           [molecule |-> s, index |-> i, kind |-> shape.kinds[i]] \in Atom
    BY <2>2 DEF Atom
  <2> QED BY <2>2, <2>3
<1>2. m \in Molecule
  <2>1. shape.mode \in SUBSET Modes
    BY ShapesAssumption
  <2> HIDE DEF atoms
  <2> QED BY <1>1, <2>1 DEF Molecule
<1>3. \A i \in DOMAIN m.atoms : m.atoms[i].molecule = s
  OBVIOUS
<1>4. Consistent(x) /\ x.buffer = q.buffer /\ x.capacity = q.capacity
  <2>1. /\ mol \in [Queued(q) \cup {s} -> Molecule]
        /\ DOMAIN mol = Queued(q) \cup {s}
        /\ mol[s] = m
        /\ \A t \in Queued(q) \ {s} : mol[t] = q.mol[t]
    <3> HIDE DEF m
    <3> QED BY <1>2, MoleculeType
  <2> HIDE DEF mol, m
  <2>2. \A t \in DOMAIN mol : \A i \in DOMAIN mol[t].atoms : mol[t].atoms[i].molecule = t
    BY <1>3, <2>1, MoleculeType
  <2> QED BY <2>1, <2>2 DEF Consistent, IsSession, Session, Queued
<1>5. larger \in Nat
  BY VectorFinite
<1>6. ASSUME NEW b \in Buffers
      PROVE  Consistent(Moved(b))
  <2> HIDE DEF x, larger
  <2> QED BY <1>4, <1>5 DEF Consistent, IsSession, Session, Queued
<1>7. r = x \/ \E b \in Buffers : r = Checked(Moved(b))
  BY DEF Push
<1> HIDE DEF Moved, x
<1> QED BY <1>4, <1>6, <1>7, CheckedKeeps

LEMMA RunningKeeps ==
    ASSUME Consistent(session), NEW q \in Running
    PROVE  Consistent(q) /\ q.mol = session.mol
BY DEF Running, Consistent, IsSession, Session, Queued

LEMMA EnqueueKeeps ==
    ASSUME Consistent(session), count \in 0 .. MaxMolecules,
           NEW p \in Priorities, NEW shape \in Shapes, NEW id \in MaybeIds,
           Enqueue(p, shape, id)
    PROVE  Consistent(session') /\ count' \in 0 .. MaxMolecules
<1>1. count + 1 \in Serials /\ count' \in 0 .. MaxMolecules
  BY BoundsAssumption DEF Enqueue, Serials
<1>2. PICK q \in Running, r \in UNION {Push(x, p, shape, id, count + 1) : x \in Running} :
         /\ r \in Push(q, p, shape, id, count + 1)
         /\ session' = r \/ session' \in Schedule(Touch(r), "interrupt")
  BY DEF Enqueue
<1>3. Consistent(r)
  BY <1>1, <1>2, RunningKeeps, PushKeeps
<1> QED BY <1>1, <1>2, <1>3, TouchKeeps, ScheduleKeeps

LEMMA EnqueueUncheckedKeeps ==
    ASSUME Consistent(session), EnqueueUnchecked
    PROVE  Consistent(session')
BY RunningKeeps, WildKeeps DEF EnqueueUnchecked

LEMMA DiscardRangeKeeps ==
    ASSUME Consistent(session), NEW from, NEW to, DiscardRange(from, to)
    PROVE  Consistent(session')
<1>1. PICK q \in Running :
         LET live == {s \in ActiveOnes(q) : IsActive(q.mol[s])}
             quiet == IF live = {} THEN q
                      ELSE StopAtom(q, CurrentAtom(q.mol[CHOOSE s \in live : TRUE]))
             r == Destroy(Idle(quiet),
                          {s \in Queued(q) : q.mol[s].priority \in from .. (to - 1)})
         IN  session' \in Schedule(r, "interrupt") \/ session' \in {Undefined(q), Wild(q)}
  BY DEF DiscardRange
<1> DEFINE live == {s \in ActiveOnes(q) : IsActive(q.mol[s])}
           quiet == IF live = {} THEN q
                    ELSE StopAtom(q, CurrentAtom(q.mol[CHOOSE s \in live : TRUE]))
           D == {s \in Queued(q) : q.mol[s].priority \in from .. (to - 1)}
<1>2. Consistent(q)
  BY RunningKeeps
<1>3. Consistent(quiet)
  <2>1. CASE live = {}
    BY <1>2, <2>1
  <2>2. CASE live # {}
    <3>1. PICK s \in live : s = CHOOSE t \in live : TRUE
      BY <2>2
    <3>2. CurrentAtom(q.mol[s]) \in Atom
      BY <1>2, CurrentAtomType DEF ActiveOnes, Target
    <3> QED BY <1>2, <2>2, <3>1, <3>2, StopAtomKeeps
  <2> QED BY <2>1, <2>2
<1>4. session' \in Schedule(Destroy(Idle(quiet), D), "interrupt") \/ session' \in {Undefined(q), Wild(q)}
  BY <1>1
<1> HIDE DEF quiet, D
<1> QED BY <1>2, <1>3, <1>4, IdleKeeps, DestroyKeeps, ScheduleKeeps, UndefinedKeeps, WildKeeps

LEMMA DiscardKeeps ==
    ASSUME Consistent(session), NEW id, Discard(id)
    PROVE  Consistent(session')
<1>1. PICK q \in Running :
         \E D, hit \in SUBSET Queued(q) : \E r \in IF hit = {} THEN {q} ELSE Finish(q, hit) :
            LET gone == Checked(Destroy(r, D))
            IN  \/ session' \in Schedule(gone, "interrupt")
                \/ session' = Note(gone, "masked", hit # {})
  BY ZenonT(40) DEF Discard
<1>2. PICK D \in SUBSET Queued(q), hit \in SUBSET Queued(q) :
         \E r \in IF hit = {} THEN {q} ELSE Finish(q, hit) :
            LET gone == Checked(Destroy(r, D))
            IN  \/ session' \in Schedule(gone, "interrupt")
                \/ session' = Note(gone, "masked", hit # {})
  BY <1>1
<1>3. PICK r \in IF hit = {} THEN {q} ELSE Finish(q, hit) :
            LET gone == Checked(Destroy(r, D))
            IN  \/ session' \in Schedule(gone, "interrupt")
                \/ session' = Note(gone, "masked", hit # {})
  BY <1>2
<1>4. Consistent(r)
  BY <1>3, RunningKeeps, FinishKeeps
<1> DEFINE gone == Checked(Destroy(r, D))
<1>5. Consistent(gone)
  BY <1>4, DestroyKeeps, CheckedKeeps
<1>6. session' \in Schedule(gone, "interrupt") \/ session' = Note(gone, "masked", hit # {})
  BY <1>3
<1> HIDE DEF gone
<1> QED BY <1>5, <1>6, ScheduleKeeps, NoteKeeps DEF Faults

LEMMA EndOfFileKeeps ==
    ASSUME Consistent(session), EndOfFile
    PROVE  Consistent(session')
<1>1. PICK q \in Running :
         LET r == [q EXCEPT !.source = {}]
         IN  session' = r \/ session' \in Schedule(Touch(r), "eof")
  BY DEF EndOfFile
<1> DEFINE r == [q EXCEPT !.source = {}]
<1>2. Consistent(r)
  BY RunningKeeps DEF Consistent, IsSession, Session, Queued
<1>3. session' = r \/ session' \in Schedule(Touch(r), "eof")
  BY <1>1
<1> HIDE DEF r
<1> QED BY <1>2, <1>3, TouchKeeps, ScheduleKeeps

LEMMA DtmfBeginKeeps ==
    ASSUME Consistent(session), DtmfBegin
    PROVE  Consistent(session')
<1>1. PICK q \in Running :
         \/ \E a \in ActiveRecords(q) : session' \in Schedule(StopRecords(q, {a}), "eof")
         \/ session' = Undefined(q)
  BY DEF DtmfBegin
<1> QED BY <1>1, RunningKeeps, StopRecordsKeeps, ScheduleKeeps, UndefinedKeeps

LEMMA VoiceActivityKeeps ==
    ASSUME Consistent(session), NEW on \in BOOLEAN, VoiceActivity(on)
    PROVE  Consistent(session')
<1>1. PICK q \in Running :
         LET timers == {[atom |-> a, timer |-> "silence"] :
                           a \in {b \in ActiveRecords(q) : b.kind.silence}}
         IN  \/ session' = [q EXCEPT !.vad = on,
                               !.timers = IF on THEN q.timers \ timers ELSE q.timers \cup timers]
             \/ session' = Undefined(q)
  BY DEF VoiceActivity
<1> DEFINE timers == {[atom |-> a, timer |-> "silence"] :
                         a \in {b \in ActiveRecords(q) : b.kind.silence}}
           changed == IF on THEN q.timers \ timers ELSE q.timers \cup timers
<1>2. Consistent(q)
  BY RunningKeeps
<1>3. ActiveRecords(q) \subseteq Atom
  BY DEF ActiveRecords, Atom
<1>4. changed \in SUBSET [atom : Atom, timer : Timers]
  <2>1. timers \in SUBSET [atom : Atom, timer : Timers]
    BY <1>3 DEF Timers
  <2>2. q.timers \in SUBSET [atom : Atom, timer : Timers]
    BY <1>2 DEF Consistent, IsSession, Session
  <2> HIDE DEF timers
  <2> QED BY <2>1, <2>2
<1>5. session' = [q EXCEPT !.vad = on, !.timers = changed] \/ session' = Undefined(q)
  BY <1>1
<1> HIDE DEF changed
<1>6. CASE session' = [q EXCEPT !.vad = on, !.timers = changed]
  BY <1>2, <1>4, <1>6 DEF Consistent, IsSession, Session, Queued
<1> QED BY <1>2, <1>5, <1>6, UndefinedKeeps

LEMMA RecordTimerKeeps ==
    ASSUME Consistent(session), NEW t, RecordTimer(t)
    PROVE  Consistent(session')
<1>1. PICK q \in Running :
         LET r == [q EXCEPT !.timers = q.timers \ {t}]
         IN  \/ session' \in Schedule(StopRecords(r, {t.atom}), "eof")
             \/ session' = r
             \/ session' = Undefined(r)
  BY DEF RecordTimer
<1> DEFINE r == [q EXCEPT !.timers = q.timers \ {t}]
<1>2. Consistent(r)
  BY RunningKeeps DEF Consistent, IsSession, Session, Queued
<1>3. \/ session' \in Schedule(StopRecords(r, {t.atom}), "eof")
      \/ session' = r
      \/ session' = Undefined(r)
  BY <1>1
<1> HIDE DEF r
<1> QED BY <1>2, <1>3, StopRecordsKeeps, ScheduleKeeps, UndefinedKeeps

-----------------------------------------------------------------------------
(* The theorems.                                                           *)

LEMMA InitIsConsistent ==
    ASSUME Init
    PROVE  SessionIsConsistent /\ count \in 0 .. MaxMolecules
<1>1. count \in 0 .. MaxMolecules
  BY BoundsAssumption DEF Init
<1>2. /\ Queued(session) = {}
      /\ session \in Session({})
      /\ session.open = {} /\ session.player = {}
  <2> DEFINE mol == [s \in {} |-> s]
             buffer == [p \in Priorities |-> NoBuffer]
             capacity == [p \in Priorities |-> 0]
  <2>1. /\ mol \in [{} -> Molecule] /\ DOMAIN mol = {}
        /\ buffer \in [Priorities -> Buffers \cup {NoBuffer}]
        /\ capacity \in [Priorities -> Nat]
        /\ Null \in Pointer
    BY DEF Null, Pointer
  <2>2. session \in [mol : {mol}, buffer : {buffer}, capacity : {capacity},
                     active : {Null}, open : {{}}, source : {{}}, player : {{}},
                     timers : {{}}, vad : BOOLEAN, crashed : {FALSE},
                     pin : {0}, done : {{}}, faults : {{}}]
    BY DEF Init
  <2> HIDE DEF mol, buffer, capacity
  <2> QED BY <2>1, <2>2 DEF Session, Queued
<1> QED
  BY <1>1, <1>2 DEF SessionIsConsistent, Consistent, IsSession

LEMMA StepKeeps ==
    ASSUME SessionIsConsistent, count \in 0 .. MaxMolecules, [Next]_vars
    PROVE  SessionIsConsistent' /\ (count \in 0 .. MaxMolecules)'
<1> USE DEF SessionIsConsistent
<1>1. CASE UNCHANGED vars
  BY <1>1 DEF vars, Consistent, IsSession, Session, Queued
<1>2. ASSUME NEW p \in Priorities, NEW shape \in Shapes, NEW id \in MaybeIds,
             Enqueue(p, shape, id)
      PROVE  Consistent(session') /\ count' \in 0 .. MaxMolecules
  BY <1>2, EnqueueKeeps
<1>3. ASSUME NEW from \in Accepted, NEW to \in Accepted, DiscardRange(from, to)
      PROVE  Consistent(session') /\ count' = count
  BY <1>3, DiscardRangeKeeps DEF DiscardRange
<1>4. ASSUME NEW id \in MaybeIds, Discard(id)
      PROVE  Consistent(session') /\ count' = count
  BY <1>4, DiscardKeeps DEF Discard
<1>5. CASE EndOfFile
  BY <1>5, EndOfFileKeeps DEF EndOfFile
<1>6. CASE DtmfBegin
  BY <1>6, DtmfBeginKeeps DEF DtmfBegin
<1>7. ASSUME NEW on \in BOOLEAN, VoiceActivity(on)
      PROVE  Consistent(session') /\ count' = count
  BY <1>7, VoiceActivityKeeps DEF VoiceActivity
<1>8. ASSUME NEW t \in session.timers, RecordTimer(t)
      PROVE  Consistent(session') /\ count' = count
  BY <1>8, RecordTimerKeeps DEF RecordTimer
<1>9. CASE EnqueueUnchecked
  BY <1>9, EnqueueUncheckedKeeps DEF EnqueueUnchecked
<1> QED
  BY <1>1, <1>2, <1>3, <1>4, <1>5, <1>6, <1>7, <1>8, <1>9 DEF Next, Commands, Events

\* In every reachable state atoms know their molecule, what is open belongs
\* to a queued molecule and baresip records into an open Record.
THEOREM SessionStaysConsistent ==
    Spec => [](SessionIsConsistent /\ count \in 0 .. MaxMolecules)
<1>1. Init => SessionIsConsistent /\ count \in 0 .. MaxMolecules
  BY InitIsConsistent
<1>2. /\ SessionIsConsistent /\ count \in 0 .. MaxMolecules
      /\ [Next]_vars
      => (SessionIsConsistent /\ count \in 0 .. MaxMolecules)'
  BY StepKeeps
<1> QED
  BY <1>1, <1>2, PTL DEF Spec

\* The variables keep their types, whatever the commands, the events and the
\* failures of baresip.
THEOREM TypesAreKept == Spec => []TypeOK
<1>1. SessionIsConsistent /\ count \in 0 .. MaxMolecules => TypeOK
  BY DEF SessionIsConsistent, Consistent, TypeOK
<1> QED
  BY <1>1, SessionStaysConsistent, PTL

\* baresip never records for a molecule that left the queue nor for a stopped
\* Record, even where _active is stale or an atom could not be started.
THEOREM RecordingsAreOwned == Spec => []RecorderIsOwned
<1>1. SessionIsConsistent => RecorderIsOwned
  BY DEF SessionIsConsistent, Consistent, RecorderIsOwned
<1> QED
  BY <1>1, SessionStaysConsistent, PTL
=============================================================================
