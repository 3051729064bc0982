------------------------------ MODULE VQueueSteps ------------------------------
(***************************************************************************)
(* The proof of what happens to the molecules of a queue from one step to  *)
(* the next: what is heard and recorded, in which order molecules start    *)
(* and atoms follow, when a molecule leaves, and what the process can      *)
(* crash on.                                                               *)
(*                                                                         *)
(* To the order of VQueueDue the invariant adds how open atoms, timers and *)
(* molecules fit together (Good).  One lemma per helper says that it keeps *)
(* the queue Tidy, one per part of schedule what it does with the current  *)
(* atoms of all molecules, and ScheduleIsGood puts them together.          *)
(*                                                                         *)
(* The last part maps each command and event to a step of Player, from     *)
(* what exactly schedule does (Played), what a discard clears (Cleared)    *)
(* and how a new molecule joins the queue (Grows, Joins).                  *)
(***************************************************************************)
EXTENDS VQueueDue

\* The atom a is open, and baresip plays from it or, unless the stop of another
\* Record took the player away, records into it.
Aired(q, a) == /\ a \in q.open
               /\ IF a.kind.type = "play" THEN q.source = {a}
                  ELSE "cut" \notin q.faults => q.player = {a}

\* The active molecule is at an atom, and this is what baresip is at.
Heard(q) == q.active # Null => /\ IsActive(q.mol[q.pin])
                               /\ Aired(q, CurrentAtom(q.mol[q.pin]))

\* Every molecule with atoms is at one of them, the ones in S excepted.
EntireBut(q, S) == \A s \in Playable(q) \ S : IsActive(q.mol[s])
Entire(q)       == EntireBut(q, {})

\* Nobody started before an earlier molecule of the same priority.
Ranked(q) == \A s, t \in Playable(q) :
    s < t /\ q.mol[s].priority = q.mol[t].priority => ~q.mol[t].started

\* Timers are of open Records, and open atoms are atoms of their molecules.
Timed(q) == \A t \in q.timers : t.atom \in q.open /\ t.atom.kind.type = "record"
Held(q)  == \A a \in q.open : a \in Range(q.mol[a.molecule].atoms)

Tidy(q) == Ranked(q) /\ Timed(q) /\ Held(q)

\* The inductive invariant.
Good(q) == Steady(q) /\ (Sound(q) => Heard(q) /\ Entire(q) /\ Tidy(q))

-----------------------------------------------------------------------------
(* What the helpers do to a tidy queue.                                    *)

\* Molecules, open atoms and timers only become fewer, and what remains is as
\* it was.
Reduces(q, r) ==
    /\ Queued(r) \subseteq Queued(q)
    /\ \A s \in Queued(r) : /\ r.mol[s].priority = q.mol[s].priority
                            /\ r.mol[s].started  = q.mol[s].started
                            /\ r.mol[s].atoms    = q.mol[s].atoms
    /\ r.open \subseteq q.open
    /\ r.timers \subseteq q.timers
    /\ \A t \in r.timers : t.atom \in q.open /\ t.atom.kind.type = "record" => t.atom \in r.open

LEMMA ReducedIsTidy ==
    ASSUME NEW q, NEW r, Consistent(r), Reduces(q, r), Tidy(q)
    PROVE  Tidy(r)
<1>1. Ranked(r)
  BY DEF Reduces, Tidy, Ranked, Playable
<1>2. Timed(r)
  BY DEF Reduces, Tidy, Timed
<1>3. Held(r)
  <2>1. \A a \in r.open : a.molecule \in Queued(r)
    BY DEF Consistent
  <2> QED BY <2>1 DEF Reduces, Tidy, Held
<1> QED
  BY <1>1, <1>2, <1>3 DEF Tidy

LEMMA ReducesTransitive ==
    ASSUME NEW q, NEW r, NEW x, Reduces(q, r), Reduces(r, x)
    PROVE  Reduces(q, x)
BY DEF Reduces

LEMMA SameReduces ==
    ASSUME NEW q, NEW r, r.mol = q.mol, r.open = q.open, r.timers = q.timers
    PROVE  Reduces(q, r)
BY DEF Reduces, Queued

LEMMA NoteFields ==
    ASSUME NEW q, Consistent(q), NEW fault, NEW if
    PROVE  LET r == Note(q, fault, if)
           IN  /\ r.mol = q.mol /\ r.open = q.open /\ r.timers = q.timers
               /\ r.source = q.source /\ r.player = q.player /\ r.done = q.done
               /\ r.crashed = q.crashed
<1> DEFINE faults == IF if THEN q.faults \cup {fault} ELSE q.faults
           r == [q EXCEPT !.faults = faults]
<1>1. Note(q, fault, if) = r
  BY DEF Note
<1> HIDE DEF faults
<1>2. /\ r.mol = q.mol /\ r.open = q.open /\ r.timers = q.timers
      /\ r.source = q.source /\ r.player = q.player /\ r.done = q.done
      /\ r.crashed = q.crashed
  BY DEF Consistent, IsSession, Session
<1> QED
  BY <1>1, <1>2

\* Record::stop of the atoms A: their timers end with them.
LEMMA StopRecordsReduces ==
    ASSUME NEW q, Consistent(q), NEW A
    PROVE  LET stopped == {a \in A \cap q.open : a.kind.type = "record"}
               r == StopRecords(q, A)
           IN  /\ Reduces(q, r)
               /\ r.open = q.open \ stopped
               /\ r.timers = {t \in q.timers : t.atom \notin stopped}
               /\ r.source = q.source
               /\ stopped = {} => r.player = q.player
               /\ stopped # {} /\ q.player \ stopped # {} => "cut" \in r.faults
               /\ r.done = q.done /\ r.crashed = q.crashed
<1> DEFINE stopped == {a \in A \cap q.open : a.kind.type = "record"}
           open    == q.open \ stopped
           timers  == {t \in q.timers : t.atom \notin stopped}
           player  == IF stopped = {} THEN q.player ELSE {}
           x == [q EXCEPT !.open = open, !.timers = timers, !.player = player]
           cut == stopped # {} /\ q.player \ stopped # {}
           r == StopRecords(q, A)
<1>1. r = Note(x, "cut", cut)
  BY Zenon DEF StopRecords
<1>2. stopped = {} => player = q.player
  OBVIOUS
<1> HIDE DEF r, cut, player
<1>3. /\ x.mol = q.mol /\ x.open = open /\ x.timers = timers /\ x.player = player
      /\ x.source = q.source /\ x.done = q.done /\ x.crashed = q.crashed
  <2> HIDE DEF open, timers
  <2> QED BY DEF Consistent, IsSession, Session
<1>4. Consistent(x)
  <2>1. /\ open \in SUBSET Atom /\ timers \in SUBSET [atom : Atom, timer : Timers]
        /\ player \in SUBSET Atom
    BY DEF Consistent, IsSession, Session, player
  <2>2. \A a \in player : a \in open /\ a.kind.type = "record"
    BY DEF Consistent, player
  <2>3. \A a \in open : a.molecule \in Queued(q)
    BY DEF Consistent
  <2> HIDE DEF open, timers
  <2> QED BY <2>1, <2>2, <2>3 DEF Consistent, IsSession, Session, Queued
<1> HIDE DEF x
<1>5. /\ r.mol = q.mol /\ r.open = open /\ r.timers = timers /\ r.player = player
      /\ r.source = q.source /\ r.done = q.done /\ r.crashed = q.crashed
      /\ cut => "cut" \in r.faults
  BY <1>1, <1>3, <1>4, NoteFields, NoteFrame
<1>6. Reduces(q, r)
  <2>1. \A t \in r.timers : t.atom \in q.open => t.atom \in r.open
    BY <1>5
  <2> QED BY <1>5, <2>1 DEF Reduces, Queued
<1> QED
  BY <1>2, <1>5, <1>6 DEF cut, r

LEMMA StopPlayReduces ==
    ASSUME NEW q, Consistent(q), NEW a, a.kind.type = "play"
    PROVE  LET r == StopPlay(q, a)
           IN  /\ Reduces(q, r)
               /\ r.done = q.done /\ r.crashed = q.crashed
<1> DEFINE open == q.open \ {a}
           r == [q EXCEPT !.open = open, !.source = {}]
<1>1. StopPlay(q, a) = q \/ StopPlay(q, a) = r
  BY DEF StopPlay
<1>2. /\ r.mol = q.mol /\ r.open = open /\ r.timers = q.timers
      /\ r.done = q.done /\ r.crashed = q.crashed
  <2> HIDE DEF open
  <2> QED BY DEF Consistent, IsSession, Session
<1> HIDE DEF r
<1>3. Reduces(q, r)
  BY <1>2 DEF Reduces, Queued
<1> QED
  BY <1>1, <1>2, <1>3, SameReduces

LEMMA StopAtomReduces ==
    ASSUME NEW q, Consistent(q), NEW a
    PROVE  /\ Reduces(q, StopAtom(q, a))
           /\ StopAtom(q, a).done = q.done /\ StopAtom(q, a).crashed = q.crashed
BY StopPlayReduces, StopRecordsReduces DEF StopAtom

\* The atoms of the others stay as they are; what is played and recorded, too,
\* unless a Record of D took the player away.
LEMMA DestroyReduces ==
    ASSUME NEW q, Consistent(q), NEW D
    PROVE  LET r == Destroy(q, D)
           IN  /\ Reduces(q, r)
               /\ \A a \in q.open : a.molecule \notin D => a \in r.open
               /\ r.source = q.source
               /\ \A a \in q.player : a.molecule \notin D =>
                     r.player = q.player \/ "cut" \in r.faults
               /\ r.done = q.done /\ r.crashed = q.crashed
<1> DEFINE A == {a \in q.open : a.molecule \in D}
           stopped == {a \in A \cap q.open : a.kind.type = "record"}
           x == StopRecords(q, A)
           mol == Restrict(x.mol, Queued(q) \ D)
           open == {a \in x.open : a.molecule \notin D}
           r == Destroy(q, D)
<1>1. r = [x EXCEPT !.mol = mol, !.open = open]
  BY DEF Destroy
<1>2. /\ Consistent(x) /\ x.mol = q.mol
      /\ x.open = q.open \ stopped
      /\ x.timers = {t \in q.timers : t.atom \notin stopped}
      /\ x.source = q.source
      /\ stopped = {} => x.player = q.player
      /\ stopped # {} /\ q.player \ stopped # {} => "cut" \in x.faults
      /\ x.done = q.done /\ x.crashed = q.crashed
  BY StopRecordsKeeps, StopRecordsReduces
<1>3. r.mol = [s \in Queued(q) \ D |-> q.mol[s]] /\ Queued(r) = Queued(q) \ D
  BY DestroyKeeps
<1> HIDE DEF x, mol, r
<1>4. /\ r.open = open /\ r.timers = x.timers /\ r.source = x.source
      /\ r.player = x.player /\ r.done = x.done /\ r.crashed = x.crashed
      /\ r.faults = x.faults
  <2> HIDE DEF open
  <2> QED BY <1>1, <1>2 DEF Consistent, IsSession, Session
<1>5. Reduces(q, r)
  <2>1. r.open \subseteq q.open /\ r.timers \subseteq q.timers
    BY <1>2, <1>4
  <2>2. ASSUME NEW t \in r.timers, t.atom \in q.open, t.atom.kind.type = "record"
        PROVE  t.atom \in r.open
    BY <1>2, <1>4, <2>2
  <2> QED BY <1>3, <2>1, <2>2 DEF Reduces
<1>6. \A a \in q.open : a.molecule \notin D => a \in r.open
  BY <1>2, <1>4
<1>7. ASSUME NEW a \in q.player, a.molecule \notin D
      PROVE  r.player = q.player \/ "cut" \in r.faults
  BY <1>2, <1>4, <1>7
<1> QED
  BY <1>2, <1>4, <1>5, <1>6, <1>7 DEF r

LEMMA IdleFields ==
    ASSUME NEW q, Consistent(q)
    PROVE  LET r == Idle(q)
           IN  /\ r.mol = q.mol /\ r.open = q.open /\ r.timers = q.timers
               /\ r.done = q.done /\ r.crashed = q.crashed /\ r.active = Null
BY DEF Idle, Consistent, IsSession, Session

\* The calls of molecule_done that the end of s can lead to.
DoneFor(q, s) == {[id |-> q.mol[s].id, token |-> n] : n \in SlotIds(q, s)}

\* molecule_done, called before as `done' tells, was called for the molecule in
\* D, which is the only one, and for nobody if D is empty.
Reports(q, D, done, r) ==
    IF D = {} THEN r.done = done
    ELSE \E s \in D : \E d \in DoneFor(q, s) : r.done = done \cup {d}

\* What is told of the end of s depends on nothing but the molecules that wait
\* with it.
LEMMA SameDoneFor ==
    ASSUME NEW q, NEW r, NEW s \in Queued(q), s \in Queued(r),
           Vector(r, r.mol[s].priority) = Vector(q, q.mol[s].priority),
           r.mol[s].id = q.mol[s].id,
           \A t \in Vector(q, q.mol[s].priority) : r.mol[t].id = q.mol[t].id
    PROVE  DoneFor(r, s) = DoneFor(q, s)
<1> DEFINE Later(x) == {t \in Vector(x, x.mol[s].priority) : t > s}
           Heir(x)  == {u \in Later(x) : \A v \in Later(x) : u <= v}
<1>1. Later(r) = Later(q)
  OBVIOUS
<1>2. Heir(r) = Heir(q)
  BY <1>1
<1>3. \A t \in Heir(q) : r.mol[t].id = q.mol[t].id
  OBVIOUS
<1>4. SlotIds(r, s) = SlotIds(q, s)
  <2>1. SlotIds(q, s) = IF Later(q) = {} THEN {q.mol[s].id, NoId}
                        ELSE {q.mol[t].id : t \in Heir(q)}
    BY DEF SlotIds
  <2>2. SlotIds(r, s) = IF Later(r) = {} THEN {r.mol[s].id, NoId}
                        ELSE {r.mol[t].id : t \in Heir(r)}
    BY DEF SlotIds
  <2> HIDE DEF Later, Heir
  <2>3. {r.mol[t].id : t \in Heir(r)} = {q.mol[t].id : t \in Heir(q)}
    BY <1>2, <1>3
  <2> QED BY <1>1, <2>1, <2>2, <2>3
<1> QED
  BY <1>4 DEF DoneFor

LEMMA SameMoleculesDoneFor ==
    ASSUME NEW q, NEW r, Queued(r) = Queued(q),
           \A t \in Queued(q) : /\ r.mol[t].priority = q.mol[t].priority
                                /\ r.mol[t].id = q.mol[t].id,
           NEW s \in Queued(q)
    PROVE  DoneFor(r, s) = DoneFor(q, s)
BY SameDoneFor DEF Vector

\* molecule_done is called for the molecule that leaves.
LEMMA FinishReduces ==
    ASSUME NEW q, Consistent(q), NEW D \in SUBSET Queued(q), NEW r \in Finish(q, D)
    PROVE  /\ Reduces(q, r) /\ r.crashed = q.crashed
           /\ (\A s, t \in D : s = t) => Reports(q, D, q.done, r)
<1> DEFINE x == Destroy(q, D)
           d == Idle(x)
<1>1. /\ Consistent(x) /\ Reduces(q, x)
      /\ x.done = q.done /\ x.crashed = q.crashed
  BY DestroyKeeps, DestroyReduces
<1> HIDE DEF x
<1>2. /\ Consistent(d) /\ Reduces(q, d)
      /\ d.done = q.done /\ d.crashed = q.crashed
  BY <1>1, IdleKeeps, IdleFields, SameReduces, ReducesTransitive
<1>3. PICK f \in [D -> MaybeIds] :
        /\ \A s \in D : f[s] \in SlotIds(q, s)
        /\ r = [d EXCEPT !.done = d.done \cup {[id |-> q.mol[s].id, token |-> f[s]] : s \in D}]
  BY DEF Finish, x
<1> DEFINE new == {[id |-> q.mol[s].id, token |-> f[s]] : s \in D}
<1>4. r = [d EXCEPT !.done = d.done \cup new]
  BY <1>3
<1>5. D = {} => new = {}
  OBVIOUS
<1>6. \A s \in D : (\A t \in D : t = s) => \E e \in DoneFor(q, s) : new = {e}
  <2>1. TAKE s \in D
  <2> DEFINE e == [id |-> q.mol[s].id, token |-> f[s]]
  <2>2. e \in DoneFor(q, s)
    BY <1>3 DEF DoneFor
  <2>3. (\A t \in D : t = s) => new = {e}
    OBVIOUS
  <2> QED BY <2>2, <2>3
<1> HIDE DEF d, new
<1>7. /\ r.mol = d.mol /\ r.open = d.open /\ r.timers = d.timers
      /\ r.crashed = d.crashed /\ r.done = d.done \cup new
  BY <1>2, <1>4 DEF Consistent, IsSession, Session
<1>8. Reduces(q, r)
  BY <1>2, <1>7, SameReduces, ReducesTransitive
<1>9. (\A s, t \in D : s = t) => Reports(q, D, q.done, r)
  BY <1>2, <1>5, <1>6, <1>7 DEF Reports
<1> QED
  BY <1>2, <1>7, <1>8, <1>9

-----------------------------------------------------------------------------
(* What the parts of schedule do to a tidy queue.                          *)

\* n is the molecule m, at whatever atom.
Same(m, n) == /\ n.priority = m.priority /\ n.mode = m.mode
              /\ n.id = m.id /\ n.atoms = m.atoms

\* The molecules of r are those of q or fewer, and at the atoms they were at,
\* but for one that loops and is due: it begins anew or seeks its place, which
\* is the first unless it was heard before.
Unmoved(q, r) == \A s \in Queued(r) :
    /\ s \in Queued(q)
    /\ Same(q.mol[s], r.mol[s])
    /\ \/ r.mol[s].current = q.mol[s].current
       \/ /\ s \in NextUp(r)
          /\ \/ /\ Loops(q.mol[s]) = "seeks"
                /\ q.mol[s].started \/ q.mol[s].stopped \/ r.mol[s].current = 1
             \/ Loops(q.mol[s]) = "wraps" /\ ~IsActive(q.mol[s]) /\ r.mol[s].current = 1

LEMMA StartAtomFields ==
    ASSUME NEW q, Consistent(q), NEW a \in Atom
    PROVE  LET r == StartAtom(q, a)
           IN  /\ r.mol = q.mol /\ r.open = q.open \cup {a} /\ r.done = q.done
               /\ IF a.kind.type = "play" THEN r.source = {a} ELSE r.player = {a}
               /\ \A t \in r.timers : t \in q.timers \/ (t.atom = a /\ a.kind.type = "record")
<1>1. CASE a.kind.type = "play"
  BY <1>1 DEF StartAtom, Consistent, IsSession, Session
<1>2. CASE a.kind.type # "play"
  <2>1. a.kind.type = "record"
    BY <1>2 DEF Atom, Kind
  <2>2. \A t \in TimersOf(a, q.vad) : t.atom = a
    BY DEF TimersOf
  <2> DEFINE timers == q.timers \cup TimersOf(a, q.vad)
             open == q.open \cup {a}
             r == [q EXCEPT !.open = open, !.player = {a}, !.timers = timers]
  <2>3. StartAtom(q, a) = r
    BY <1>2 DEF StartAtom
  <2>4. \A t \in timers : t \in q.timers \/ t.atom = a
    BY <2>2
  <2> HIDE DEF timers
  <2>5. /\ r.mol = q.mol /\ r.open = q.open \cup {a} /\ r.done = q.done
        /\ r.player = {a} /\ r.timers = timers
    BY DEF Consistent, IsSession, Session
  <2> QED BY <2>1, <2>3, <2>4, <2>5
<1> QED BY <1>1, <1>2

LEMMA StartAtomTidy ==
    ASSUME NEW q, Consistent(q), Tidy(q), NEW a \in Atom,
           a \in Range(q.mol[a.molecule].atoms)
    PROVE  Tidy(StartAtom(q, a))
<1> DEFINE r == StartAtom(q, a)
<1>1. /\ r.mol = q.mol /\ r.open = q.open \cup {a}
      /\ \A t \in r.timers : t \in q.timers \/ (t.atom = a /\ a.kind.type = "record")
  BY StartAtomFields
<1> HIDE DEF r
<1>2. Ranked(r)
  BY <1>1 DEF Tidy, Ranked, Playable, Queued
<1>3. Timed(r)
  BY <1>1 DEF Tidy, Timed
<1>4. Held(r)
  BY <1>1 DEF Tidy, Held
<1> QED
  BY <1>2, <1>3, <1>4 DEF Tidy, r

\* The molecule that is due starts: nobody before it in its vector.
LEMMA SuccessIsGood ==
    ASSUME NEW q, Consistent(q), Tidy(q), NEW s \in NextUp(q), IsActive(q.mol[s]),
           EntireBut(q, {s})
    PROVE  LET r == Success(q, s)
           IN  /\ Heard(r) /\ Entire(r) /\ Tidy(r)
               /\ Queued(r) = Queued(q) /\ r.done = q.done
               /\ \A t \in Queued(q) : /\ Same(q.mol[t], r.mol[t])
                                       /\ r.mol[t].current = q.mol[t].current
<1> DEFINE m == q.mol[s]
           n == [m EXCEPT !.started = m.started \/ m.current = 1]
           a == CurrentAtom(m)
           u == StartAtom(q, a)
           v == Put(u, s, n)
           r == [v EXCEPT !.active = Address(q, s), !.pin = s]
<1>1. Success(q, s) = r
  BY DEF Success
<1>2. s \in Playable(q) /\ s \in Queued(q)
  BY DEF NextUp, Playable
<1>3. a \in Atom /\ a.molecule = s
  BY <1>2, CurrentAtomType
<1>4. m \in Molecule
  BY <1>2, MoleculeType
<1>5. a \in Range(m.atoms)
  BY <1>4 DEF CurrentAtom, IsActive, Molecule, Range
<1>6. /\ n \in Molecule /\ n.priority = m.priority /\ n.atoms = m.atoms
      /\ n.current = m.current /\ n.mode = m.mode /\ n.id = m.id
  <2>1. (m.started \/ m.current = 1) \in BOOLEAN
    BY Zenon
  <2> DEFINE b == m.started \/ m.current = 1
  <2> HIDE DEF b, m
  <2> QED BY <1>4, <2>1 DEF Molecule, b
<1>7. /\ Consistent(u) /\ Tidy(u)
      /\ u.mol = q.mol /\ u.open = q.open \cup {a} /\ u.done = q.done
      /\ IF a.kind.type = "play" THEN u.source = {a} ELSE u.player = {a}
  BY <1>2, <1>3, <1>5, StartAtomKeeps, StartAtomFields, StartAtomTidy
<1> HIDE DEF n, u
<1>8. /\ v.mol = [q.mol EXCEPT ![s] = n] /\ v.open = u.open /\ v.done = u.done
      /\ v.source = u.source /\ v.player = u.player /\ v.timers = u.timers
      /\ v.active = u.active /\ v.pin = u.pin
  BY <1>7 DEF Put, Consistent, IsSession, Session
<1>9. Consistent(v)
  <2>1. \A i \in DOMAIN n.atoms : n.atoms[i].molecule = s
    BY <1>2, <1>6, MoleculeType
  <2>2. s \in Queued(u)
    BY <1>2, <1>7 DEF Queued
  <2> QED BY <1>6, <1>7, <2>1, <2>2, PutKeeps
<1> HIDE DEF v
<1>10. /\ r.mol = v.mol /\ r.open = v.open /\ r.done = v.done
       /\ r.source = v.source /\ r.player = v.player /\ r.timers = v.timers
       /\ r.active = Address(q, s) /\ r.pin = s
  BY <1>9 DEF Consistent, IsSession, Session
<1> HIDE DEF r
<1>11. /\ Queued(r) = Queued(q) /\ r.mol[s] = n
       /\ \A t \in Queued(q) \ {s} : r.mol[t] = q.mol[t]
  BY <1>2, <1>8, <1>10 DEF Queued
<1>12. \A t \in Queued(q) : /\ r.mol[t].mode = q.mol[t].mode
                            /\ r.mol[t].atoms = q.mol[t].atoms
                            /\ r.mol[t].current = q.mol[t].current
                            /\ r.mol[t].priority = q.mol[t].priority
                            /\ r.mol[t].id = q.mol[t].id
  BY <1>6, <1>11
<1>13. Playable(r) = Playable(q)
  BY <1>11, <1>12 DEF Playable
<1>14. Heard(r)
  <2>1. IsActive(n) /\ CurrentAtom(n) = a
    BY <1>6 DEF IsActive, CurrentAtom
  <2> QED BY <1>7, <1>8, <1>10, <1>11, <2>1 DEF Heard, Aired
<1>15. Entire(r)
  <2>1. \A t \in Playable(q) : IsActive(q.mol[t])
    BY DEF EntireBut
  <2>2. \A t \in Playable(q) : IsActive(r.mol[t])
    BY <1>12, <2>1 DEF IsActive, Playable
  <2> QED BY <1>13, <2>2 DEF Entire, EntireBut
<1>16. Ranked(r)
  <2> SUFFICES ASSUME NEW x \in Playable(q), NEW t \in Playable(q),
                      x < t, r.mol[x].priority = r.mol[t].priority
               PROVE  ~r.mol[t].started
    BY <1>13 DEF Ranked
  <2>1. x \in Queued(q) /\ t \in Queued(q) /\ q.mol[x].priority = q.mol[t].priority
    BY <1>12 DEF Playable
  <2>2. CASE t # s
    BY <1>11, <2>1, <2>2 DEF Tidy, Ranked
  <2>3. CASE t = s
    <3>1. Before(q, s, x)
      <4>1. x # s
        BY <2>1, <2>3, MoleculeType, BoundsAssumption DEF Serials
      <4> QED BY <4>1 DEF NextUp
    <3>2. Before(q, x, s)
      BY <2>1, <2>3 DEF Before
    <3> QED BY <1>2, <2>1, <3>1, <3>2, BeforeAsymmetric
  <2> QED BY <2>2, <2>3
<1>17. Timed(r)
  BY <1>7, <1>8, <1>10 DEF Tidy, Timed
<1>18. Held(r)
  <2>1. \A b \in u.open : b.molecule \in Queued(q) /\ b \in Range(q.mol[b.molecule].atoms)
    BY <1>7 DEF Tidy, Held, Consistent, Queued
  <2> QED BY <1>8, <1>10, <1>12, <2>1 DEF Held
<1> QED
  BY <1>1, <1>8, <1>7, <1>10, <1>11, <1>12, <1>14, <1>15, <1>16, <1>17, <1>18 DEF Tidy, Same

\* A molecule is put back with another position or stop.
LEMMA PutReduces ==
    ASSUME NEW q, Consistent(q), NEW s \in Queued(q), NEW m,
           m.priority = q.mol[s].priority, m.started = q.mol[s].started,
           m.atoms = q.mol[s].atoms
    PROVE  LET r == Put(q, s, m)
           IN  /\ Reduces(q, r) /\ Queued(r) = Queued(q)
               /\ r.mol[s] = m
               /\ \A t \in Queued(q) \ {s} : r.mol[t] = q.mol[t]
               /\ r.done = q.done /\ r.crashed = q.crashed
<1> DEFINE r == Put(q, s, m)
<1>1. /\ r.mol = [q.mol EXCEPT ![s] = m] /\ r.open = q.open /\ r.timers = q.timers
      /\ r.done = q.done /\ r.crashed = q.crashed
  BY DEF Put, Consistent, IsSession, Session
<1>2. /\ Queued(r) = Queued(q) /\ r.mol[s] = m
      /\ \A t \in Queued(q) \ {s} : r.mol[t] = q.mol[t]
  BY <1>1 DEF Queued
<1> HIDE DEF r
<1>3. Reduces(q, r)
  BY <1>1, <1>2 DEF Reduces
<1> QED
  BY <1>1, <1>2, <1>3 DEF r

LEMMA BeginIsGood ==
    ASSUME NEW q, Consistent(q), Tidy(q), NEW s \in NextUp(q), EntireBut(q, {s}),
           DividesByZero(q.mol[s]) \/ ~Spent(q.mol[s]),
           NEW r \in Begin(q, s), Sound(r)
    PROVE  /\ Heard(r) /\ Entire(r) /\ Tidy(r)
           /\ Queued(r) = Queued(q) /\ Unmoved(q, r) /\ r.done = q.done
<1> DEFINE m == q.mol[s]
           At(i) == [m EXCEPT !.current = i]
<1>0. s \in Playable(q) /\ s \in Queued(q)
  BY DEF NextUp, Playable
<1>1. ~DividesByZero(m) /\ r \notin Misread(q, LengthsRead(m), Divisor(m))
  BY UndefinedIsUnsound, MisreadIsUnsound DEF Begin
<1>2. PICK i \in Positions(m) : \/ r = Success(Put(q, s, At(i)), s)
                                \/ r = Failure(Put(q, s, At(i)), s)
  BY <1>1 DEF Begin
<1>3. /\ m \in Molecule /\ ~Spent(m)
      /\ \A k \in DOMAIN m.atoms : m.atoms[k].molecule = s
  BY <1>0, <1>1, MoleculeType
<1>4. i \in 1 .. Len(m.atoms) /\ i \in Nat \ {0}
  BY <1>2, <1>3, PositionsType
<1>5. \/ i = m.current
      \/ Loops(m) = "seeks" /\ (m.started \/ m.stopped \/ i = 1)
      \/ Loops(m) = "wraps" /\ ~IsActive(m) /\ i = 1
  BY <1>2 DEF Positions, Measured, Looped, Loops
<1>6. /\ At(i) \in Molecule /\ At(i).started = m.started
      /\ At(i).current = i /\ Same(m, At(i))
      /\ At(i).atoms = m.atoms /\ At(i).mode = m.mode
      /\ At(i).priority = m.priority /\ At(i).id = m.id
  <2> HIDE DEF m
  <2> QED BY <1>3, <1>4 DEF Molecule, Same
<1> DEFINE t == Put(q, s, At(i))
<1>7. \A k \in DOMAIN At(i).atoms : At(i).atoms[k].molecule = s
  BY <1>3, <1>6
<1> HIDE DEF At
<1>8. Consistent(t)
  BY <1>0, <1>6, <1>7, PutKeeps
<1>9. /\ Reduces(q, t) /\ Queued(t) = Queued(q) /\ t.mol[s] = At(i)
      /\ \A x \in Queued(q) \ {s} : t.mol[x] = q.mol[x]
      /\ t.done = q.done
  BY <1>0, <1>6, PutReduces
<1> HIDE DEF t
<1>10. Tidy(t)
  BY <1>8, <1>9, ReducedIsTidy
<1>11. /\ Playable(t) = Playable(q)
       /\ \A x \in Queued(q) : /\ t.mol[x].priority = q.mol[x].priority
                               /\ t.mol[x].atoms = q.mol[x].atoms
                               /\ t.mol[x].mode = q.mol[x].mode
                               /\ t.mol[x].id = q.mol[x].id
  BY <1>6, <1>9 DEF Playable
<1>12. s \in NextUp(t)
  BY <1>11 DEF NextUp, Before, Playable
<1>13. IsActive(t.mol[s])
  <2> HIDE DEF m
  <2> QED BY <1>4, <1>6, <1>9 DEF IsActive
<1>14. EntireBut(t, {s})
  BY <1>9, <1>11 DEF EntireBut, Playable
<1>15. r = Success(t, s)
  <2>1. s \in Queued(t)
    BY <1>0, <1>9
  <2> QED BY <1>2, <1>8, <1>13, <2>1, FailureFrame DEF t
<1>16. /\ Heard(r) /\ Entire(r) /\ Tidy(r)
       /\ Queued(r) = Queued(t) /\ r.done = t.done
       /\ \A x \in Queued(t) : /\ Same(t.mol[x], r.mol[x])
                               /\ r.mol[x].current = t.mol[x].current
  BY <1>8, <1>10, <1>12, <1>13, <1>14, <1>15, SuccessIsGood
<1>17. \A x \in Queued(q) : Same(q.mol[x], r.mol[x])
  BY <1>9, <1>11, <1>16 DEF Same
<1>18. s \in NextUp(r)
  BY <1>9, <1>12, <1>16 DEF NextUp, Before, Playable, Same
<1>19. ASSUME NEW x \in Queued(q)
       PROVE  \/ r.mol[x].current = q.mol[x].current
              \/ /\ x \in NextUp(r)
                 /\ \/ /\ Loops(q.mol[x]) = "seeks"
                       /\ q.mol[x].started \/ q.mol[x].stopped \/ r.mol[x].current = 1
                    \/ Loops(q.mol[x]) = "wraps" /\ ~IsActive(q.mol[x]) /\ r.mol[x].current = 1
  <2>1. CASE x = s
    <3>1. r.mol[x].current = i
      BY <1>0, <1>6, <1>9, <1>16, <2>1
    <3> QED BY <1>5, <1>18, <2>1, <3>1
  <2>2. CASE x # s
    BY <1>9, <1>16, <2>2
  <2> QED BY <2>1, <2>2
<1> QED
  BY <1>9, <1>16, <1>17, <1>19 DEF Unmoved

\* A molecule that is at an atom is not spent.
LEMMA ActiveIsNotSpent ==
    ASSUME NEW m, IsActive(m)
    PROVE  ~Spent(m)
BY DEF Spent

\* Nobody leaves in the recursive call: every molecule is at an atom.
LEMMA ProceedIsGood ==
    ASSUME NEW q, Consistent(q), Tidy(q), Entire(q), NEW r \in Proceed(q), Sound(r)
    PROVE  /\ Heard(r) /\ Entire(r) /\ Tidy(r)
           /\ Queued(r) = Queued(q) /\ Unmoved(q, r)
           /\ r.done = q.done
<1> DEFINE D == {s \in Playable(q) :
                   \A t \in Playable(q) : t = s \/ Before(q, t, s) => Spent(q.mol[t])}
<1>0. D = {}
  BY ActiveIsNotSpent DEF Entire, EntireBut
<1>1. PICK x \in Finish(q, D) : IF NextUp(x) = {} THEN r \in {x}
                                ELSE r \in UNION {Begin(x, s) : s \in NextUp(x)}
  BY DEF Proceed
<1>2. /\ Consistent(x) /\ x.active = Null /\ Reduces(q, x)
      /\ x.mol = [s \in Queued(q) |-> q.mol[s]] /\ Queued(x) = Queued(q)
      /\ x.done = q.done
  <2>1. D \in SUBSET Queued(q) /\ Queued(q) \ D = Queued(q)
    BY <1>0
  <2>5. D = {}
    BY <1>0
  <2> HIDE DEF D
  <2>2. /\ Consistent(x) /\ x.active = Null
        /\ x.mol = [s \in Queued(q) \ D |-> q.mol[s]] /\ Queued(x) = Queued(q) \ D
    BY <1>1, <2>1, FinishKeeps
  <2>3. Reduces(q, x) /\ Reports(q, D, q.done, x)
    BY <1>1, <2>1, <2>5, FinishReduces
  <2>4. x.done = q.done
    BY <2>3, <2>5 DEF Reports
  <2> QED BY <2>1, <2>2, <2>3, <2>4
<1>3. Tidy(x) /\ Entire(x)
  BY <1>2, ReducedIsTidy DEF Entire, EntireBut, Playable
<1>4. CASE NextUp(x) = {}
  BY <1>1, <1>2, <1>3, <1>4 DEF Heard, Unmoved, Same
<1>5. CASE NextUp(x) # {}
  <2>1. PICK s \in NextUp(x) : r \in Begin(x, s)
    BY <1>1, <1>5
  <2>2. ~Spent(x.mol[s]) /\ EntireBut(x, {s})
    BY <1>3, ActiveIsNotSpent DEF Entire, EntireBut, NextUp
  <2>3. /\ Heard(r) /\ Entire(r) /\ Tidy(r)
        /\ Queued(r) = Queued(x) /\ Unmoved(x, r) /\ r.done = x.done
    BY <1>2, <1>3, <2>1, <2>2, BeginIsGood
  <2> QED BY <1>2, <2>3 DEF Unmoved
<1> QED BY <1>4, <1>5

\* The molecule that is due starts, or it is spent and leaves.
LEMMA SettleIsGood ==
    ASSUME NEW q, Consistent(q), Tidy(q), NEW s \in NextUp(q), EntireBut(q, {s}),
           NEW r \in Settle(q, s), Sound(r)
    PROVE  /\ Heard(r) /\ Entire(r) /\ Tidy(r)
           /\ Unmoved(q, r)
           /\ \/ Queued(r) = Queued(q) /\ ~Spent(q.mol[s]) /\ r.done = q.done
              \/ /\ Queued(r) = Queued(q) \ {s} /\ Spent(q.mol[s])
                 /\ Reports(q, {s}, q.done, r)
<1>0. s \in Playable(q) /\ s \in Queued(q)
  BY DEF NextUp, Playable
<1>1. CASE DividesByZero(q.mol[s]) \/ ~Spent(q.mol[s])
  <2>1. r \in Begin(q, s)
    BY <1>1 DEF Settle
  <2>2. ~DividesByZero(q.mol[s])
    BY <2>1, UndefinedIsUnsound DEF Begin
  <2>3. /\ Heard(r) /\ Entire(r) /\ Tidy(r)
        /\ Queued(r) = Queued(q) /\ Unmoved(q, r) /\ r.done = q.done
    BY <1>1, <2>1, BeginIsGood
  <2> QED BY <1>1, <2>2, <2>3
<1>2. CASE ~(DividesByZero(q.mol[s]) \/ ~Spent(q.mol[s]))
  <2>1. PICK x \in Finish(q, {s}) : r \in Proceed(x)
    BY <1>2 DEF Settle
  <2>2. /\ Consistent(x) /\ Reduces(q, x)
        /\ x.mol = [t \in Queued(q) \ {s} |-> q.mol[t]] /\ Queued(x) = Queued(q) \ {s}
        /\ Reports(q, {s}, q.done, x)
    <3> DEFINE S == {s}
    <3>1. S \in SUBSET Queued(q) /\ s \in S /\ x \in Finish(q, S)
      BY <1>0, <2>1
    <3> HIDE DEF S
    <3>2. /\ Consistent(x)
          /\ x.mol = [t \in Queued(q) \ S |-> q.mol[t]] /\ Queued(x) = Queued(q) \ S
      BY <3>1, FinishKeeps
    <3>3. \A y, z \in S : y = z
      BY DEF S
    <3>4. Reduces(q, x) /\ Reports(q, S, q.done, x)
      BY <3>1, <3>3, FinishReduces
    <3> QED BY <3>2, <3>4 DEF S
  <2>3. Tidy(x) /\ Entire(x)
    BY <2>2, ReducedIsTidy DEF Entire, EntireBut, Playable
  <2>4. /\ Heard(r) /\ Entire(r) /\ Tidy(r)
        /\ Queued(r) = Queued(x) /\ Unmoved(x, r)
        /\ r.done = x.done
    BY <2>1, <2>2, <2>3, ProceedIsGood
  <2> QED BY <1>2, <2>2, <2>4 DEF Unmoved, Reports
<1> QED BY <1>1, <1>2

\* The three ways of `if (_active)': nothing to leave, the active molecule is
\* discarded by one of a higher priority, or it is moved on or stopped.
Left(q, c, x, reason) ==
    \/ /\ q.active = Null \/ (c # q.pin /\ "discard" \notin q.mol[q.pin].mode)
       /\ x = q
    \/ /\ q.active # Null /\ c # q.pin
       /\ q.pin \in Queued(q) /\ "discard" \in q.mol[q.pin].mode
       /\ Queued(x) = Queued(q) \ {q.pin}
       /\ \A s \in Queued(x) : x.mol[s] = q.mol[s]
       /\ Reports(q, {q.pin}, q.done, x)
    \/ /\ q.active # Null /\ c = q.pin
       /\ Queued(x) = Queued(q) /\ x.done = q.done
       /\ \A s \in Queued(q) \ {c} : x.mol[s] = q.mol[s]
       /\ Same(q.mol[c], x.mol[c])
       /\ reason = "eof" => x.mol[c].current = q.mol[c].current + 1
       /\ reason # "eof" => IsActive(x.mol[c])

LEMMA LeaveIsGood ==
    ASSUME NEW q, Consistent(q), Apart(q), Ready(q), Tidy(q), Entire(q),
           NEW c \in NextUp(q), NEW reason, NEW x \in Leave(q, c, reason), Sound(x)
    PROVE  Tidy(x) /\ EntireBut(x, {c}) /\ Left(q, c, x, reason)
<1> DEFINE m == q.mol[c]
           discarded == {s \in ActiveOnes(q) \ {c} : "discard" \in q.mol[s].mode}
           Moved(i, b) == Put(q, c, [m EXCEPT !.current = i, !.stopped = b])
<1>0. c \in Playable(q) /\ c \in Queued(q)
  BY DEF NextUp, Playable
<1>1. Sound(q)
  BY LeaveKeepsNextUp DEF Kept
<1>2. q.active # Null => ActiveOnes(q) = {q.pin} /\ q.pin \in Queued(q) /\ ~Dangling(q)
  BY <1>1, ActiveOfReady DEF Playable
<1>3. EntireBut(q, {c})
  BY DEF Entire, EntireBut
<1>4. CASE q.active = Null \/ (c # q.pin /\ discarded = {})
  <2>1. x = q
    BY <1>2, <1>4 DEF Leave
  <2>2. q.active # Null => "discard" \notin q.mol[q.pin].mode
    BY <1>2, <1>4
  <2> HIDE DEF discarded
  <2> QED BY <1>3, <1>4, <2>1, <2>2 DEF Left
<1>5. CASE q.active # Null /\ discarded # {}
  <2>1. c # q.pin /\ discarded = {q.pin} /\ "discard" \in q.mol[q.pin].mode
    <3>1. PICK s \in ActiveOnes(q) \ {c} : "discard" \in q.mol[s].mode
      BY <1>5
    <3>2. s = q.pin
      BY <1>2, <1>5, <3>1
    <3>3. \A t \in discarded : t = q.pin
      BY <1>2, <1>5
    <3>4. q.pin \in discarded
      BY <3>1, <3>2
    <3> HIDE DEF discarded
    <3> QED BY <3>1, <3>2, <3>3, <3>4
  <2>2. x \in Finish(q, discarded)
    BY <1>2, <1>5 DEF Leave
  <2>3. discarded \in SUBSET Queued(q) /\ q.pin \in discarded
    <3> HIDE DEF discarded
    <3> QED BY <1>2, <1>5, <2>1
  <2> HIDE DEF discarded
  <2>4. /\ Consistent(x)
        /\ x.mol = [s \in Queued(q) \ discarded |-> q.mol[s]]
        /\ Queued(x) = Queued(q) \ discarded
    BY <2>2, <2>3, FinishKeeps
  <2>5. Reduces(q, x) /\ Reports(q, {q.pin}, q.done, x)
    <3>1. \A s, y \in discarded : s = y
      BY <2>1
    <3> QED BY <2>1, <2>2, <2>3, <3>1, FinishReduces
  <2>6. Tidy(x)
    BY <2>4, <2>5, ReducedIsTidy
  <2>7. EntireBut(x, {c})
    BY <1>3, <2>4 DEF EntireBut, Playable
  <2>8. Queued(x) = Queued(q) \ {q.pin} /\ \A s \in Queued(x) : x.mol[s] = q.mol[s]
    BY <2>1, <2>4
  <2> QED BY <1>2, <1>5, <2>1, <2>5, <2>6, <2>7, <2>8 DEF Left
<1>6. CASE q.active # Null /\ c = q.pin /\ discarded = {}
  <2>1. /\ m \in Molecule /\ m.current \in Nat \ {0} /\ m.current <= Len(m.atoms)
        /\ Len(m.atoms) \in Nat
        /\ \A k \in DOMAIN m.atoms : m.atoms[k].molecule = c
    <3>1. /\ m \in Molecule /\ IsActive(m)
          /\ \A k \in DOMAIN m.atoms : m.atoms[k].molecule = c
      BY <1>0, MoleculeType DEF Entire, EntireBut
    <3> HIDE DEF m
    <3> QED BY <3>1 DEF IsActive, Molecule
  <2>2. ASSUME NEW i \in Nat \ {0}, NEW b \in BOOLEAN, x = Moved(i, b),
               reason = "eof" => i = m.current + 1,
               reason # "eof" => i <= Len(m.atoms)
        PROVE  Tidy(x) /\ EntireBut(x, {c}) /\ Left(q, c, x, reason)
    <3> DEFINE n == [m EXCEPT !.current = i, !.stopped = b]
    <3>1. /\ n \in Molecule /\ n.atoms = m.atoms /\ n.mode = m.mode /\ n.id = m.id
          /\ n.priority = m.priority /\ n.started = m.started /\ n.current = i
      <4> HIDE DEF m
      <4> QED BY <2>1 DEF Molecule
    <3>2. x = Put(q, c, n)
      BY <2>2
    <3> HIDE DEF n
    <3>3. \A k \in DOMAIN n.atoms : n.atoms[k].molecule = c
      BY <2>1, <3>1
    <3>4. Consistent(x)
      BY <1>0, <3>1, <3>2, <3>3, PutKeeps
    <3>5. /\ Reduces(q, x) /\ Queued(x) = Queued(q) /\ x.mol[c] = n
          /\ \A s \in Queued(q) \ {c} : x.mol[s] = q.mol[s]
          /\ x.done = q.done
      BY <1>0, <3>1, <3>2, PutReduces
    <3>6. Tidy(x)
      BY <3>4, <3>5, ReducedIsTidy
    <3>7. EntireBut(x, {c})
      BY <1>3, <3>5 DEF EntireBut, Playable
    <3>8. reason # "eof" => IsActive(x.mol[c])
      BY <2>2, <3>1, <3>5 DEF IsActive
    <3>9. Same(q.mol[c], x.mol[c])
      BY <3>1, <3>5 DEF Same
    <3> QED BY <1>6, <2>2, <3>1, <3>5, <3>6, <3>7, <3>8, <3>9 DEF Left
  <2>3. x \notin Misread(q, Sounds(m), {})
    BY MisreadIsUnsound
  <2>4. IF reason = "eof" THEN x = Moved(m.current + 1, m.stopped \/ m.current + 1 > Len(m.atoms))
        ELSE \E i \in Seekable(m) \cup {m.current} : x = Moved(i, TRUE)
    BY <1>2, <1>6, <2>3 DEF Leave
  <2>5. CASE reason = "eof"
    <3>1. (m.stopped \/ m.current + 1 > Len(m.atoms)) \in BOOLEAN
      BY Zenon
    <3>2. m.current + 1 \in Nat \ {0}
      BY <2>1
    <3> QED BY <1>6, <2>2, <2>4, <2>5, <3>1, <3>2
  <2>6. CASE reason # "eof"
    <3>1. PICK i \in Seekable(m) \cup {m.current} : x = Moved(i, TRUE)
      BY <2>4, <2>6
    <3>2. i \in Nat \ {0} /\ i <= Len(m.atoms)
      BY <2>1 DEF Seekable, Sounds
    <3> HIDE DEF Moved
    <3> QED BY <1>6, <2>2, <2>6, <3>1, <3>2
  <2> QED BY <2>5, <2>6
<1> QED
  BY <1>4, <1>5, <1>6

\* Where a molecule goes on when its current atom has ended.
Onward(m) == IF Loops(m) = "seeks" THEN 1 .. Len(m.atoms)
             ELSE IF m.current < Len(m.atoms) THEN {m.current + 1}
             ELSE IF Loops(m) = "wraps" THEN {1} ELSE {}

\* s is at the atom it was at, or it seeks and is due.
Stays(q, r, s) == \/ r.mol[s].current = q.mol[s].current
                  \/ Loops(q.mol[s]) = "seeks" /\ s \in NextUp(r)

\* Exactly what one call of schedule makes of the molecules of q: only the
\* active one may leave or move on, and what becomes of it depends on whether
\* it is the one that is due and why schedule was called.
Played(q, r, reason) ==
    /\ \A s \in Queued(r) :
          /\ s \in Queued(q) /\ Same(q.mol[s], r.mol[s])
          /\ Stays(q, r, s) \/ (q.active # Null /\ s = q.pin /\ s \in NextUp(q))
    /\ \A s \in Queued(q) \ Queued(r) : q.active # Null /\ s = q.pin
    /\ q.active # Null =>
          LET m == q.mol[q.pin]
          IN  IF q.pin \notin NextUp(q) THEN q.pin \in Queued(r) <=> "discard" \notin m.mode
              ELSE IF reason # "eof" THEN q.pin \in Queued(r)
              ELSE IF Onward(m) = {} THEN q.pin \notin Queued(r)
              ELSE q.pin \in Queued(r) /\ r.mol[q.pin].current \in Onward(m)

\* molecule_done was called for who left, and for nobody else.
Recounts(q, done, r) == Reports(q, Queued(q) \ Queued(r), done, r)

\* Whoever was never heard nor stopped begins with its first atom.
Fresh(q, r) == \A s \in Queued(r) :
    \/ q.active # Null /\ s = q.pin
    \/ q.mol[s].started \/ q.mol[s].stopped \/ q.mol[s].current # 1
    \/ r.mol[s].current = 1

LEMMA NextUpUnique ==
    ASSUME NEW q, Consistent(q), NEW s \in NextUp(q), NEW t \in NextUp(q)
    PROVE  s = t
<1> SUFFICES ASSUME s # t PROVE FALSE
  OBVIOUS
<1>1. s \in Playable(q) /\ t \in Playable(q) /\ Before(q, s, t) /\ Before(q, t, s)
  BY DEF NextUp
<1> QED
  BY <1>1, BeforeAsymmetric DEF Playable

\* Who was at an atom and is not due in r is where it was.
LEMMA UnmovedStays ==
    ASSUME NEW q, NEW r, NEW x, Unmoved(x, r), Entire(q), NEW s \in Queued(r),
           s \in Queued(q), x.mol[s] = q.mol[s]
    PROVE  /\ Same(q.mol[s], r.mol[s]) /\ Stays(q, r, s)
           /\ \/ q.mol[s].started \/ q.mol[s].stopped \/ q.mol[s].current # 1
              \/ r.mol[s].current = 1
<1>1. s \in NextUp(r) => IsActive(q.mol[s])
  BY DEF Unmoved, Same, NextUp, Playable, Entire, EntireBut
<1> QED
  BY <1>1 DEF Unmoved, Stays

\* The parts of schedule, one after the other.
LEMMA PartsPlay ==
    ASSUME NEW q, Consistent(q), Entire(q), NEW c \in NextUp(q), NEW reason, NEW x, NEW r,
           Left(q, c, x, reason),
           q.active # Null => q.pin \in Queued(q),
           Consistent(r), Entire(r), Unmoved(x, r),
           \/ Queued(r) = Queued(x) /\ ~Spent(x.mol[c]) /\ r.done = x.done
           \/ /\ Queued(r) = Queued(x) \ {c} /\ Spent(x.mol[c])
              /\ Reports(x, {c}, x.done, r)
    PROVE  Played(q, r, reason) /\ Recounts(q, q.done, r) /\ Fresh(q, r)
<1> DEFINE m == q.mol[c]
<1>1. /\ c \in Playable(q) /\ c \in Queued(q) /\ IsActive(m) /\ m.atoms # <<>>
      /\ m \in Molecule /\ ~Spent(m)
  BY MoleculeType, ActiveIsNotSpent DEF NextUp, Playable, Entire, EntireBut
<1>2. c # q.pin => q.pin \notin NextUp(q)
  BY NextUpUnique
<1>3. CASE x = q /\ (q.active = Null \/ (c # q.pin /\ "discard" \notin q.mol[q.pin].mode))
  <2>1. Queued(r) = Queued(q) /\ r.done = q.done
    BY <1>1, <1>3
  <2>2. (\A s \in Queued(r) : Same(q.mol[s], r.mol[s]) /\ Stays(q, r, s)) /\ Fresh(q, r)
    BY <1>3, <2>1, UnmovedStays DEF Fresh
  <2> QED BY <1>2, <1>3, <2>1, <2>2 DEF Played, Recounts, Reports
<1>4. CASE /\ q.active # Null /\ c # q.pin
           /\ q.pin \in Queued(q) /\ "discard" \in q.mol[q.pin].mode
           /\ Queued(x) = Queued(q) \ {q.pin}
           /\ \A s \in Queued(x) : x.mol[s] = q.mol[s]
           /\ Reports(q, {q.pin}, q.done, x)
  <2>1. x.mol[c] = m
    BY <1>1, <1>4
  <2>2. Queued(r) = Queued(q) \ {q.pin} /\ r.done = x.done
    BY <1>1, <1>4, <2>1
  <2>3. (\A s \in Queued(r) : Same(q.mol[s], r.mol[s]) /\ Stays(q, r, s)) /\ Fresh(q, r)
    BY <1>4, <2>2, UnmovedStays DEF Fresh
  <2>4. Queued(q) \ Queued(r) = {q.pin}
    BY <1>4, <2>2
  <2>5. Recounts(q, q.done, r)
    BY <1>4, <2>2, <2>4 DEF Recounts, Reports
  <2> QED BY <1>2, <1>4, <2>2, <2>3, <2>5 DEF Played
<1>5. CASE /\ q.active # Null /\ c = q.pin
           /\ Queued(x) = Queued(q) /\ x.done = q.done
           /\ \A s \in Queued(q) \ {c} : x.mol[s] = q.mol[s]
           /\ Same(m, x.mol[c])
           /\ reason = "eof" => x.mol[c].current = m.current + 1
           /\ reason # "eof" => IsActive(x.mol[c])
  <2>1. \A s \in Queued(r) \ {c} : /\ s \in Queued(q) /\ Same(q.mol[s], r.mol[s])
                                   /\ Stays(q, r, s)
    BY <1>5, UnmovedStays DEF Unmoved
  <2>9. Fresh(q, r)
    BY <1>5, UnmovedStays DEF Unmoved, Fresh
  <2>2. c \in Queued(r) => Same(m, r.mol[c])
    BY <1>5 DEF Unmoved, Same
  <2>3. Queued(q) \ Queued(r) = IF Spent(x.mol[c]) THEN {c} ELSE {}
    BY <1>1, <1>5
  <2>4. Recounts(q, q.done, r)
    <3>1. CASE Spent(x.mol[c])
      <4>1. DoneFor(x, c) = DoneFor(q, c)
        BY <1>1, <1>5, SameMoleculesDoneFor DEF Same
      <4>2. Reports(q, {c}, q.done, r)
        BY <1>5, <3>1, <4>1 DEF Reports
      <4> QED BY <2>3, <3>1, <4>2 DEF Recounts
    <3>2. CASE ~Spent(x.mol[c])
      BY <1>5, <2>3, <3>2 DEF Recounts, Reports
    <3> QED BY <3>1, <3>2
  <2>5. ASSUME reason # "eof"
        PROVE  c \in Queued(r)
    BY <1>1, <1>5, <2>5, ActiveIsNotSpent
  <2>6. /\ m.current \in Nat \ {0} /\ Len(m.atoms) \in Nat /\ m.current <= Len(m.atoms)
        /\ Loops(x.mol[c]) = Loops(m) /\ x.mol[c].atoms = m.atoms
    <3> HIDE DEF m
    <3> QED BY <1>1, <1>5 DEF Molecule, IsActive, Same, Loops
  <2>7. ASSUME reason = "eof", Spent(x.mol[c])
        PROVE  Onward(m) = {}
    <3>1. ~(m.current + 1 <= Len(m.atoms)) /\ ~Looped(x.mol[c])
      BY <1>1, <1>5, <2>6, <2>7 DEF Spent, IsActive
    <3>2. ~(m.current < Len(m.atoms))
      BY <2>6, <3>1
    <3>3. Loops(m) = "no"
      BY <1>5, <2>6, <2>7, <3>1 DEF Looped, Loops, Spent
    <3> HIDE DEF m
    <3> QED BY <3>2, <3>3 DEF Onward
  <2>8. ASSUME reason = "eof", ~Spent(x.mol[c])
        PROVE  c \in Queued(r) /\ r.mol[c].current \in Onward(m)
    <3>1. c \in Queued(r) /\ x.mol[c].current = m.current + 1
      BY <1>1, <1>5, <2>8
    <3>2. IsActive(r.mol[c]) /\ r.mol[c].atoms = m.atoms
      BY <1>1, <2>2, <3>1 DEF Same, Entire, EntireBut, Playable
    <3>3. r.mol[c].current <= Len(m.atoms)
      BY <3>2 DEF IsActive
    <3>4. CASE r.mol[c].current = m.current + 1
      <4> HIDE DEF m
      <4> QED BY <2>6, <3>3, <3>4, <3>1 DEF Onward
    <3>5. CASE Loops(m) = "seeks" /\ r.mol[c].current \in Nat \ {0}
      <4> HIDE DEF m
      <4> QED BY <2>6, <3>1, <3>3, <3>5 DEF Onward
    <3>6. CASE Loops(m) = "wraps" /\ ~IsActive(x.mol[c]) /\ r.mol[c].current = 1
      <4>1. ~(m.current < Len(m.atoms))
        BY <2>6, <3>1, <3>6 DEF IsActive
      <4> HIDE DEF m
      <4> QED BY <3>1, <3>6, <4>1 DEF Onward
    <3>7. r.mol[c].current \in Nat \ {0}
      BY <3>1, MoleculeType DEF Molecule
    <3> QED BY <2>6, <3>1, <3>4, <3>5, <3>6, <3>7 DEF Unmoved
  <2> QED BY <1>1, <1>5, <2>1, <2>2, <2>3, <2>4, <2>5, <2>7, <2>8, <2>9 DEF Played
<1> QED
  BY <1>3, <1>4, <1>5 DEF Left

\* What follows for the molecules of q: who leaves was active, and was at its
\* last atom or gave way to a higher priority; who stays is where it was, unless
\* it loops or an event or a stop moved it.
Went(q, r, reason) ==
    /\ \A s \in Queued(r) : s \in Queued(q) /\ r.mol[s].atoms = q.mol[s].atoms
    /\ \A s \in Queued(q) \ Queued(r) :
          /\ q.active # Null /\ s = q.pin
          /\ \E d \in r.done : d.id = q.mol[s].id
          /\ \/ /\ reason = "eof" /\ q.mol[s].current = Len(q.mol[s].atoms)
                /\ "loop" \in q.mol[s].mode =>
                      q.mol[s].mode \cap {"restart", "mute", "pause"} = {}
             \/ /\ "discard" \in q.mol[s].mode
                /\ \E t \in Queued(r) : r.mol[t].priority > q.mol[s].priority
    /\ \A s \in Queued(r) :
          \/ "loop" \in q.mol[s].mode
          \/ r.mol[s].current = q.mol[s].current
          \/ /\ q.active # Null /\ s = q.pin /\ s \in NextUp(q)
             /\ reason = "eof" => r.mol[s].current = q.mol[s].current + 1

LEMMA PlayedWent ==
    ASSUME NEW q, Consistent(q), Sound(q), Apart(q), Ready(q), Entire(q), NEW reason,
           NEW done, NEW r, Kept(q, r), Played(q, r, reason), Recounts(q, done, r)
    PROVE  Went(q, r, reason)
<1>1. \A s \in Queued(r) : s \in Queued(q) /\ r.mol[s].atoms = q.mol[s].atoms
  BY DEF Played, Same
<1>2. ASSUME q.active # Null
      PROVE  LET m == q.mol[q.pin]
             IN  /\ q.pin \in Playable(q) /\ q.pin \in Queued(q)
                 /\ m \in Molecule /\ m.current \in Nat /\ Len(m.atoms) \in Nat
                 /\ m.current <= Len(m.atoms)
  <2> DEFINE m == q.mol[q.pin]
  <2>1. q.pin \in Playable(q)
    BY <1>2, ActiveOfReady
  <2>2. q.pin \in Queued(q) /\ m \in Molecule /\ IsActive(m)
    BY <2>1, MoleculeType DEF Playable, Entire, EntireBut
  <2> HIDE DEF m
  <2>3. m.current \in Nat /\ Len(m.atoms) \in Nat /\ m.current <= Len(m.atoms)
    BY <2>2 DEF Molecule, IsActive
  <2> QED BY <2>1, <2>2, <2>3 DEF m
<1>3. ASSUME NEW s \in Queued(q) \ Queued(r)
      PROVE  /\ q.active # Null /\ s = q.pin
             /\ \E d \in r.done : d.id = q.mol[s].id
             /\ \/ /\ reason = "eof" /\ q.mol[s].current = Len(q.mol[s].atoms)
                   /\ "loop" \in q.mol[s].mode =>
                         q.mol[s].mode \cap {"restart", "mute", "pause"} = {}
                \/ /\ "discard" \in q.mol[s].mode
                   /\ \E t \in Queued(r) : r.mol[t].priority > q.mol[s].priority
  <2> DEFINE m == q.mol[q.pin]
  <2>1. q.active # Null /\ s = q.pin
    BY DEF Played
  <2>2. \E d \in r.done : d.id = q.mol[s].id
    <3>1. PICK x \in Queued(q) \ Queued(r) : \E d \in DoneFor(q, x) : r.done = done \cup {d}
      BY DEF Recounts, Reports
    <3>2. x = s
      BY <2>1 DEF Played
    <3> QED BY <3>1, <3>2 DEF DoneFor
  <2>3. CASE q.pin \in NextUp(q)
    <3>1. reason = "eof" /\ Onward(m) = {}
      BY <2>1, <2>3 DEF Played
    <3>2. Loops(m) = "no" /\ ~(m.current < Len(m.atoms))
      <4>1. Len(m.atoms) \in Nat /\ Len(m.atoms) >= 1
        <5>1. m.atoms # <<>> /\ m.atoms \in Seq(Atom)
          BY <1>2, <2>1 DEF Playable, Molecule
        <5> HIDE DEF m
        <5> QED BY <5>1
      <4> HIDE DEF m
      <4>2. 1 \in 1 .. Len(m.atoms)
        BY <4>1
      <4> QED BY <3>1, <4>2 DEF Onward, Loops
    <3>3. m.current = Len(m.atoms)
      BY <1>2, <2>1, <3>2
    <3>4. "loop" \in m.mode => m.mode \cap {"restart", "mute", "pause"} = {}
      <4> HIDE DEF m
      <4> QED BY <3>2 DEF Loops
    <3> QED BY <2>1, <2>2, <3>1, <3>3, <3>4
  <2>4. CASE q.pin \notin NextUp(q)
    <3>1. "discard" \in m.mode
      BY <2>1, <2>4 DEF Played
    <3>2. PICK c \in NextUp(q) : TRUE
      BY <1>2, <2>1, NextUpExists
    <3>3. c \in Playable(q) /\ c \in Queued(q) /\ c # q.pin
      BY <2>4, <3>2 DEF NextUp, Playable
    <3>4. c \in Queued(r)
      BY <3>3 DEF Played
    <3>5. Before(q, c, q.pin)
      BY <1>2, <2>1, <3>2, <3>3 DEF NextUp
    <3>6. q.mol[c].priority = m.priority => q.pin < c
      BY <2>1, <3>3 DEF Ready
    <3>7. c \in Int /\ q.pin \in Int /\ q.mol[c].priority \in Int /\ m.priority \in Int
      BY <1>2, <2>1, <3>3, MoleculeType, PrioritiesAssumption, BoundsAssumption
      DEF Molecule, Priorities, Serials
    <3>8. r.mol[c].priority > m.priority
      BY <3>4, <3>5, <3>6, <3>7 DEF Before, Kept, Fewer
    <3> QED BY <2>1, <2>2, <3>1, <3>4, <3>8
  <2> QED BY <2>3, <2>4
<1>4. ASSUME NEW s \in Queued(r)
      PROVE  \/ "loop" \in q.mol[s].mode
             \/ r.mol[s].current = q.mol[s].current
             \/ /\ q.active # Null /\ s = q.pin /\ s \in NextUp(q)
                /\ reason = "eof" => r.mol[s].current = q.mol[s].current + 1
  <2>1. CASE Stays(q, r, s)
    BY <2>1 DEF Stays, Loops
  <2>2. CASE q.active # Null /\ s = q.pin /\ s \in NextUp(q)
    <3>1. reason = "eof" => r.mol[s].current \in Onward(q.mol[s])
      BY <2>2 DEF Played
    <3>2. "loop" \notin q.mol[s].mode => Onward(q.mol[s]) \subseteq {q.mol[s].current + 1}
      BY DEF Onward, Loops
    <3> QED BY <2>2, <3>1, <3>2
  <2> QED BY <2>1, <2>2 DEF Played
<1> QED
  BY <1>1, <1>3, <1>4 DEF Went

LEMMA ScheduleIsGood ==
    ASSUME NEW q, Consistent(q), Apart(q), Ready(q), Tidy(q), Entire(q), NEW reason,
           NEW r \in Schedule(q, reason), Sound(r)
    PROVE  /\ Heard(r) /\ Entire(r) /\ Tidy(r) /\ Went(q, r, reason)
           /\ Played(q, r, reason) /\ Recounts(q, q.done, r) /\ Fresh(q, r)
<1>0. Sound(q) /\ Kept(q, r) /\ Consistent(r)
  BY ScheduleIsDue, ScheduleKeeps DEF Kept
<1>1. CASE NextUp(q) = {}
  <2>1. r = Idle(q)
    BY <1>1 DEF Schedule
  <2>2. /\ r.mol = q.mol /\ r.open = q.open /\ r.timers = q.timers
        /\ r.done = q.done /\ r.active = Null /\ Consistent(r)
    BY <2>1, IdleFields, IdleKeeps
  <2>3. Tidy(r)
    BY <2>2, SameReduces, ReducedIsTidy
  <2>4. q.active = Null
    BY <1>0, <1>1, NextUpExists, ActiveOfReady
  <2>5. Played(q, r, reason) /\ Recounts(q, q.done, r) /\ Fresh(q, r)
    <3>1. Queued(r) = Queued(q)
      BY <2>2 DEF Queued
    <3> QED BY <2>2, <2>4, <3>1 DEF Played, Recounts, Reports, Fresh, Same, Stays
  <2>6. Went(q, r, reason)
    BY <1>0, <2>5, PlayedWent
  <2> QED BY <2>2, <2>3, <2>5, <2>6 DEF Heard, Entire, EntireBut, Playable, Queued
<1>2. CASE NextUp(q) # {}
  <2>0. PICK c \in NextUp(q) : \E x \in Leave(q, c, reason) :
            r \in IF x.crashed \/ Target(x, Address(q, c)) = {} THEN {Undefined(x)}
                  ELSE UNION {Settle(x, s) : s \in Target(x, Address(q, c))}
    BY <1>2 DEF Schedule
  <2>1. PICK x \in Leave(q, c, reason) :
            r \in IF x.crashed \/ Target(x, Address(q, c)) = {} THEN {Undefined(x)}
                  ELSE UNION {Settle(x, s) : s \in Target(x, Address(q, c))}
    BY <2>0
  <2>2. /\ Consistent(x) /\ Kept(q, x) /\ Apart(x)
        /\ Sound(x) => c \in NextUp(x) /\ Address(x, c) = Address(q, c)
    BY LeaveKeeps, LeaveKeepsNextUp, KeptApart DEF NextUp, Playable
  <2>3. PICK s \in Target(x, Address(q, c)) : r \in Settle(x, s)
    BY <2>1, <2>2, UndefinedIsUnsound
  <2>4. Sound(x)
    BY <2>2, <2>3, SettleIsDue DEF Target, Kept
  <2>5. s = c
    BY <2>2, <2>3, <2>4, TargetOfAddress DEF NextUp, Playable
  <2>6. Tidy(x) /\ EntireBut(x, {c}) /\ Left(q, c, x, reason)
    BY <2>4, LeaveIsGood
  <2>7. /\ Heard(r) /\ Entire(r) /\ Tidy(r) /\ Unmoved(x, r)
        /\ \/ Queued(r) = Queued(x) /\ ~Spent(x.mol[c]) /\ r.done = x.done
           \/ /\ Queued(r) = Queued(x) \ {c} /\ Spent(x.mol[c])
              /\ Reports(x, {c}, x.done, r)
    BY <2>2, <2>3, <2>4, <2>5, <2>6, SettleIsGood
  <2>8. q.active # Null => q.pin \in Queued(q)
    BY <1>0, ActiveOfReady DEF Playable
  <2>10. Played(q, r, reason) /\ Recounts(q, q.done, r) /\ Fresh(q, r)
    BY <1>0, <2>6, <2>7, <2>8, PartsPlay
  <2>9. Went(q, r, reason)
    BY <1>0, <2>10, PlayedWent
  <2> QED BY <2>7, <2>9, <2>10
<1> QED BY <1>1, <1>2

-----------------------------------------------------------------------------
(* What the process crashes on.                                            *)

Blamed(q) == \/ q.faults \cap {"stale", "start", "file", "empty", "wild"} # {}
             \/ \E s \in Queued(q) : "loop" \in q.mol[s].mode /\ Sounds(q.mol[s]) = {}

Explained(q) == q.crashed => Blamed(q)

\* A queue that is neither sound nor crashed has one of these faults.
LEMMA UnsoundIsBlamed ==
    ASSUME NEW q, ~Sound(q), ~q.crashed
    PROVE  q.faults \cap {"stale", "start", "file", "empty", "wild"} # {}
BY DEF Sound

LEMMA UndefinedExplained ==
    ASSUME NEW q, Consistent(q), Blamed(q)
    PROVE  Explained(Undefined(q))
<1>1. Undefined(q).faults = q.faults /\ Undefined(q).mol = q.mol
  BY DEF Undefined, Consistent, IsSession, Session
<1> QED
  BY <1>1 DEF Explained, Blamed, Queued

LEMMA MisreadExplained ==
    ASSUME NEW q, Consistent(q), NEW A, NEW E, NEW r \in Misread(q, A, E)
    PROVE  Explained(r)
<1>1. r = Note(Undefined(q), "file", TRUE) \/ r = Note(Undefined(q), "empty", TRUE)
  BY DEF Misread
<1>2. "file" \in r.faults \/ "empty" \in r.faults
  BY <1>1, UndefinedKeeps, NoteFrame
<1> QED
  BY <1>2 DEF Explained, Blamed

LEMMA BeginExplained ==
    ASSUME NEW q, Consistent(q), ~q.crashed, NEW s \in Queued(q), NEW r \in Begin(q, s)
    PROVE  Explained(r)
<1>1. CASE DividesByZero(q.mol[s])
  <2>1. r = Undefined(q)
    BY <1>1 DEF Begin
  <2>2. Blamed(q)
    BY <1>1 DEF DividesByZero, Measured, Looped, Blamed
  <2> QED BY <2>1, <2>2, UndefinedExplained
<1>2. CASE r \in Misread(q, LengthsRead(q.mol[s]), Divisor(q.mol[s]))
  BY <1>2, MisreadExplained
<1>3. CASE ~DividesByZero(q.mol[s]) /\ r \notin Misread(q, LengthsRead(q.mol[s]), Divisor(q.mol[s]))
  <2>1. PICK m : r = Success(Put(q, s, m), s) \/ r = Failure(Put(q, s, m), s)
    BY <1>3 DEF Begin
  <2> DEFINE t == Put(q, s, m)
             a == CurrentAtom(t.mol[s])
             u == StartAtom(t, a)
             v == FailAtom(t, a)
  <2>2. t.crashed = FALSE /\ DOMAIN t = DOMAIN q
    <3>1. q.crashed = FALSE
      BY DEF Consistent, IsSession, Session
    <3> QED BY <3>1 DEF Put, Consistent, IsSession, Session
  <2>3. {"crashed", "faults", "mol", "active", "pin", "open", "source", "player", "timers"}
           \subseteq DOMAIN q
    BY DEF Consistent, IsSession, Session
  <2> HIDE DEF t
  <2>4. CASE r = Success(t, s)
    <3>1. u.crashed = FALSE /\ DOMAIN u = DOMAIN q
      BY <2>2, <2>3 DEF StartAtom
    <3> HIDE DEF u
    <3>2. PICK n : r = [Put(u, s, n) EXCEPT !.active = Address(t, s), !.pin = s]
      BY <2>4 DEF Success, u, a
    <3>3. r.crashed = FALSE
      BY <2>3, <3>1, <3>2 DEF Put
    <3> QED BY <3>3 DEF Explained
  <2>5. CASE r = Failure(t, s)
    <3>1. DOMAIN v = DOMAIN q
      BY <2>2 DEF FailAtom
    <3> HIDE DEF v
    <3>2. PICK n : r = Note(Put(v, s, n), "start", TRUE)
      BY <2>5 DEF Failure, v, a
    <3> DEFINE w == Put(v, s, n)
    <3>3. "faults" \in DOMAIN w
      BY <2>3, <3>1 DEF Put
    <3> HIDE DEF w
    <3>4. "start" \in r.faults
      BY <3>2, <3>3 DEF Note, w
    <3> QED BY <3>4 DEF Explained, Blamed
  <2> QED BY <2>1, <2>4, <2>5 DEF t
<1> QED BY <1>1, <1>2, <1>3

LEMMA ProceedExplained ==
    ASSUME NEW q, Consistent(q), ~q.crashed, NEW r \in Proceed(q)
    PROVE  Explained(r)
<1> DEFINE D == {s \in Playable(q) :
                   \A t \in Playable(q) : t = s \/ Before(q, t, s) => Spent(q.mol[t])}
<1>1. PICK x \in Finish(q, D) : IF NextUp(x) = {} THEN r \in {x}
                                ELSE r \in UNION {Begin(x, s) : s \in NextUp(x)}
  BY DEF Proceed
<1>2. D \in SUBSET Queued(q)
  BY DEF Playable
<1> HIDE DEF D
<1>3. Consistent(x) /\ ~x.crashed
  <2>1. Consistent(x) /\ x.crashed = q.crashed
    BY <1>1, <1>2, FinishKeeps, FinishReduces
  <2> QED BY <2>1
<1> QED
  BY <1>1, <1>3, BeginExplained DEF Explained, NextUp, Playable

LEMMA SettleExplained ==
    ASSUME NEW q, Consistent(q), ~q.crashed, NEW s \in Queued(q), NEW r \in Settle(q, s)
    PROVE  Explained(r)
<1>1. CASE DividesByZero(q.mol[s]) \/ ~Spent(q.mol[s])
  BY <1>1, BeginExplained DEF Settle
<1>2. CASE ~(DividesByZero(q.mol[s]) \/ ~Spent(q.mol[s]))
  <2> DEFINE D == {s}
  <2>1. PICK x \in Finish(q, D) : r \in Proceed(x)
    BY <1>2 DEF Settle
  <2>2. D \in SUBSET Queued(q)
    OBVIOUS
  <2> HIDE DEF D
  <2>3. Consistent(x) /\ ~x.crashed
    <3>1. Consistent(x) /\ x.crashed = q.crashed
      BY <2>1, <2>2, FinishKeeps, FinishReduces
    <3> QED BY <3>1
  <2> QED BY <2>1, <2>3, ProceedExplained
<1> QED BY <1>1, <1>2

LEMMA LeaveExplained ==
    ASSUME NEW q, Consistent(q), Apart(q), Ready(q), ~q.crashed,
           NEW c \in NextUp(q), NEW reason, NEW x \in Leave(q, c, reason)
    PROVE  Explained(x)
<1> DEFINE m == q.mol[c]
           discarded == {s \in ActiveOnes(q) \ {c} : "discard" \in q.mol[s].mode}
<1>1. CASE x = q
  BY <1>1 DEF Explained
<1>2. CASE q.active # Null /\ Dangling(q)
  <2>1. ~Sound(q)
    BY <1>2, ActiveOfReady
  <2>2. Kept(q, x)
    BY LeaveKeepsNextUp
  <2> QED BY <2>1, <2>2, UnsoundIsBlamed DEF Kept, Explained, Blamed
<1>3. CASE x \in Finish(q, discarded)
  <2>1. discarded \in SUBSET Queued(q)
    BY DEF ActiveOnes, Target
  <2> HIDE DEF discarded
  <2> QED BY <1>3, <2>1, FinishReduces DEF Explained
<1>4. ASSUME NEW n, x = Put(q, c, n)
      PROVE  Explained(x)
  <2>1. x.crashed = q.crashed
    BY <1>4 DEF Put, Consistent, IsSession, Session
  <2> QED BY <2>1 DEF Explained
<1>5. CASE x \in Misread(q, Sounds(m), {})
  BY <1>5, MisreadExplained
<1>6. \/ x = q \/ (q.active # Null /\ Dangling(q)) \/ x \in Finish(q, discarded)
      \/ \E n : x = Put(q, c, n)
      \/ x \in Misread(q, Sounds(m), {})
  BY DEF Leave
<1> QED BY <1>1, <1>2, <1>3, <1>4, <1>5, <1>6

LEMMA ScheduleExplained ==
    ASSUME NEW q, Consistent(q), Apart(q), Ready(q), ~q.crashed, NEW reason,
           NEW r \in Schedule(q, reason)
    PROVE  Explained(r)
<1>1. CASE NextUp(q) = {}
  BY <1>1, IdleFields DEF Schedule, Explained
<1>2. CASE NextUp(q) # {}
  <2>0. PICK c \in NextUp(q) : \E x \in Leave(q, c, reason) :
            r \in IF x.crashed \/ Target(x, Address(q, c)) = {} THEN {Undefined(x)}
                  ELSE UNION {Settle(x, s) : s \in Target(x, Address(q, c))}
    BY <1>2 DEF Schedule
  <2>1. PICK x \in Leave(q, c, reason) :
            r \in IF x.crashed \/ Target(x, Address(q, c)) = {} THEN {Undefined(x)}
                  ELSE UNION {Settle(x, s) : s \in Target(x, Address(q, c))}
    BY <2>0
  <2>2. /\ Consistent(x) /\ Explained(x)
        /\ Sound(x) => c \in NextUp(x) /\ Address(x, c) = Address(q, c)
    BY LeaveKeeps, LeaveKeepsNextUp, LeaveExplained DEF NextUp, Playable
  <2>3. CASE x.crashed
    BY <2>1, <2>2, <2>3, UndefinedExplained DEF Explained
  <2>4. CASE ~x.crashed /\ Target(x, Address(q, c)) = {}
    <3>1. ~Sound(x)
      BY <2>2, <2>4 DEF Target, NextUp, Playable
    <3>2. Blamed(x)
      BY <2>4, <3>1, UnsoundIsBlamed DEF Blamed
    <3> QED BY <2>1, <2>2, <2>4, <3>2, UndefinedExplained
  <2>5. CASE ~x.crashed /\ Target(x, Address(q, c)) # {}
    <3>1. PICK s \in Target(x, Address(q, c)) : r \in Settle(x, s)
      BY <2>1, <2>5
    <3> QED BY <2>2, <2>5, <3>1, SettleExplained DEF Target
  <2> QED BY <2>3, <2>4, <2>5
<1> QED BY <1>1, <1>2

-----------------------------------------------------------------------------
(* From a step's first state to the call of schedule.                      *)

\* r is what an event makes of q before it calls schedule: molecules are as
\* they were, but may have been stopped.
Precedes(q, r) ==
    /\ Consistent(r) /\ Mirrors(q, r) /\ Reduces(q, r)
    /\ r.crashed = q.crashed
    /\ \A s \in Queued(q) : /\ r.mol[s].mode = q.mol[s].mode
                            /\ r.mol[s].id = q.mol[s].id
                            /\ r.mol[s].current = q.mol[s].current

LEMMA PrecedesTransitive ==
    ASSUME NEW q, NEW r, NEW x, Precedes(q, r), Precedes(r, x)
    PROVE  Precedes(q, x)
<1>1. Queued(r) = Queued(q)
  BY DEF Precedes, Mirrors, Alike
<1>2. Mirrors(q, x) /\ Reduces(q, x)
  BY MirrorsTransitive, ReducesTransitive DEF Precedes
<1>3. \A s \in Queued(q) : /\ x.mol[s].mode = q.mol[s].mode
                           /\ x.mol[s].id = q.mol[s].id
                           /\ x.mol[s].current = q.mol[s].current
  BY <1>1 DEF Precedes
<1>4. Consistent(x) /\ x.crashed = q.crashed
  BY DEF Precedes
<1> QED
  BY <1>2, <1>3, <1>4 DEF Precedes

LEMMA SamePrecedes ==
    ASSUME NEW q, NEW r, Consistent(r), Reduces(q, r),
           r.mol = q.mol, r.buffer = q.buffer, r.capacity = q.capacity,
           r.crashed = q.crashed, r.faults = q.faults, r.active = q.active, r.pin = q.pin
    PROVE  Precedes(q, r)
BY SameMirrors DEF Precedes

LEMMA RunningPrecedes ==
    ASSUME Consistent(session), NEW q \in Running
    PROVE  Precedes(session, q) /\ ~session.crashed
           /\ q.open = session.open /\ q.source = session.source /\ q.player = session.player
           /\ q.timers = session.timers /\ q.faults = session.faults /\ q.done = {}
<1>1. /\ q.mol = session.mol /\ q.buffer = session.buffer /\ q.capacity = session.capacity
      /\ q.crashed = session.crashed /\ q.faults = session.faults
      /\ q.active = session.active /\ q.pin = session.pin
      /\ q.open = session.open /\ q.timers = session.timers
      /\ q.source = session.source /\ q.player = session.player /\ q.done = {}
  BY DEF Running, Consistent, IsSession, Session
<1>2. ~q.crashed
  BY DEF Running
<1>3. Consistent(q)
  BY RunningKeeps
<1> QED
  BY <1>1, <1>2, <1>3, SameReduces, SamePrecedes

LEMMA StopRecordsPrecedes ==
    ASSUME NEW q, Consistent(q), NEW A
    PROVE  Precedes(q, StopRecords(q, A)) /\ StopRecords(q, A).done = q.done
BY StopRecordsKeeps, StopRecordsMirrors, StopRecordsReduces DEF Precedes

LEMMA TouchPrecedes ==
    ASSUME NEW q, Consistent(q)
    PROVE  /\ Precedes(q, Touch(q)) /\ Touch(q).done = q.done
           /\ \A s \in Queued(q) \ ActiveOnes(q) : Touch(q).mol[s] = q.mol[s]
<1> DEFINE mol == [s \in Queued(q) |-> IF s \in ActiveOnes(q)
                                       THEN [q.mol[s] EXCEPT !.stopped = TRUE]
                                       ELSE q.mol[s]]
           r == Touch(q)
<1>1. ASSUME NEW s \in Queued(q)
      PROVE  /\ mol[s].atoms = q.mol[s].atoms /\ mol[s].priority = q.mol[s].priority
             /\ mol[s].started = q.mol[s].started /\ mol[s].mode = q.mol[s].mode
             /\ mol[s].id = q.mol[s].id /\ mol[s].current = q.mol[s].current
  <2> DEFINE m == q.mol[s]
  <2>1. m \in Molecule
    BY MoleculeType
  <2>2. mol[s] = m \/ mol[s] = [m EXCEPT !.stopped = TRUE]
    OBVIOUS
  <2> HIDE DEF m, mol
  <2>3. /\ mol[s].atoms = m.atoms /\ mol[s].priority = m.priority
        /\ mol[s].started = m.started /\ mol[s].mode = m.mode
        /\ mol[s].id = m.id /\ mol[s].current = m.current
    BY <2>1, <2>2 DEF Molecule
  <2> QED BY <2>3 DEF m
<1>2. DOMAIN mol = Queued(q)
  OBVIOUS
<1>3. r = [q EXCEPT !.mol = mol]
  BY DEF Touch
<1>4. Consistent(r) /\ Mirrors(q, r)
  BY TouchKeeps, TouchMirrors
<1>8. \A s \in Queued(q) \ ActiveOnes(q) : mol[s] = q.mol[s]
  OBVIOUS
<1> HIDE DEF mol, r
<1>5. /\ r.mol = mol /\ r.open = q.open /\ r.timers = q.timers /\ r.crashed = q.crashed
      /\ r.done = q.done
  BY <1>3 DEF Consistent, IsSession, Session
<1>6. Queued(r) = Queued(q)
  BY <1>2, <1>5 DEF Queued
<1>7. Reduces(q, r)
  BY <1>1, <1>5, <1>6 DEF Reduces
<1> QED
  BY <1>1, <1>4, <1>5, <1>7, <1>8 DEF Precedes, r

\* What schedule may be called with.
Callable(q) == /\ Consistent(q) /\ Apart(q) /\ Ready(q) /\ ~q.crashed
               /\ Sound(q) => Tidy(q) /\ Entire(q)

LEMMA PrecedesCallable ==
    ASSUME NEW q, NEW r, Callable(q), Precedes(q, r)
    PROVE  Callable(r)
<1>1. /\ Consistent(r) /\ Mirrors(q, r) /\ Kept(q, r) /\ Reduces(q, r)
      /\ r.crashed = q.crashed
  BY DEF Precedes, Mirrors
<1>2. Apart(r) /\ Ready(r)
  BY <1>1, KeptApart, MirrorReady DEF Callable
<1>3. ASSUME Sound(r)
      PROVE  Tidy(r) /\ Entire(r)
  <2>1. Tidy(q) /\ Entire(q)
    BY <1>1, <1>3 DEF Callable, Kept
  <2>2. Tidy(r)
    BY <1>1, <2>1, ReducedIsTidy
  <2>3. Playable(r) = Playable(q) /\ Playable(q) \subseteq Queued(q) /\ Queued(r) = Queued(q)
    BY <1>1, AlikePlayable DEF Mirrors, Playable, Alike
  <2>4. \A s \in Queued(q) : /\ r.mol[s].current = q.mol[s].current
                             /\ r.mol[s].atoms = q.mol[s].atoms
    BY <2>3 DEF Precedes, Reduces
  <2>5. Entire(r)
    BY <2>1, <2>3, <2>4 DEF Entire, EntireBut, IsActive
  <2> QED BY <2>2, <2>5
<1> QED
  BY <1>1, <1>2, <1>3 DEF Callable

LEMMA GoodCallable ==
    ASSUME NEW q, Good(q), ~q.crashed
    PROVE  Callable(q)
BY SteadyReady DEF Good, Steady, Callable

LEMMA ScheduleStep ==
    ASSUME NEW q, Callable(q), NEW r, Precedes(q, r), NEW reason,
           NEW x \in Schedule(r, reason)
    PROVE  /\ Good(x) /\ Explained(x) /\ Kept(q, x)
           /\ Sound(x) => /\ Went(q, x, reason) /\ Played(q, x, reason)
                          /\ Fresh(r, x) /\ Recounts(q, r.done, x)
<1>1. Callable(r) /\ Mirrors(q, r) /\ Kept(q, r)
  BY PrecedesCallable DEF Precedes, Mirrors
<1>2. Steady(x) /\ Kept(r, x) /\ Explained(x)
  BY <1>1, ScheduleSteady, ScheduleExplained DEF Callable
<1>3. ASSUME Sound(x)
      PROVE  /\ Heard(x) /\ Entire(x) /\ Tidy(x)
             /\ Went(q, x, reason) /\ Played(q, x, reason)
             /\ Fresh(r, x) /\ Recounts(q, r.done, x)
  <2>1. Tidy(r) /\ Entire(r)
    BY <1>1, <1>2, <1>3 DEF Callable, Kept
  <2>2. /\ Heard(x) /\ Entire(x) /\ Tidy(x) /\ Went(r, x, reason)
        /\ Played(r, x, reason) /\ Recounts(r, r.done, x) /\ Fresh(r, x)
    BY <1>1, <1>3, <2>1, ScheduleIsGood DEF Callable
  <2>3. /\ Queued(r) = Queued(q) /\ r.active = q.active /\ r.pin = q.pin
        /\ NextUp(r) = NextUp(q)
        /\ \A s \in Queued(q) : /\ r.mol[s].mode = q.mol[s].mode
                                /\ r.mol[s].id = q.mol[s].id
                                /\ r.mol[s].current = q.mol[s].current
                                /\ r.mol[s].atoms = q.mol[s].atoms
                                /\ r.mol[s].priority = q.mol[s].priority
    BY <1>1, AlikePlayable DEF Precedes, Mirrors, Alike, Reduces
  <2>4. Went(q, x, reason)
    BY <2>2, <2>3 DEF Went
  <2>5. \A s \in Queued(q) : Same(q.mol[s], r.mol[s]) /\ Loops(r.mol[s]) = Loops(q.mol[s])
    BY <2>3 DEF Same, Loops
  <2>6. Recounts(q, r.done, x)
    <3>1. \A s \in Queued(q) : DoneFor(r, s) = DoneFor(q, s)
      BY <2>3, SameMoleculesDoneFor
    <3> QED BY <2>2, <2>3, <3>1 DEF Recounts, Reports
  <2>7. \A s \in Queued(x) : s \in Queued(q) /\ Same(q.mol[s], x.mol[s])
                              /\ (Stays(r, x, s) => Stays(q, x, s))
    BY <2>2, <2>3, <2>5 DEF Played, Same, Stays
  <2>8. q.active # Null /\ q.pin \in Queued(q) => Onward(r.mol[q.pin]) = Onward(q.mol[q.pin])
    BY <2>3, <2>5 DEF Onward
  <2>9. Played(q, x, reason)
    <3>1. q.active # Null => q.pin \in Queued(q)
      BY <1>1, <1>2, <1>3, ActiveOfReady DEF Callable, Playable, Kept
    <3>2. \A s \in Queued(x) :
             /\ s \in Queued(q) /\ Same(q.mol[s], x.mol[s])
             /\ Stays(q, x, s) \/ (q.active # Null /\ s = q.pin /\ s \in NextUp(q))
      BY <2>2, <2>3, <2>7 DEF Played
    <3>3. \A s \in Queued(q) \ Queued(x) : q.active # Null /\ s = q.pin
      BY <2>2, <2>3 DEF Played
    <3>4. ASSUME q.active # Null
          PROVE  LET m == q.mol[q.pin]
                 IN  IF q.pin \notin NextUp(q) THEN q.pin \in Queued(x) <=> "discard" \notin m.mode
                     ELSE IF reason # "eof" THEN q.pin \in Queued(x)
                     ELSE IF Onward(m) = {} THEN q.pin \notin Queued(x)
                     ELSE q.pin \in Queued(x) /\ x.mol[q.pin].current \in Onward(m)
      <4>1. r.mol[q.pin].mode = q.mol[q.pin].mode /\ Onward(r.mol[q.pin]) = Onward(q.mol[q.pin])
        BY <2>3, <2>8, <3>1, <3>4
      <4> QED BY <2>2, <2>3, <3>4, <4>1 DEF Played
    <3> QED BY <3>2, <3>3, <3>4 DEF Played
  <2> QED BY <2>2, <2>4, <2>6, <2>9
<1> QED
  BY <1>1, <1>2, <1>3, KeptTransitive DEF Good

-----------------------------------------------------------------------------
(* The events.                                                             *)

LEMMA SameWent ==
    ASSUME NEW q, NEW r, NEW reason, Queued(r) = Queued(q),
           \A s \in Queued(q) : /\ r.mol[s].atoms = q.mol[s].atoms
                                /\ r.mol[s].current = q.mol[s].current
    PROVE  Went(q, r, reason)
BY DEF Went

\* Nothing is scheduled, and what is active is heard as before.
LEMMA PrecedesGood ==
    ASSUME NEW q, NEW r, Good(q), ~q.crashed, Precedes(q, r), Sound(r) => Heard(r), NEW reason
    PROVE  Good(r) /\ Explained(r) /\ Went(q, r, reason)
<1>1. Steady(r) /\ Queued(r) = Queued(q)
  BY MirrorSteady DEF Precedes, Good, Mirrors, Alike
<1>2. Sound(r) => Tidy(r) /\ Entire(r)
  BY GoodCallable, PrecedesCallable DEF Callable
<1>3. ~r.crashed
  BY DEF Precedes
<1>4. Went(q, r, reason)
  BY <1>1, SameWent DEF Precedes, Reduces
<1> QED
  BY <1>1, <1>2, <1>3, <1>4 DEF Good, Explained

\* Only a dangling _active leads to memory that the queue does not own.
LEMMA DanglingIsBlamed ==
    ASSUME NEW q, Steady(q), ~q.crashed, Dangling(q)
    PROVE  Blamed(q) /\ ~Sound(q)
<1>1. ~Sound(q)
  BY SteadyReady, ActiveOfReady DEF Steady, Dangling
<1> QED
  BY <1>1, UnsoundIsBlamed DEF Blamed

LEMMA UndefinedGood ==
    ASSUME NEW q, Steady(q), Blamed(q)
    PROVE  Good(Undefined(q)) /\ Explained(Undefined(q)) /\ ~Sound(Undefined(q))
<1>1. Consistent(q)
  BY DEF Steady
<1> QED
  BY <1>1, UndefinedSteady, UndefinedExplained, UndefinedIsUnsound DEF Good

\* A parameter that nobody checked is as good as a crash.
LEMMA WildGood ==
    ASSUME NEW q, Steady(q)
    PROVE  Good(Wild(q)) /\ Explained(Wild(q)) /\ ~Sound(Wild(q))
<1>1. Steady(Wild(q)) /\ ~Sound(Wild(q))
  BY WildSteady, WildIsUnsound DEF Steady
<1>2. "wild" \in Wild(q).faults
  BY UndefinedKeeps, NoteFrame DEF Wild, Steady
<1> QED
  BY <1>1, <1>2 DEF Good, Explained, Blamed

\* Every molecule is where it was, and molecule_done is not called.
Rested(q, r) == /\ Queued(r) = Queued(q) /\ r.done = {}
                /\ \A s \in Queued(q) : /\ Same(q.mol[s], r.mol[s])
                                        /\ r.mol[s].current = q.mol[s].current

LEMMA PrecedesRested ==
    ASSUME NEW q, NEW r, Precedes(q, r), r.done = {}
    PROVE  Rested(q, r)
BY DEF Precedes, Mirrors, Alike, Reduces, Rested, Same

\* What an event does to the session: it ends the current atom of the active
\* molecule, or nothing the molecules notice.
Occurs ==
    /\ Good(session') /\ Explained(session')
    /\ Sound(session') =>
         /\ Went(session, session', "eof")
         /\ \/ Rested(session, session')
            \/ /\ Played(session, session', "eof")
               /\ Recounts(session, {}, session')

\* An event that ends an atom.
LEMMA EndOccurs ==
    ASSUME Good(session), ~session.crashed, NEW r, Precedes(session, r), r.done = {},
           session' \in Schedule(r, "eof")
    PROVE  Occurs
<1>1. Callable(session)
  BY GoodCallable
<1> QED
  BY <1>1, ScheduleStep DEF Occurs

LEMMA UndefinedOccurs ==
    ASSUME Good(session), NEW q \in Running, Dangling(q), session' = Undefined(q)
    PROVE  Occurs /\ ~Sound(session')
<1>1. Steady(q) /\ ~q.crashed
  BY RunningMirrors DEF Good, Running
<1>2. Good(session') /\ Explained(session') /\ ~Sound(session')
  BY <1>1, DanglingIsBlamed, UndefinedGood
<1> QED
  BY <1>2 DEF Occurs

LEMMA EndOfFileOccurs ==
    ASSUME Good(session), EndOfFile
    PROVE  Occurs
<1>1. PICK q \in Running :
         LET r == [q EXCEPT !.source = {}]
         IN  IF r.active = Null THEN session' = r
             ELSE session' \in Schedule(Touch(r), "eof")
  BY DEF EndOfFile
<1> DEFINE r == [q EXCEPT !.source = {}]
<1>2. Consistent(session) /\ Consistent(q) /\ Precedes(session, q) /\ ~session.crashed /\ q.done = {}
  BY RunningPrecedes, RunningKeeps DEF Good, Steady
<1>3. Consistent(r)
  BY <1>2 DEF Consistent, IsSession, Session, Queued
<1>4. /\ r.mol = q.mol /\ r.buffer = q.buffer /\ r.capacity = q.capacity
      /\ r.crashed = q.crashed /\ r.faults = q.faults
      /\ r.active = q.active /\ r.pin = q.pin
      /\ r.open = q.open /\ r.timers = q.timers /\ r.done = q.done
  BY <1>2 DEF Consistent, IsSession, Session
<1>5. IF r.active = Null THEN session' = r ELSE session' \in Schedule(Touch(r), "eof")
  BY <1>1
<1> HIDE DEF r
<1>6. /\ Precedes(session, r) /\ r.done = {}
      /\ Precedes(session, Touch(r)) /\ Touch(r).done = {}
  BY <1>2, <1>3, <1>4, SameReduces, SamePrecedes, TouchPrecedes, PrecedesTransitive
<1>7. CASE r.active = Null
  BY <1>2, <1>5, <1>6, <1>7, PrecedesGood, PrecedesRested DEF Heard, Occurs
<1>8. CASE r.active # Null
  BY <1>2, <1>5, <1>6, <1>8, EndOccurs
<1> QED BY <1>7, <1>8

LEMMA DtmfBeginOccurs ==
    ASSUME Good(session), DtmfBegin
    PROVE  Occurs
<1>1. PICK q \in Running :
         \/ \E a \in ActiveRecords(q) : session' \in Schedule(StopRecords(q, {a}), "eof")
         \/ Dangling(q) /\ session' = Undefined(q)
  BY DEF DtmfBegin
<1>2. Consistent(q) /\ Precedes(session, q) /\ ~session.crashed /\ q.done = {}
  BY RunningPrecedes, RunningKeeps DEF Good, Steady
<1>3. CASE Dangling(q) /\ session' = Undefined(q)
  BY <1>3, UndefinedOccurs
<1>4. ASSUME NEW a, session' \in Schedule(StopRecords(q, {a}), "eof")
      PROVE  Occurs
  <2>1. Precedes(session, StopRecords(q, {a})) /\ StopRecords(q, {a}).done = {}
    BY <1>2, StopRecordsPrecedes, PrecedesTransitive
  <2> QED BY <1>2, <1>4, <2>1, EndOccurs
<1> QED BY <1>1, <1>3, <1>4

LEMMA NobodyAtNull ==
    ASSUME NEW q, Consistent(q), q.active = Null
    PROVE  ActiveOnes(q) = {}
BY SlotPositive DEF ActiveOnes, Target

\* The Record the active molecule is at is open.
LEMMA ActiveRecordIsOpen ==
    ASSUME NEW q, Good(q), Sound(q), NEW a \in ActiveRecords(q)
    PROVE  a \in q.open /\ a.kind.type = "record"
<1>1. PICK s \in ActiveOnes(q) : a = CurrentAtom(q.mol[s])
  BY DEF ActiveRecords
<1>2. a.kind.type = "record"
  BY DEF ActiveRecords
<1>3. CASE q.active # Null
  <2>1. ActiveOnes(q) = {q.pin}
    BY <1>3, SteadyReady, ActiveOfReady DEF Good, Steady
  <2> QED BY <1>1, <1>2, <1>3, <2>1 DEF Good, Heard, Aired
<1>4. CASE q.active = Null
  <2>1. ActiveOnes(q) = {}
    BY <1>4, NobodyAtNull DEF Good, Steady
  <2> QED BY <1>1, <2>1
<1> QED BY <1>3, <1>4

LEMMA VoiceActivityOccurs ==
    ASSUME Good(session), NEW on \in BOOLEAN, VoiceActivity(on)
    PROVE  Occurs /\ (Sound(session') => Rested(session, session'))
<1>1. PICK q \in Running :
         LET timers == {[atom |-> a, timer |-> "silence"] :
                            a \in {b \in ActiveRecords(q) : b.kind.silence}}
         IN  \/ session' = [q EXCEPT !.vad = on,
                               !.timers = IF on THEN q.timers \ timers ELSE q.timers \cup timers]
             \/ Dangling(q) /\ session' = Undefined(q)
  BY DEF VoiceActivity
<1> DEFINE quiet  == {[atom |-> a, timer |-> "silence"] :
                         a \in {b \in ActiveRecords(q) : b.kind.silence}}
           timers == IF on THEN q.timers \ quiet ELSE q.timers \cup quiet
           r == [q EXCEPT !.vad = on, !.timers = timers]
<1>2. Consistent(q) /\ Precedes(session, q) /\ ~session.crashed /\ ~q.crashed
      /\ q.open = session.open /\ q.source = session.source /\ q.player = session.player
      /\ q.faults = session.faults /\ q.done = {}
  BY RunningPrecedes, RunningKeeps DEF Good, Steady, Precedes
<1>3. Good(q)
  <2>1. /\ q.active = session.active /\ q.pin = session.pin /\ q.mol = session.mol
        /\ (Sound(q) => Sound(session))
    BY DEF Running, Good, Steady, Consistent, IsSession, Session, Sound
  <2>2. Sound(q) => Heard(q)
    BY <1>2, <2>1 DEF Good, Heard, Aired
  <2> QED BY <1>2, <2>2, PrecedesGood
<1>4. /\ r.mol = q.mol /\ r.buffer = q.buffer /\ r.capacity = q.capacity
      /\ r.crashed = q.crashed /\ r.faults = q.faults
      /\ r.active = q.active /\ r.pin = q.pin
      /\ r.open = q.open /\ r.source = q.source /\ r.player = q.player /\ r.timers = timers
      /\ r.done = q.done
  <2> HIDE DEF timers
  <2> QED BY <1>2 DEF Consistent, IsSession, Session
<1>5. \A t \in timers : t \in q.timers \/ \E a \in ActiveRecords(q) : t.atom = a
  OBVIOUS
<1>6. session' = r \/ (Dangling(q) /\ session' = Undefined(q))
  BY <1>1
<1> HIDE DEF r, timers
<1>7. CASE Dangling(q) /\ session' = Undefined(q)
  BY <1>7, UndefinedOccurs
<1>8. CASE session' = r
  <2>1. Steady(session') /\ Steady(r)
    BY <1>8, VoiceActivitySteady DEF Good
  <2>2. ASSUME Sound(r)
        PROVE  Heard(r) /\ Entire(r) /\ Tidy(r)
    <3>1. Sound(q) /\ Heard(q) /\ Entire(q) /\ Tidy(q)
      BY <1>3, <1>4, <2>2 DEF Good, Sound
    <3>2. Heard(r) /\ Entire(r) /\ Ranked(r) /\ Held(r)
      BY <1>4, <3>1 DEF Heard, Aired, Entire, EntireBut, Ranked, Held, Playable, Queued, Tidy
    <3>3. Timed(r)
      BY <1>3, <1>4, <1>5, <3>1, ActiveRecordIsOpen DEF Timed, Tidy
    <3> QED BY <3>2, <3>3 DEF Tidy
  <2>3. ~r.crashed
    BY <1>2, <1>4
  <2>4. Went(session, r, "eof")
    <3>1. r.mol = session.mol
      BY <1>4 DEF Running, Good, Steady, Consistent, IsSession, Session
    <3> QED BY <3>1, SameWent DEF Queued
  <2>5. Rested(session, r)
    <3>1. r.mol = session.mol /\ r.done = {}
      BY <1>2, <1>4 DEF Running, Good, Steady, Consistent, IsSession, Session
    <3> QED BY <3>1 DEF Rested, Same, Queued
  <2> QED BY <1>8, <2>1, <2>2, <2>3, <2>4, <2>5 DEF Occurs, Good, Explained
<1> QED BY <1>6, <1>7, <1>8

\* The timer of an open Record fires: the Record is one of a queued molecule.
LEMMA RecordTimerOccurs ==
    ASSUME Good(session), NEW t, RecordTimer(t)
    PROVE  Occurs
<1>1. PICK q \in Running :
         LET a == t.atom
             r == [q EXCEPT !.timers = q.timers \ {t}]
             alive == /\ a.molecule \in Queued(q)
                      /\ a \in Range(q.mol[a.molecule].atoms)
         IN  /\ t \in q.timers
             /\ \/ session' \in Schedule(StopRecords(r, {a}), "eof")
                \/ ~alive /\ session' \in {r, Undefined(r)}
  BY DEF RecordTimer
<1> DEFINE timers == q.timers \ {t}
           r == [q EXCEPT !.timers = timers]
           alive == /\ t.atom.molecule \in Queued(q)
                    /\ t.atom \in Range(q.mol[t.atom.molecule].atoms)
<1>2. Consistent(q) /\ Precedes(session, q) /\ ~session.crashed
      /\ q.open = session.open /\ q.source = session.source /\ q.player = session.player
      /\ q.timers = session.timers /\ q.faults = session.faults /\ q.done = {}
  BY RunningPrecedes, RunningKeeps DEF Good, Steady
<1>3. Consistent(r)
  BY <1>2 DEF Consistent, IsSession, Session, Queued
<1>4. /\ r.mol = q.mol /\ r.buffer = q.buffer /\ r.capacity = q.capacity
      /\ r.crashed = q.crashed /\ r.faults = q.faults
      /\ r.active = q.active /\ r.pin = q.pin
      /\ r.open = q.open /\ r.timers = timers /\ r.done = q.done
  <2> HIDE DEF timers
  <2> QED BY <1>2 DEF Consistent, IsSession, Session
<1>5. t \in q.timers
      /\ \/ session' \in Schedule(StopRecords(r, {t.atom}), "eof")
         \/ ~alive /\ session' \in {r, Undefined(r)}
  BY <1>1, Zenon
<1> HIDE DEF r, alive
<1>6. /\ Precedes(session, r) /\ Precedes(session, StopRecords(r, {t.atom}))
      /\ StopRecords(r, {t.atom}).done = {}
  <2>1. Reduces(q, r)
    BY <1>4 DEF Reduces, Queued
  <2> QED BY <1>2, <1>3, <1>4, <2>1, SamePrecedes, StopRecordsPrecedes, PrecedesTransitive
<1>7. CASE session' \in Schedule(StopRecords(r, {t.atom}), "eof")
  BY <1>2, <1>6, <1>7, EndOccurs
<1>8. CASE ~alive /\ session' \in {r, Undefined(r)}
  <2>1. ~Sound(r)
    <3> SUFFICES ASSUME Sound(r) PROVE FALSE
      OBVIOUS
    <3>1. Tidy(session) /\ Consistent(session)
      BY <1>6 DEF Good, Steady, Precedes, Mirrors, Kept
    <3>2. t.atom \in q.open /\ t.atom.molecule \in Queued(q)
      BY <1>2, <1>5, <3>1 DEF Tidy, Timed, Consistent
    <3>3. q.mol = session.mol
      BY <3>1 DEF Running, Consistent, IsSession, Session
    <3>4. t.atom \in Range(q.mol[t.atom.molecule].atoms)
      BY <1>2, <3>1, <3>2, <3>3 DEF Tidy, Held
    <3> QED BY <1>8, <3>2, <3>4 DEF alive
  <2>2. Good(r) /\ Explained(r) /\ ~r.crashed
    BY <1>2, <1>6, <2>1, PrecedesGood DEF Precedes
  <2>3. Blamed(r)
    BY <2>1, <2>2, UnsoundIsBlamed DEF Blamed
  <2>4. Good(Undefined(r)) /\ Explained(Undefined(r)) /\ ~Sound(Undefined(r))
    BY <2>2, <2>3, UndefinedGood DEF Good
  <2> QED BY <1>8, <2>1, <2>2, <2>4 DEF Occurs
<1> QED BY <1>5, <1>7, <1>8

-----------------------------------------------------------------------------
(* The commands that discard.                                              *)

\* r is what remains of q without the molecules D.
Lacks(q, r, D) ==
    /\ Consistent(r) /\ Kept(q, r) /\ Reduces(q, r)
    /\ r.crashed = q.crashed
    /\ r.mol = [s \in Queued(q) \ D |-> q.mol[s]]

\* What a command does to the molecules of q that discards the set D.
Cleared(q, r, D) ==
    /\ Queued(r) = Queued(q) \ D
    /\ \A s \in Queued(r) : Same(q.mol[s], r.mol[s]) /\ Stays(q, r, s)

LEMMA LacksCleared ==
    ASSUME NEW q, NEW r, NEW D, Lacks(q, r, D)
    PROVE  Cleared(q, r, D)
BY DEF Lacks, Cleared, Queued, Same, Stays

LEMMA LacksTidy ==
    ASSUME NEW q, Callable(q), NEW D, NEW r, Lacks(q, r, D)
    PROVE  Apart(r) /\ ~r.crashed /\ (Sound(r) => Tidy(r) /\ Entire(r))
<1>1. Apart(r) /\ ~r.crashed
  BY KeptApart DEF Lacks, Callable
<1>2. ASSUME Sound(r)
      PROVE  Tidy(r) /\ Entire(r)
  <2>1. Tidy(q) /\ Entire(q)
    BY <1>2 DEF Lacks, Kept, Callable
  <2>2. Tidy(r)
    BY <2>1, ReducedIsTidy DEF Lacks
  <2>3. Queued(r) = Queued(q) \ D /\ \A s \in Queued(r) : r.mol[s] = q.mol[s]
    BY DEF Lacks, Queued
  <2>4. Entire(r)
    BY <2>1, <2>3 DEF Entire, EntireBut, Playable
  <2> QED BY <2>2, <2>4
<1> QED
  BY <1>1, <1>2

\* Nothing is active when schedule is called: nobody else leaves.
LEMMA LacksSchedule ==
    ASSUME NEW q, Callable(q), NEW D, NEW r, Lacks(q, r, D), r.active = Null,
           NEW x \in Schedule(r, "interrupt")
    PROVE  /\ Good(x) /\ Explained(x)
           /\ Sound(x) => Cleared(q, x, D) /\ x.done = r.done
<1>1. Callable(r) /\ Precedes(r, r)
  <2>1. Callable(r)
    BY LacksTidy, NullReady DEF Callable, Lacks
  <2>2. Precedes(r, r)
    BY <2>1, SameReduces, SamePrecedes DEF Callable
  <2> QED BY <2>1, <2>2
<1>2. /\ Good(x) /\ Explained(x)
      /\ Sound(x) => Played(r, x, "interrupt") /\ Recounts(r, r.done, x)
  BY <1>1, ScheduleStep
<1>3. Queued(r) = Queued(q) \ D /\ \A s \in Queued(r) : r.mol[s] = q.mol[s]
  BY DEF Lacks, Queued
<1>4. ASSUME Played(r, x, "interrupt"), Recounts(r, r.done, x)
      PROVE  Cleared(q, x, D) /\ x.done = r.done
  <2>1. /\ Queued(x) = Queued(r)
        /\ \A s \in Queued(x) : Same(r.mol[s], x.mol[s]) /\ Stays(r, x, s)
    BY <1>4 DEF Played
  <2>2. x.done = r.done
    BY <1>4, <2>1 DEF Recounts, Reports
  <2> QED BY <1>3, <1>4, <2>1, <2>2 DEF Cleared, Stays
<1> QED
  BY <1>2, <1>4

\* What a command does to the session that discards D, among them those of S
\* that are active.
Discards(D, S) ==
    /\ Good(session') /\ Explained(session')
    /\ Sound(session') =>
         /\ Cleared(session, session', D)
         /\ "masked" \notin session'.faults => Reports(session, S, {}, session')

LEMMA DiscardRangeDiscards ==
    ASSUME Good(session), NEW from, NEW to, DiscardRange(from, to)
    PROVE  Discards({s \in Queued(session) : session.mol[s].priority \in from .. (to - 1)}, {})
<1>1. PICK q \in Running :
         LET live == {s \in ActiveOnes(q) : IsActive(q.mol[s])}
             quiet == IF live = {} THEN q
                      ELSE StopAtom(q, CurrentAtom(q.mol[CHOOSE s \in live : TRUE]))
             r == Destroy(Idle(quiet),
                          {s \in Queued(q) : q.mol[s].priority \in from .. (to - 1)})
         IN  \/ session' \in Schedule(r, "interrupt")
             \/ Dangling(q) /\ session' = Undefined(q)
             \/ session' = Wild(q)
  BY DEF DiscardRange
<1> DEFINE live == {s \in ActiveOnes(q) : IsActive(q.mol[s])}
           quiet == IF live = {} THEN q
                    ELSE StopAtom(q, CurrentAtom(q.mol[CHOOSE s \in live : TRUE]))
           D == {s \in Queued(q) : q.mol[s].priority \in from .. (to - 1)}
           E == {s \in Queued(session) : session.mol[s].priority \in from .. (to - 1)}
<1>2. Consistent(q) /\ Precedes(session, q) /\ ~session.crashed /\ q.mol = session.mol
      /\ q.done = {}
  BY RunningPrecedes, RunningKeeps DEF Good, Steady, Running, Consistent, IsSession, Session
<1>3. /\ Consistent(quiet) /\ Kept(q, quiet) /\ Reduces(q, quiet)
      /\ quiet.crashed = q.crashed /\ quiet.mol = q.mol
      /\ quiet.done = q.done
  <2>1. CASE live = {}
    BY <1>2, <2>1, KeptReflexive, SameReduces
  <2>2. CASE live # {}
    <3>1. PICK s \in live : s = CHOOSE t \in live : TRUE
      BY <2>2
    <3>2. CurrentAtom(q.mol[s]) \in Atom
      BY <1>2, CurrentAtomType DEF ActiveOnes, Target
    <3> QED BY <1>2, <2>2, <3>1, <3>2, StopAtomKeeps, StopAtomFrame, StopAtomReduces
  <2> QED BY <2>1, <2>2
<1>4. D = E
  BY <1>2 DEF Queued
<1>5. \/ session' \in Schedule(Destroy(Idle(quiet), D), "interrupt")
      \/ Dangling(q) /\ session' = Undefined(q)
      \/ session' = Wild(q)
  BY <1>1
<1> HIDE DEF quiet, D, E
<1> DEFINE i == Idle(quiet)
           r == Destroy(i, D)
<1>6. /\ Consistent(i) /\ Kept(quiet, i) /\ Reduces(quiet, i)
      /\ i.crashed = quiet.crashed /\ i.active = Null /\ i.mol = quiet.mol
      /\ i.done = quiet.done
  BY <1>3, IdleKeeps, IdleFrame, IdleFields, SameReduces
<1> HIDE DEF i
<1>7. /\ Consistent(r) /\ Kept(i, r) /\ Reduces(i, r)
      /\ r.crashed = i.crashed /\ r.active = Null /\ r.done = i.done
      /\ r.mol = [s \in Queued(i) \ D |-> i.mol[s]]
  BY <1>6, DestroyKeeps, DestroyFrame, DestroyReduces
<1>8. \/ session' \in Schedule(r, "interrupt")
      \/ Dangling(q) /\ session' = Undefined(q)
      \/ session' = Wild(q)
  BY <1>5 DEF i
<1> HIDE DEF r
<1>9. Lacks(session, r, E)
  <2>1. Kept(session, r)
    BY <1>2, <1>3, <1>6, <1>7, KeptTransitive DEF Precedes, Mirrors
  <2>2. Reduces(session, r)
    BY <1>2, <1>3, <1>6, <1>7, ReducesTransitive DEF Precedes
  <2>3. i.mol = session.mol /\ r.crashed = session.crashed
    BY <1>2, <1>3, <1>6, <1>7 DEF Precedes
  <2> QED BY <1>4, <1>7, <2>1, <2>2, <2>3 DEF Lacks, Queued
<1>10. CASE session' \in Schedule(r, "interrupt")
  <2>1. r.done = {}
    BY <1>2, <1>3, <1>6, <1>7
  <2> QED BY <1>2, <1>7, <1>9, <1>10, <2>1, GoodCallable, LacksSchedule DEF Discards, Reports, E
<1>11. Steady(q) /\ ~q.crashed
  BY RunningMirrors DEF Good, Running
<1>12. CASE Dangling(q) /\ session' = Undefined(q)
  BY <1>11, <1>12, DanglingIsBlamed, UndefinedGood DEF Discards
<1>13. CASE session' = Wild(q)
  BY <1>11, <1>13, WildGood DEF Discards
<1> QED BY <1>8, <1>10, <1>12, <1>13

LEMMA NoteLacks ==
    ASSUME NEW q, NEW D, NEW r, Lacks(q, r, D), NEW fault \in Faults, NEW if
    PROVE  LET n == Note(r, fault, if)
           IN  /\ Lacks(q, n, D)
               /\ n.active = r.active /\ n.pin = r.pin
               /\ n.open = r.open /\ n.source = r.source /\ n.player = r.player
               /\ r.faults \subseteq n.faults /\ (if => fault \in n.faults)
               /\ n.done = r.done
<1> DEFINE n == Note(r, fault, if)
<1>1. Consistent(r) /\ Kept(q, r) /\ Reduces(q, r)
  BY DEF Lacks
<1>2. /\ Consistent(n) /\ n.mol = r.mol /\ Kept(r, n)
      /\ n.active = r.active /\ n.pin = r.pin
      /\ n.open = r.open /\ n.timers = r.timers /\ n.source = r.source
      /\ n.player = r.player /\ n.crashed = r.crashed
      /\ n.done = r.done /\ (if => fault \in n.faults)
  BY <1>1, NoteKeeps, NoteFrame, NoteFields
<1> HIDE DEF n
<1>3. Kept(q, n) /\ Reduces(q, n)
  BY <1>1, <1>2, KeptTransitive, SameReduces, ReducesTransitive
<1> QED
  BY <1>2, <1>3 DEF Lacks, Kept, n

LEMMA DestroyLacks ==
    ASSUME NEW q, NEW D, NEW r, Lacks(q, r, D), NEW E
    PROVE  Lacks(q, Destroy(r, E), D \cup E) /\ Destroy(r, E).done = r.done
<1> DEFINE d == Destroy(r, E)
<1>1. Consistent(r) /\ Kept(q, r) /\ Reduces(q, r) /\ r.mol = [s \in Queued(q) \ D |-> q.mol[s]]
  BY DEF Lacks
<1>2. /\ Consistent(d) /\ Kept(r, d) /\ Reduces(r, d) /\ d.crashed = r.crashed
      /\ d.done = r.done
      /\ d.mol = [s \in Queued(r) \ E |-> r.mol[s]]
  BY <1>1, DestroyKeeps, DestroyFrame, DestroyReduces
<1> HIDE DEF d
<1>3. Kept(q, d) /\ Reduces(q, d)
  BY <1>1, <1>2, KeptTransitive, ReducesTransitive
<1>4. d.mol = [s \in Queued(q) \ (D \cup E) |-> q.mol[s]]
  BY <1>1, <1>2 DEF Queued
<1>5. d.crashed = q.crashed
  BY <1>2 DEF Lacks
<1> QED
  BY <1>2, <1>3, <1>4, <1>5 DEF Lacks, d

\* Molecules other than the active one are erased: it is heard as before.
LEMMA DestroyHeard ==
    ASSUME NEW q, Consistent(q), Heard(q), NEW D, q.active # Null => q.pin \in Queued(q) \ D
    PROVE  Heard(Destroy(q, D))
<1> DEFINE d == Destroy(q, D)
           m == q.mol[q.pin]
           a == CurrentAtom(m)
<1>1. /\ d.mol = [s \in Queued(q) \ D |-> q.mol[s]] /\ d.active = q.active /\ d.pin = q.pin
      /\ Kept(q, d) /\ d.source = q.source
      /\ \A b \in q.open : b.molecule \notin D => b \in d.open
      /\ \A b \in q.player : b.molecule \notin D =>
            d.player = q.player \/ "cut" \in d.faults
  BY DestroyKeeps, DestroyFrame, DestroyReduces
<1> HIDE DEF d
<1> SUFFICES ASSUME q.active # Null
             PROVE  /\ IsActive(d.mol[d.pin])
                    /\ Aired(d, CurrentAtom(d.mol[d.pin]))
  BY <1>1 DEF Heard, d
<1>2. d.mol[d.pin] = m /\ IsActive(m) /\ Aired(q, a)
  BY <1>1 DEF Heard
<1>3. a.molecule \notin D
  <2>1. m \in Molecule
    BY MoleculeType
  <2>2. m.current \in DOMAIN m.atoms
    <3> HIDE DEF m
    <3> QED BY <1>2, <2>1 DEF IsActive, Molecule
  <2> QED BY <2>2 DEF Consistent, CurrentAtom
<1> HIDE DEF m
<1>4. ASSUME a.kind.type # "play", "cut" \notin d.faults
      PROVE  d.player = {a}
  <2>1. q.player = {a}
    BY <1>1, <1>2, <1>4 DEF Kept, Aired
  <2>2. a \in q.player
    BY <2>1
  <2> QED BY <1>1, <1>3, <1>4, <2>1, <2>2
<1> QED
  BY <1>1, <1>2, <1>3, <1>4 DEF Aired

\* The first molecule named id of every priority.
Firsts(q, id) ==
    LET named == {s \in Queued(q) : q.mol[s].id = id}
    IN  {s \in named : \A t \in named : q.mol[s].priority = q.mol[t].priority => s <= t}

LEMMA DiscardDiscards ==
    ASSUME Good(session), NEW id, Discard(id)
    PROVE  Discards(Firsts(session, id), Firsts(session, id) \cap ActiveOnes(session))
<1>1. PICK q \in Running :
         LET D   == Firsts(q, id)
             hit == D \cap ActiveOnes(q)
         IN  \E r \in IF hit = {} THEN {q} ELSE Finish(q, hit) :
                LET gone == Checked(Destroy(r, D \ hit))
                IN  \/ hit # {} /\ session' \in Schedule(gone, "interrupt")
                    \/ session' = Note(gone, "masked", hit # {})
  BY DEF Discard, Firsts
<1> DEFINE D   == Firsts(q, id)
           E   == Firsts(session, id)
           hit == D \cap ActiveOnes(q)
<1>2. PICK r \in IF hit = {} THEN {q} ELSE Finish(q, hit) :
               LET gone == Checked(Destroy(r, D \ hit))
               IN  \/ hit # {} /\ session' \in Schedule(gone, "interrupt")
                   \/ session' = Note(gone, "masked", hit # {})
  BY <1>1
<1> DEFINE d == Destroy(r, D \ hit)
           gone == Checked(d)
           stray == d.active # Null /\ d.pin \notin ActiveOnes(d)
<1>4. /\ Consistent(q) /\ Precedes(session, q) /\ ~session.crashed /\ q.mol = session.mol
      /\ q.active = session.active /\ q.pin = session.pin /\ Kept(session, q)
      /\ Steady(q) /\ q.done = {} /\ q.buffer = session.buffer
  BY RunningPrecedes, RunningKeeps, RunningMirrors
     DEF Good, Steady, Running, Consistent, IsSession, Session, Mirrors
<1>5. Lacks(session, q, {})
  <2>1. session.mol = [s \in Queued(session) |-> session.mol[s]]
    BY DEF Good, Steady, Consistent, IsSession, Session, Queued
  <2> QED BY <1>4, <2>1 DEF Lacks, Precedes
<1>6. /\ D = E /\ D \in SUBSET Queued(q)
      /\ hit = E \cap ActiveOnes(session)
  <2>1. Queued(q) = Queued(session) /\ ActiveOnes(q) = ActiveOnes(session)
    BY <1>4 DEF Queued, ActiveOnes, Target, Address, Slot, Vector
  <2>2. D = E
    BY <1>4, <2>1 DEF Firsts
  <2>3. D \in SUBSET Queued(q)
    BY DEF Firsts
  <2> HIDE DEF D, E
  <2> QED BY <2>1, <2>2, <2>3
<1> HIDE DEF D, E
<1>7. Callable(session)
  BY <1>4, GoodCallable
<1>8. Steady(session') /\ Kept(session, session')
  BY DiscardSteady DEF Good
<1>9. gone = Note(d, "stale", stray)
  BY DEF Checked
<1>10. CASE hit = {}
  <2>1. r = q
    BY <1>2, <1>10
  <2>2. Lacks(session, d, D) /\ d.done = {}
    <3>1. D \ hit = D /\ {} \cup D = D
      BY <1>10
    <3> HIDE DEF hit
    <3> QED BY <1>4, <1>5, <2>1, <3>1, DestroyLacks
  <2>3. ASSUME Sound(d)
        PROVE  Heard(d)
    <3>1. Sound(q) /\ Heard(q)
      <4>1. Sound(q)
        BY <1>4, <2>1, <2>3, DestroyFrame DEF Kept
      <4>2. Sound(session)
        BY <1>4, <4>1 DEF Kept
      <4>3. q.open = session.open /\ q.source = session.source /\ q.player = session.player
            /\ q.faults = session.faults
        BY RunningPrecedes DEF Good, Steady
      <4> QED BY <1>4, <4>1, <4>2, <4>3 DEF Good, Heard, Aired
    <3>2. q.active # Null => q.pin \in Queued(q) \ (D \ hit)
      <4> SUFFICES ASSUME q.active # Null
                   PROVE  q.pin \in Queued(q) \ (D \ hit)
        OBVIOUS
      <4>1. ActiveOnes(q) = {q.pin} /\ q.pin \in Playable(q)
        BY <1>4, <3>1, SteadyReady, ActiveOfReady DEF Steady
      <4> QED BY <1>10, <4>1 DEF Playable
    <3> HIDE DEF hit
    <3> QED BY <1>4, <2>1, <3>1, <3>2, DestroyHeard
  <2> HIDE DEF d, stray, gone
  <2>4. Lacks(session, gone, D) /\ (Sound(gone) => Heard(gone)) /\ gone.done = {}
    <3>1. /\ Lacks(session, gone, D) /\ gone.active = d.active /\ gone.pin = d.pin
          /\ gone.open = d.open /\ gone.source = d.source /\ gone.player = d.player
          /\ d.faults \subseteq gone.faults /\ gone.done = d.done
      BY <1>9, <2>2, NoteLacks DEF Faults
    <3>2. Sound(gone) => Sound(d)
      BY <2>2, <3>1 DEF Sound, Lacks
    <3>3. gone.mol = d.mol
      BY <2>2, <3>1 DEF Lacks
    <3> QED BY <2>2, <2>3, <3>1, <3>2, <3>3 DEF Heard, Aired
  <2>5. session' = gone
    <3>1. session' = Note(gone, "masked", FALSE)
      BY <1>2, <1>10 DEF gone, d
    <3>2. [gone EXCEPT !.faults = gone.faults] = gone
      BY <2>4 DEF Lacks, Consistent, IsSession, Session
    <3> QED BY <3>1, <3>2 DEF Note
  <2>6. /\ ~gone.crashed /\ (Sound(gone) => Tidy(gone) /\ Entire(gone))
        /\ Cleared(session, gone, E)
    BY <1>6, <1>7, <2>4, LacksTidy, LacksCleared
  <2>7. Good(session') /\ Explained(session')
    BY <1>8, <2>4, <2>5, <2>6 DEF Good, Explained
  <2>8. Reports(session, E \cap ActiveOnes(session), {}, gone)
    <3>1. E \cap ActiveOnes(session) = {}
      BY <1>6, <1>10
    <3> QED BY <2>4, <3>1 DEF Reports
  <2> QED BY <2>5, <2>6, <2>7, <2>8 DEF Discards, E
<1>11. CASE hit # {}
  <2>1. /\ Lacks(session, r, hit) /\ r.active = Null
        /\ (\A s, t \in hit : s = t) => Reports(session, hit, {}, r)
    <3>1. r \in Finish(q, hit) /\ hit \in SUBSET Queued(q)
      BY <1>2, <1>6, <1>11
    <3> HIDE DEF hit
    <3>2. /\ Consistent(r) /\ Kept(q, r) /\ Reduces(q, r) /\ r.crashed = q.crashed
          /\ r.mol = [s \in Queued(q) \ hit |-> q.mol[s]] /\ r.active = Null
          /\ (\A s, t \in hit : s = t) => Reports(q, hit, {}, r)
      <4>1. Consistent(r) /\ r.mol = [s \in Queued(q) \ hit |-> q.mol[s]] /\ r.active = Null
        BY <1>4, <3>1, FinishKeeps
      <4>2. Kept(q, r)
        BY <1>4, <3>1, FinishFrame
      <4>3. /\ Reduces(q, r) /\ r.crashed = q.crashed
            /\ (\A s, t \in hit : s = t) => Reports(q, hit, {}, r)
        BY <1>4, <3>1, FinishReduces
      <4> QED BY <4>1, <4>2, <4>3
    <3>3. Kept(session, r) /\ Reduces(session, r)
      BY <1>4, <3>2, KeptTransitive, ReducesTransitive DEF Precedes
    <3>4. \A s \in hit : DoneFor(q, s) = DoneFor(session, s)
      BY <1>4, <3>1, SameMoleculesDoneFor DEF Queued
    <3>5. Reports(q, hit, {}, r) => Reports(session, hit, {}, r)
      BY <3>4 DEF Reports
    <3> QED BY <1>4, <3>2, <3>3, <3>5 DEF Lacks, Queued, Precedes
  <2>2. Lacks(session, d, D) /\ d.active = Null /\ d.done = r.done
    <3>1. hit \cup (D \ hit) = D
      OBVIOUS
    <3> HIDE DEF hit
    <3>2. Lacks(session, d, hit \cup (D \ hit)) /\ d.done = r.done
      BY <2>1, DestroyLacks
    <3>3. d.active = Null
      BY <2>1, DestroyFrame DEF Lacks
    <3> QED BY <3>1, <3>2, <3>3
  <2>3. \/ session' \in Schedule(gone, "interrupt")
        \/ session' = Note(gone, "masked", TRUE)
    BY <1>2, <1>11
  <2> HIDE DEF d, stray, gone
  <2>4. Lacks(session, gone, D) /\ gone.active = Null /\ gone.done = d.done
    BY <1>9, <2>2, NoteLacks DEF Faults
  <2>5. CASE session' \in Schedule(gone, "interrupt")
    <3>1. /\ Good(session') /\ Explained(session')
          /\ Sound(session') => Cleared(session, session', D) /\ session'.done = gone.done
      BY <1>7, <2>4, <2>5, LacksSchedule
    <3>2. Sound(session') => Reports(session, hit, {}, gone)
      <4>1. Sound(session') => \A s, t \in hit : s = t
        <5>1. Sound(session') => Sound(session) /\ session.active # Null
          BY <1>6, <1>8, <1>11, NobodyAtNull DEF Kept, Good, Steady
        <5>2. Sound(session') => ActiveOnes(session) = {session.pin}
          BY <1>7, <5>1, ActiveOfReady DEF Callable
        <5> QED BY <1>6, <5>2
      <4> QED BY <2>1, <2>2, <2>4, <4>1 DEF Reports
    <3> QED BY <1>6, <3>1, <3>2 DEF Discards, Reports, E
  <2>6. CASE session' = Note(gone, "masked", TRUE)
    <3> DEFINE yes == TRUE
               n == Note(gone, "masked", yes)
    <3> HIDE DEF yes
    <3>0. Lacks(session, n, D) /\ n.active = Null /\ (yes => "masked" \in n.faults)
      BY <2>4, NoteLacks DEF Faults
    <3> USE DEF yes
    <3> HIDE DEF n
    <3>1. /\ Lacks(session, session', D) /\ session'.active = Null
          /\ "masked" \in session'.faults
      BY <2>6, <3>0 DEF n
    <3>2. /\ ~session'.crashed /\ (Sound(session') => Tidy(session') /\ Entire(session'))
          /\ Cleared(session, session', E)
      BY <1>6, <1>7, <3>1, LacksTidy, LacksCleared
    <3>3. Good(session') /\ Explained(session')
      BY <1>8, <3>1, <3>2 DEF Good, Explained, Heard
    <3> QED BY <3>1, <3>2, <3>3 DEF Discards, E
  <2> QED BY <2>3, <2>5, <2>6
<1> QED BY <1>10, <1>11

-----------------------------------------------------------------------------
(* The enqueue command.                                                    *)

\* A new molecule has not started; nothing else of the queue changes.
LEMMA PushFields ==
    ASSUME NEW q, Consistent(q), NEW p \in Priorities, NEW shape \in Shapes,
           NEW id \in MaybeIds, NEW s \in Serials, NEW r \in Push(q, p, shape, id, s)
    PROVE  /\ r.mol[s].current = 1 /\ r.mol[s].started = FALSE
           /\ r.mol[s].stopped = FALSE /\ r.done = q.done
           /\ r.open = q.open /\ r.timers = q.timers
           /\ r.source = q.source /\ r.player = q.player
           /\ r.crashed = q.crashed /\ q.faults \subseteq r.faults
<1> DEFINE n == Cardinality(Vector(q, p))
           m == [priority |-> p, mode |-> shape.mode, id |-> id,
                 atoms |-> [i \in DOMAIN shape.kinds |->
                               [molecule |-> s, index |-> i, kind |-> shape.kinds[i]]],
                 current |-> 1, started |-> FALSE, stopped |-> FALSE]
           mol == [t \in Queued(q) \cup {s} |-> IF t = s THEN m ELSE q.mol[t]]
           x == [q EXCEPT !.mol = mol]
           larger == IF n = 0 THEN 1 ELSE 2 * n
           Moved(b) == [x EXCEPT !.buffer[p] = b, !.capacity[p] = larger]
<1>1. \/ r = x
      \/ \E b \in Buffers \ {q.buffer[y] : y \in Priorities} : r = Checked(Moved(b))
  BY DEF Push
<1>2. mol[s].current = 1 /\ mol[s].started = FALSE /\ mol[s].stopped = FALSE
  OBVIOUS
<1> HIDE DEF mol, n, larger
<1>3. /\ x.mol = mol /\ x.open = q.open /\ x.timers = q.timers
      /\ x.source = q.source /\ x.player = q.player
      /\ x.crashed = q.crashed /\ x.faults = q.faults /\ x.done = q.done
  BY DEF Consistent, IsSession, Session
<1>4. DOMAIN x = DOMAIN q /\ {"mol", "open", "timers", "source", "player", "crashed", "faults",
                              "buffer", "capacity", "done"} \subseteq DOMAIN q
  BY DEF Consistent, IsSession, Session
<1> HIDE DEF x
<1>5. CASE r = x
  BY <1>2, <1>3, <1>5
<1>6. ASSUME NEW b, r = Checked(Moved(b))
      PROVE  /\ r.mol = mol /\ r.open = q.open /\ r.timers = q.timers
             /\ r.source = q.source /\ r.player = q.player
             /\ r.crashed = q.crashed /\ q.faults \subseteq r.faults
             /\ r.done = q.done
  <2> DEFINE y == Moved(b)
  <2>1. /\ y.mol = mol /\ y.open = q.open /\ y.timers = q.timers
        /\ y.source = q.source /\ y.player = q.player
        /\ y.crashed = q.crashed /\ y.faults = q.faults /\ y.done = q.done
    BY <1>3, <1>4
  <2>2. DOMAIN y = DOMAIN q
    BY <1>4
  <2> DEFINE faults == IF y.active # Null /\ y.pin \notin ActiveOnes(y)
                       THEN y.faults \cup {"stale"} ELSE y.faults
  <2>3. r = [y EXCEPT !.faults = faults]
    BY <1>6 DEF Checked, Note
  <2>4. y.faults \subseteq faults
    OBVIOUS
  <2> HIDE DEF y, faults
  <2>5. /\ r.mol = y.mol /\ r.open = y.open /\ r.timers = y.timers
        /\ r.source = y.source /\ r.player = y.player
        /\ r.crashed = y.crashed /\ r.faults = faults /\ r.done = y.done
    BY <1>4, <2>2, <2>3
  <2> QED BY <2>1, <2>4, <2>5
<1> QED
  BY <1>1, <1>2, <1>5, <1>6

\* r is the session with a new molecule s.
Grows(r, s) ==
    /\ Callable(r)
    /\ s \notin Queued(session) /\ Queued(r) = Queued(session) \cup {s}
    /\ \A t \in Queued(session) : r.mol[t] = session.mol[t]
    /\ r.mol[s].current = 1 /\ r.done = {}
    /\ r.active = session.active /\ r.pin = session.pin

\* The new molecule waits, or the active one is interrupted.
Joins(r, s) ==
    \/ session' = r /\ FALSE \in Preempts(r, r.mol[s].priority)
    \/ /\ TRUE \in Preempts(r, r.mol[s].priority) /\ Kept(r, session')
       /\ Played(r, session', "interrupt")
       /\ Recounts(r, {}, session')
       /\ s \in Queued(session') /\ session'.mol[s].current = 1

\* What an enqueue command that makes the molecule s does to the session.
Enqueues(s) ==
    /\ Good(session') /\ Explained(session') /\ session.faults \subseteq session'.faults
    /\ Sound(session') =>
         /\ \A t \in Queued(session) \ Queued(session') : Ends(t)
         /\ \A t \in Queued(session) \cap Queued(session') :
               \/ "loop" \in session.mol[t].mode
               \/ session'.mol[t].current = session.mol[t].current
               \/ s \in Queued(session') \ Queued(session) /\ session'.mol[s].atoms = <<>>
         /\ \E r : Grows(r, s) /\ Joins(r, s)

LEMMA EnqueueEnqueues ==
    ASSUME Good(session), count \in 0 .. MaxMolecules, Numbered,
           NEW p \in Priorities, NEW shape \in Shapes, NEW id \in MaybeIds,
           Enqueue(p, shape, id)
    PROVE  Enqueues(count + 1)
<1> DEFINE s == count + 1
<1>0. s \in Serials /\ count \in Nat
  BY BoundsAssumption DEF Enqueue, Serials
<1>1. PICK q \in Running : \E r \in Push(q, p, shape, id, s) :
         \E now \in Preempts(r, p) :
            IF now THEN session' \in Schedule(Touch(r), "interrupt") ELSE session' = r
  BY DEF Enqueue
<1>2. PICK r \in Push(q, p, shape, id, s) :
         \E now \in Preempts(r, p) :
            IF now THEN session' \in Schedule(Touch(r), "interrupt") ELSE session' = r
  BY <1>1
<1>3. /\ Steady(q) /\ Consistent(q) /\ q.mol = session.mol /\ ~q.crashed
      /\ q.active = session.active /\ q.pin = session.pin /\ q.faults = session.faults
      /\ q.open = session.open /\ q.source = session.source /\ q.player = session.player
      /\ q.timers = session.timers /\ ~session.crashed /\ q.done = {}
  BY RunningPrecedes, RunningKeeps, RunningMirrors
     DEF Good, Steady, Running, Consistent, IsSession, Session
<1>4. Queued(q) = Queued(session) /\ \A t \in Queued(q) : t < s /\ t # s /\ t \in Nat
  <2>1. Queued(q) = Queued(session)
    BY <1>3 DEF Queued
  <2>2. \A t \in Queued(q) : t \in Nat
    BY <1>3, MoleculeType, BoundsAssumption DEF Serials
  <2> QED BY <1>0, <2>1, <2>2 DEF Numbered
<1>5. /\ Consistent(r) /\ Apart(r) /\ Ready(r)
      /\ Queued(r) = Queued(q) \cup {s}
      /\ r.mol[s].priority = p
      /\ \A t \in Queued(q) : r.mol[t] = q.mol[t]
      /\ r.active = q.active /\ r.pin = q.pin
      /\ Sound(r) => Sound(q)
  <2> HIDE DEF s
  <2> QED BY <1>0, <1>2, <1>3, <1>4, PushReady
<1>6. /\ r.mol[s].current = 1 /\ r.mol[s].started = FALSE
      /\ r.mol[s].stopped = FALSE /\ r.done = {}
      /\ r.open = q.open /\ r.timers = q.timers
      /\ r.source = q.source /\ r.player = q.player
      /\ r.crashed = q.crashed /\ q.faults \subseteq r.faults
  <2> HIDE DEF s
  <2>1. /\ r.mol[s].current = 1 /\ r.mol[s].started = FALSE
        /\ r.mol[s].stopped = FALSE /\ r.done = q.done
        /\ r.open = q.open /\ r.timers = q.timers
        /\ r.source = q.source /\ r.player = q.player
        /\ r.crashed = q.crashed /\ q.faults \subseteq r.faults
    BY <1>0, <1>2, <1>3, PushFields
  <2> QED BY <1>3, <2>1
<1>7. Steady(session')
  BY EnqueueSteady DEF Good
<1> HIDE DEF s
<1>8. ASSUME Sound(r)
      PROVE  Heard(r) /\ Entire(r) /\ Tidy(r)
  <2>1. Sound(session) /\ Due(session) /\ Heard(session) /\ Entire(session) /\ Tidy(session)
    BY <1>3, <1>5, <1>8 DEF Sound, Good, Steady
  <2>2. \A t \in Queued(session) : r.mol[t] = session.mol[t]
    BY <1>3, <1>4, <1>5
  <2>3. Queued(r) = Queued(session) \cup {s} /\ \A t \in Queued(session) : t < s
    BY <1>4, <1>5
  <2>4. Heard(r)
    <3> SUFFICES ASSUME r.active # Null
                 PROVE  /\ IsActive(r.mol[r.pin])
                        /\ Aired(r, CurrentAtom(r.mol[r.pin]))
      BY DEF Heard
    <3>1. r.mol[r.pin] = session.mol[session.pin] /\ session.active # Null
      BY <1>3, <1>5, <2>1, <2>2 DEF Due, Playable
    <3> QED BY <1>3, <1>6, <2>1, <3>1 DEF Heard, Aired
  <2>5. Entire(r)
    <3> SUFFICES ASSUME NEW t \in Playable(r)
                 PROVE  IsActive(r.mol[t])
      BY DEF Entire, EntireBut
    <3>1. CASE t = s
      <4>1. r.mol[t] \in Molecule /\ r.mol[t].atoms # <<>>
        BY <1>5, MoleculeType DEF Playable
      <4>2. Len(r.mol[t].atoms) \in Nat /\ Len(r.mol[t].atoms) # 0
        <5> DEFINE atoms == r.mol[t].atoms
        <5>1. atoms \in Seq(Atom)
          BY <4>1 DEF Molecule
        <5> HIDE DEF atoms
        <5>2. Len(atoms) \in Nat /\ (Len(atoms) = 0 => atoms = <<>>)
          BY <5>1
        <5> QED BY <4>1, <5>2 DEF atoms
      <4> QED BY <1>6, <3>1, <4>2 DEF IsActive
    <3>2. CASE t # s
      <4>1. t \in Playable(session) /\ r.mol[t] = session.mol[t]
        BY <2>2, <2>3, <3>2 DEF Playable
      <4> QED BY <2>1, <4>1 DEF Entire, EntireBut
    <3> QED BY <3>1, <3>2
  <2>6. Ranked(r)
    <3> SUFFICES ASSUME NEW t \in Playable(r), NEW u \in Playable(r), t < u,
                        r.mol[t].priority = r.mol[u].priority
                 PROVE  ~r.mol[u].started
      BY DEF Ranked
    <3>1. CASE u = s
      BY <1>6, <3>1
    <3>2. CASE u # s
      <4>1. u \in Queued(session) /\ t # s
        <5>1. u \in Queued(session) /\ u < s /\ u \in Int /\ s \in Int
          BY <1>0, <1>4, <2>3, <3>2 DEF Playable, Serials
        <5> QED BY <5>1
      <4>2. t \in Playable(session) /\ u \in Playable(session)
            /\ r.mol[t] = session.mol[t] /\ r.mol[u] = session.mol[u]
        BY <2>2, <2>3, <4>1 DEF Playable
      <4> QED BY <2>1, <4>2 DEF Ranked, Tidy
    <3> QED BY <3>1, <3>2
  <2>7. Timed(r)
    BY <1>3, <1>6, <2>1 DEF Timed, Tidy
  <2>8. Held(r)
    <3>1. \A a \in session.open : a.molecule \in Queued(session)
      BY DEF Good, Steady, Consistent
    <3> QED BY <1>3, <1>6, <2>1, <2>2, <3>1 DEF Held, Tidy
  <2> QED BY <2>4, <2>5, <2>6, <2>7, <2>8 DEF Tidy
<1>9. /\ Callable(r) /\ Precedes(r, Touch(r)) /\ Touch(r).done = {}
      /\ \A t \in Queued(r) \ ActiveOnes(r) : Touch(r).mol[t] = r.mol[t]
  BY <1>3, <1>5, <1>6, <1>8, TouchPrecedes DEF Callable
<1>16. Grows(r, s)
  BY <1>3, <1>4, <1>5, <1>6, <1>9 DEF Grows
<1>10. ASSUME session' \in Schedule(Touch(r), "interrupt"), TRUE \in Preempts(r, p)
       PROVE  Enqueues(s)
  <2>1. /\ Good(session') /\ Explained(session') /\ Kept(r, session')
        /\ Sound(session') =>
             /\ Went(r, session', "interrupt") /\ Played(r, session', "interrupt")
             /\ Fresh(Touch(r), session') /\ Recounts(r, {}, session')
    BY <1>9, <1>10, ScheduleStep
  <2>2. ASSUME Sound(session')
        PROVE  /\ \A t \in Queued(session) \ Queued(session') : Ends(t)
               /\ \A t \in Queued(session) \cap Queued(session') :
                     \/ "loop" \in session.mol[t].mode
                     \/ session'.mol[t].current = session.mol[t].current
                     \/ s \in Queued(session') \ Queued(session) /\ session'.mol[s].atoms = <<>>
    <3>1. Went(r, session', "interrupt") /\ Sound(r)
      BY <2>1, <2>2 DEF Kept
    <3>2. \A t \in Queued(session) : t \in Queued(r) /\ r.mol[t] = session.mol[t] /\ t # s
      BY <1>3, <1>4, <1>5
    <3>3. ASSUME NEW t \in Queued(session) \ Queued(session')
          PROVE  Ends(t)
      BY <1>3, <1>5, <3>1, <3>2, <3>3 DEF Went, Ends
    <3>4. ASSUME NEW t \in Queued(session) \cap Queued(session'),
                 "loop" \notin session.mol[t].mode,
                 session'.mol[t].current # session.mol[t].current
          PROVE  s \in Queued(session') \ Queued(session) /\ session'.mol[s].atoms = <<>>
      <4>1. r.active # Null /\ t = r.pin /\ t \in NextUp(r)
        BY <3>1, <3>2, <3>4 DEF Went
      <4>2. ActiveOnes(r) = {r.pin} /\ ~Dangling(r)
        BY <1>5, <3>1, <4>1, ActiveOfReady
      <4>3. r.mol[t].priority < p
        BY <1>10, <4>1, <4>2 DEF Preempts
      <4>4. s \in Queued(r) /\ s \notin Queued(session)
        BY <1>4, <1>5
      <4>5. r.mol[s].atoms = <<>>
        <5> SUFFICES ASSUME s \in Playable(r) PROVE FALSE
          BY <4>4 DEF Playable
        <5>1. Before(r, t, s)
          BY <3>2, <4>1 DEF NextUp
        <5>2. r.mol[t].priority \in Int /\ p \in Int /\ r.mol[s].priority = p
          BY <1>5, <3>2, MoleculeType, PrioritiesAssumption DEF Molecule, Priorities
        <5> QED BY <4>3, <5>1, <5>2 DEF Before
      <4>6. s \in Queued(session')
        BY <3>1, <3>2, <4>1, <4>4 DEF Went
      <4> QED BY <3>1, <4>4, <4>5, <4>6 DEF Went
    <3> QED BY <3>3, <3>4
  <2>3. ASSUME Sound(session')
        PROVE  Joins(r, s)
    <3>1. /\ Played(r, session', "interrupt") /\ Fresh(Touch(r), session')
          /\ Recounts(r, {}, session') /\ Sound(r)
      BY <2>1, <2>3 DEF Kept
    <3>2. r.active # Null => ActiveOnes(r) = {r.pin} /\ r.pin # s
      <4>1. Sound(session) /\ Due(session)
        BY <1>3, <1>5, <3>1 DEF Sound, Good, Steady
      <4>2. r.active # Null => r.pin \in Queued(session)
        BY <1>3, <1>5, <4>1 DEF Due, Playable
      <4> QED BY <1>4, <1>5, <3>1, <4>2, ActiveOfReady
    <3>3. s \notin ActiveOnes(r)
      BY <1>5, <3>2, NobodyAtNull
    <3>4. s \in Queued(session')
      BY <1>5, <3>1, <3>2 DEF Played
    <3>5. Touch(r).mol[s] = r.mol[s] /\ Touch(r).active = r.active /\ Touch(r).pin = r.pin
      BY <1>5, <1>9, <3>3 DEF Precedes, Mirrors
    <3>6. session'.mol[s].current = 1
      BY <1>6, <3>1, <3>2, <3>4, <3>5 DEF Fresh
    <3> QED BY <1>5, <1>10, <2>1, <3>1, <3>4, <3>6 DEF Joins
  <2>4. session.faults \subseteq session'.faults
    BY <1>3, <1>6, <2>1 DEF Kept
  <2> QED BY <1>16, <2>1, <2>2, <2>3, <2>4 DEF Enqueues
<1>11. ASSUME session' = r, FALSE \in Preempts(r, p)
       PROVE  Enqueues(s)
  <2>1. Good(session') /\ Explained(session')
    BY <1>3, <1>6, <1>7, <1>8, <1>11 DEF Good, Explained
  <2>2. \A t \in Queued(session) : t \in Queued(session') /\ session'.mol[t] = session.mol[t]
    BY <1>3, <1>4, <1>5, <1>11
  <2>3. Joins(r, s)
    BY <1>5, <1>11 DEF Joins
  <2>4. session.faults \subseteq session'.faults
    BY <1>3, <1>6, <1>11
  <2> QED BY <1>16, <2>1, <2>2, <2>3, <2>4 DEF Enqueues
<1>12. PICK now \in Preempts(r, p) :
            IF now THEN session' \in Schedule(Touch(r), "interrupt") ELSE session' = r
  BY <1>2
<1>13. now \in BOOLEAN
  <2>1. \A x \in ActiveOnes(r) : r.mol[x].priority \in Int /\ p \in Int
    BY <1>5, MoleculeType, PrioritiesAssumption DEF ActiveOnes, Target, Molecule, Priorities
  <2>2. \A x \in ActiveOnes(r) : (r.mol[x].priority < p) \in BOOLEAN
    BY <2>1
  <2>3. Preempts(r, p) \subseteq BOOLEAN
    BY <2>2, Zenon DEF Preempts
  <2> QED BY <2>3
<1>14. CASE now = TRUE
  BY <1>10, <1>12, <1>14 DEF s
<1>15. CASE now = FALSE
  BY <1>11, <1>12, <1>15 DEF s
<1> QED BY <1>13, <1>14, <1>15

-----------------------------------------------------------------------------
(* The theorems.                                                           *)

\* The inductive invariant.
QueueIsGood == QueueIsSteady /\ Good(session) /\ Explained(session)

LEMMA InitIsGood ==
    ASSUME Init
    PROVE  QueueIsGood
<1>1. QueueIsSteady
  BY InitIsSteady
<1>2. /\ Queued(session) = {} /\ session.active = Null /\ session.crashed = FALSE
      /\ session.open = {} /\ session.timers = {}
  BY DEF Init, Queued
<1>3. Heard(session) /\ Entire(session) /\ Tidy(session)
  BY <1>2 DEF Heard, Entire, EntireBut, Playable, Tidy, Ranked, Timed, Held
<1> QED
  BY <1>1, <1>2, <1>3 DEF QueueIsGood, QueueIsSteady, Good, Explained

\* A parameter that the command enqueue should have refused crashes.
LEMMA EnqueueUncheckedIsGood ==
    ASSUME Good(session), EnqueueUnchecked
    PROVE  Good(session') /\ Explained(session') /\ ~Sound(session')
<1>1. PICK q \in Running : session' = Wild(q)
  BY DEF EnqueueUnchecked
<1>2. Steady(q)
  BY RunningMirrors DEF Good
<1> QED
  BY <1>1, <1>2, WildGood

LEMMA EventOccurs ==
    ASSUME QueueIsGood, Events
    PROVE  Occurs
<1>1. Good(session)
  BY DEF QueueIsGood
<1> QED
  BY <1>1, EndOfFileOccurs, DtmfBeginOccurs, VoiceActivityOccurs, RecordTimerOccurs DEF Events

LEMMA StepIsGood ==
    ASSUME QueueIsGood, [Next]_vars
    PROVE  QueueIsGood'
<1>1. QueueIsSteady' /\ Good(session) /\ Explained(session)
  BY StepIsSteady DEF QueueIsGood
<1>2. Good(session') /\ Explained(session')
  <2>1. CASE UNCHANGED vars
    <3>1. session' = session
      BY <2>1 DEF vars
    <3> QED BY <1>1, <3>1
  <2>2. ASSUME NEW p \in Priorities, NEW shape \in Shapes, NEW id \in MaybeIds,
               Enqueue(p, shape, id)
        PROVE  Good(session') /\ Explained(session')
    BY <2>2, EnqueueEnqueues DEF QueueIsGood, QueueIsSteady, Enqueues
  <2>3. CASE EnqueueUnchecked
    BY <1>1, <2>3, EnqueueUncheckedIsGood
  <2>4. ASSUME NEW from \in Accepted, NEW to \in Accepted, DiscardRange(from, to)
        PROVE  Good(session') /\ Explained(session')
    BY <1>1, <2>4, DiscardRangeDiscards DEF Discards
  <2>5. ASSUME NEW id \in MaybeIds, Discard(id)
        PROVE  Good(session') /\ Explained(session')
    BY <1>1, <2>5, DiscardDiscards DEF Discards
  <2>6. CASE Events
    BY <2>6, EventOccurs DEF Occurs
  <2> QED BY <2>1, <2>2, <2>4, <2>5, <2>6, <2>3 DEF Next, Commands
<1>3. Good(session)' /\ Explained(session)'
  BY <1>2
<1> QED
  BY <1>1, <1>3 DEF QueueIsGood

LEMMA QueueStaysGood == Spec => []QueueIsGood
<1>1. Init => QueueIsGood
  BY InitIsGood
<1>2. QueueIsGood /\ [Next]_vars => QueueIsGood'
  BY StepIsGood
<1> QED
  BY <1>1, <1>2, PTL DEF Spec

\* What baresip plays from or records into is the current atom of the molecule
\* in _active, after every command and event.
THEOREM ActiveStaysHeard == Spec => []ActiveIsHeard
<1>1. QueueIsGood => ActiveIsHeard
  <2> SUFFICES ASSUME QueueIsGood, InStep, Without({"cut"}), NEW s \in ActiveOnes(session)
               PROVE  LET m == session.mol[s]
                      IN  /\ IsActive(m)
                          /\ CurrentAtom(m) \in session.open
                          /\ {CurrentAtom(m)} \in {session.source, session.player}
    BY DEF ActiveIsHeard
  <2>1. Sound(session) /\ "cut" \notin session.faults /\ Good(session) /\ Consistent(session)
    BY DEF InStep, Without, Sound, QueueIsGood, Good, Steady
  <2>2. session.active # Null
    BY <2>1, NobodyAtNull
  <2>3. s = session.pin
    BY <2>1, <2>2, SteadyReady, ActiveOfReady DEF Good, Steady
  <2> QED BY <2>1, <2>2, <2>3 DEF Good, Heard, Aired
<1> QED
  BY <1>1, QueueStaysGood, PTL

\* A molecule that waits behind another one of its priority has not started.
THEOREM StartsStayInOrder == Spec => []StartsInOrder
<1>1. QueueIsGood => StartsInOrder
  BY DEF QueueIsGood, Good, Tidy, Ranked, StartsInOrder, InStep, Without, Sound
<1> QED
  BY <1>1, QueueStaysGood, PTL

\* A timer that is armed is that of an open Record of a queued molecule: while
\* _active does not go stale, Record::stop and ~Record disarm what they must.
THEOREM TimersStayOwned == Spec => []TimersAreOwned
<1>1. QueueIsGood => TimersAreOwned
  BY DEF QueueIsGood, Good, Steady, Consistent, Tidy, Timed, TimersAreOwned, Without, Sound
<1> QED
  BY <1>1, QueueStaysGood, PTL

\* Of the code that is modelled, nothing crashes the process but a stale
\* _active, an atom that could not be started, a length that was never read, a
\* loop without anything to play or with nothing but empty files, and a
\* parameter that enqueue or discard does not check.
THEOREM CrashesStayExplained == Spec => []CrashNeedsFault
<1>1. QueueIsGood => CrashNeedsFault
  BY DEF QueueIsGood, Explained, Blamed, CrashNeedsFault
<1> QED
  BY <1>1, QueueStaysGood, PTL

\* A molecule leaves when it has played its last atom, when it gives way to a
\* higher priority, or when a command discards it, and never otherwise.
THEOREM LeavingStaysDone == Spec => LeavesOnlyWhenDone
<1> DEFINE Departed == \A s \in Queued(session) \ Queued(session') :
            \/ Ends(s)
            \/ \E from, to \in Accepted : /\ DiscardRange(from, to)
                                          /\ session.mol[s].priority \in from .. (to - 1)
            \/ \E id \in MaybeIds : Discard(id) /\ session.mol[s].id = id
           step == InStep' => Departed
<1>1. QueueIsGood /\ [Next]_vars => [step]_vars
  <2> SUFFICES ASSUME QueueIsGood, Next, InStep'
               PROVE  Departed
    OBVIOUS
  <2>1. Sound(session') /\ Good(session)
    BY DEF InStep, Without, Sound, QueueIsGood
  <2>2. ASSUME NEW p \in Priorities, NEW shape \in Shapes, NEW id \in MaybeIds,
               Enqueue(p, shape, id)
        PROVE  Departed
    BY <2>1, <2>2, EnqueueEnqueues DEF QueueIsGood, QueueIsSteady, Enqueues
  <2>3. CASE EnqueueUnchecked
    BY <2>1, <2>3, EnqueueUncheckedIsGood
  <2>4. ASSUME NEW from \in Accepted, NEW to \in Accepted, DiscardRange(from, to)
        PROVE  Departed
    BY <2>1, <2>4, DiscardRangeDiscards DEF Discards, Cleared
  <2>5. ASSUME NEW id \in MaybeIds, Discard(id)
        PROVE  Departed
    BY <2>1, <2>5, DiscardDiscards DEF Discards, Cleared, Firsts
  <2>6. CASE Events
    BY <2>1, <2>6, EventOccurs DEF Occurs, Went, Ends
  <2> QED BY <2>2, <2>4, <2>5, <2>6, <2>3 DEF Next, Commands
<1> QED
  BY <1>1, QueueStaysGood, PTL DEF Spec, LeavesOnlyWhenDone

\* An event that a molecule notices ends the atom the active one is at, or is
\* one of the two that the code mistakes for such an end.
LEMMA EventEnds ==
    ASSUME Good(session), Events, Sound(session'), session.active # Null
    PROVE  LET a == CurrentAtom(session.mol[session.pin])
           IN  Rested(session, session') \/ OwnEnd(a) \/ StrayEnd(a)
<1> DEFINE a == CurrentAtom(session.mol[session.pin])
<1>1. Steady(session) /\ Consistent(session)
  BY DEF Good, Steady
<1>2. Kept(session, session')
  BY <1>1, EndOfFileSteady, DtmfBeginSteady, VoiceActivitySteady, RecordTimerSteady DEF Events
<1>3. Sound(session) /\ ActiveOnes(session) = {session.pin} /\ Heard(session)
  BY <1>2, SteadyReady, ActiveOfReady DEF Kept, Good, Steady
<1>4. CASE EndOfFile
  <2>1. Aired(session, a)
    BY <1>3 DEF Heard
  <2>2. a.kind.type \in {"play", "record"}
    BY <1>1, <2>1 DEF Aired, Consistent, IsSession, Session, Atom, Kind
  <2> QED BY <1>4, <2>1, <2>2 DEF Aired, OwnEnd, StrayEnd
<1>5. CASE DtmfBegin
  <2>1. PICK q \in Running :
           \/ \E b \in ActiveRecords(q) : b.kind.dtmf
           \/ Dangling(q) /\ session' = Undefined(q)
    BY <1>5 DEF DtmfBegin
  <2>2. PICK b \in ActiveRecords(q) : b.kind.dtmf
    BY <2>1, UndefinedOccurs
  <2>3. q.mol = session.mol /\ q.active = session.active /\ q.buffer = session.buffer
    BY <1>1 DEF Running, Consistent, IsSession, Session
  <2>4. ActiveOnes(q) = ActiveOnes(session)
    BY <2>3 DEF ActiveOnes, Target, Address, Slot, Vector, Queued
  <2>5. b = a /\ b.kind.type = "record"
    BY <1>3, <2>2, <2>3, <2>4 DEF ActiveRecords
  <2> QED BY <1>5, <2>2, <2>5 DEF OwnEnd
<1>6. ASSUME NEW on \in BOOLEAN, VoiceActivity(on)
      PROVE  Rested(session, session')
  BY <1>6, VoiceActivityOccurs
<1>7. ASSUME NEW t \in session.timers, RecordTimer(t)
      PROVE  OwnEnd(a) \/ StrayEnd(a)
  BY <1>7 DEF OwnEnd, StrayEnd
<1> QED
  BY <1>4, <1>5, <1>6, <1>7 DEF Events

\* The atoms of a molecule that does not loop follow one another: it advances
\* by one when its current atom ends, which baresip plays or records, or when
\* one of the two events that StrayEnd names is taken for this end, and only
\* then, or when a command says so, does any molecule leave.
THEOREM AtomsStayInOrder == Spec => AtomsInOrder
<1> DEFINE Ended(s) == s = session.pin /\ LET a == CurrentAtom(session.mol[s])
                                         IN  OwnEnd(a) \/ StrayEnd(a)
           Follows(s) ==
              LET m == session.mol[s]
                  n == session'.mol[s]
              IN  IF s \notin Queued(session') THEN Commands \/ Ended(s)
                  ELSE \/ "loop" \in m.mode
                       \/ n.current = m.current
                       \/ n.current = m.current + 1 /\ Ended(s)
                       \/ \E t \in Queued(session') \ Queued(session) :
                              session'.mol[t].atoms = <<>>
           Moved == \A s \in Queued(session) : Follows(s)
           step == InStep' => Moved
<1>1. QueueIsGood /\ [Next]_vars => [step]_vars
  <2> SUFFICES ASSUME QueueIsGood, Next, InStep'
               PROVE  Moved
    OBVIOUS
  <2>1. Sound(session') /\ Good(session)
    BY DEF InStep, Without, Sound, QueueIsGood
  <2> HIDE DEF Ended
  <2>2. ASSUME NEW p \in Priorities, NEW shape \in Shapes, NEW id \in MaybeIds,
               Enqueue(p, shape, id)
        PROVE  Moved
    BY <2>1, <2>2, EnqueueEnqueues DEF QueueIsGood, QueueIsSteady, Enqueues, Commands
  <2>3. ASSUME NEW from \in Accepted, NEW to \in Accepted, DiscardRange(from, to)
        PROVE  Moved
    BY <2>1, <2>3, DiscardRangeDiscards DEF Discards, Cleared, Stays, Loops, Commands
  <2>4. ASSUME NEW id \in MaybeIds, Discard(id)
        PROVE  Moved
    BY <2>1, <2>4, DiscardDiscards DEF Discards, Cleared, Stays, Loops, Commands
  <2>5. CASE EnqueueUnchecked
    BY <2>1, <2>5, EnqueueUncheckedIsGood
  <2>6. CASE Events
    <3>1. Went(session, session', "eof")
      BY <2>1, <2>6, EventOccurs DEF Occurs
    <3>2. CASE Rested(session, session')
      BY <3>2 DEF Rested
    <3>3. CASE ~Rested(session, session') /\ session.active # Null
      <4>1. Ended(session.pin)
        BY <2>1, <2>6, <3>3, EventEnds DEF Ended
      <4> QED BY <3>1, <4>1 DEF Went
    <3>4. CASE session.active = Null
      BY <3>1, <3>4 DEF Went
    <3> QED BY <3>2, <3>3, <3>4
  <2> QED BY <2>2, <2>3, <2>4, <2>5, <2>6 DEF Next, Commands
<1> QED
  BY <1>1, QueueStaysGood, PTL DEF Spec, AtomsInOrder, Ended

-----------------------------------------------------------------------------
(* The queue implements the abstract player.                               *)

\* Nothing has put the queue out of step, and no Record lost the player.
Faultless(q) == q.faults \cap {"stale", "start", "masked", "cut"} = {} /\ ~q.crashed

LEMMA ActiveIsNext ==
    ASSUME NEW q, Good(q), Faultless(q)
    PROVE  /\ Sound(q) /\ Consistent(q) /\ Heard(q) /\ Entire(q)
           /\ NextUp(q) = IF q.active = Null THEN {} ELSE {q.pin}
           /\ ActiveOnes(q) = NextUp(q)
           /\ NextUp(q) \subseteq Queued(q)
           /\ q.active = Null => Playable(q) = {}
<1>1. /\ Sound(q) /\ Consistent(q) /\ Apart(q) /\ Due(q) /\ Ready(q)
      /\ Heard(q) /\ Entire(q)
  BY SteadyReady DEF Faultless, Sound, Good, Steady
<1>2. CASE q.active = Null
  <2>1. Playable(q) = {}
    BY <1>1, <1>2 DEF Due, Faultless
  <2>2. ActiveOnes(q) = {}
    BY <1>1, <1>2, NobodyAtNull
  <2> QED BY <1>1, <1>2, <2>1, <2>2 DEF NextUp
<1>3. CASE q.active # Null
  <2>1. ActiveOnes(q) = {q.pin}
    BY <1>1, <1>3, ActiveOfReady
  <2>2. q.pin \in Queued(q) /\ q.pin \in NextUp(q)
    BY <1>1, <1>3 DEF Due, NextUp, Playable
  <2>3. \A s \in NextUp(q) : s = q.pin
    BY <1>1, <2>2, NextUpUnique
  <2> QED BY <1>1, <1>3, <2>1, <2>2, <2>3
<1> QED BY <1>2, <1>3

LEMMA LengthOfAtoms ==
    ASSUME NEW q, Consistent(q), NEW s \in Queued(q)
    PROVE  LET m == q.mol[s]
           IN  /\ Len(m.atoms) \in Nat /\ (Len(m.atoms) > 0 <=> m.atoms # <<>>)
               /\ m.current \in Nat \ {0} /\ m.priority \in Priorities
<1> DEFINE m == q.mol[s]
<1>1. m \in Molecule
  BY MoleculeType
<1> HIDE DEF m
<1>2. m.atoms \in Seq(Atom) /\ m.current \in Nat \ {0} /\ m.priority \in Priorities
  BY <1>1 DEF Molecule
<1>3. Len(m.atoms) \in Nat /\ (Len(m.atoms) = 0 <=> m.atoms = <<>>)
  BY <1>2
<1> QED
  BY <1>2, <1>3 DEF m

LEMMA ItemFields ==
    ASSUME NEW q, NEW s \in Queued(q)
    PROVE  LET m    == q.mol[s]
               item == Items(q)[s]
           IN  /\ item.priority = m.priority /\ item.name = m.id
               /\ item.length = Len(m.atoms) /\ item.at = m.current
               /\ item.discards = ("discard" \in m.mode) /\ item.loops = Loops(m)
BY DEF Items, ItemOf

LEMMA DueIsNextUp ==
    ASSUME NEW q, Consistent(q)
    PROVE  Abstract!Due(Items(q)) = NextUp(q)
<1>1. DOMAIN Items(q) = Queued(q)
  BY DEF Items
<1>2. \A s \in Queued(q) : /\ Items(q)[s].length > 0 <=> q.mol[s].atoms # <<>>
                           /\ Items(q)[s].priority = q.mol[s].priority
  BY LengthOfAtoms, ItemFields
<1> QED
  BY <1>1, <1>2 DEF Abstract!Due, NextUp, Playable, Before

\* What can be heard is the part at which the item is whose turn it is.
LEMMA HeardIsDue ==
    ASSUME NEW q, Good(q), Faultless(q)
    PROVE  Audible(q) = {<<s, Items(q)[s].at>> : s \in Abstract!Due(Items(q))}
<1>1. /\ Consistent(q) /\ Heard(q) /\ NextUp(q) = (IF q.active = Null THEN {} ELSE {q.pin})
      /\ ActiveOnes(q) = NextUp(q) /\ NextUp(q) \subseteq Queued(q)
  BY ActiveIsNext
<1>2. "cut" \notin q.faults
  BY DEF Faultless
<1>3. \A t \in ActiveOnes(q) : /\ IsActive(q.mol[t])
                               /\ {CurrentAtom(q.mol[t])} \in {q.source, q.player}
  BY <1>1, <1>2 DEF Heard, Aired
<1>4. {t \in ActiveOnes(q) : /\ IsActive(q.mol[t])
                             /\ {CurrentAtom(q.mol[t])} \in {q.source, q.player}} = NextUp(q)
  BY <1>1, <1>3
<1>5. Audible(q) = {<<s, q.mol[s].current>> : s \in NextUp(q)}
  BY <1>4, Zenon DEF Audible
<1>6. \A s \in NextUp(q) : Items(q)[s].at = q.mol[s].current
  BY <1>1, ItemFields
<1>7. Abstract!Due(Items(q)) = NextUp(q)
  BY <1>1, DueIsNextUp
<1> QED
  BY <1>5, <1>6, <1>7

\* A molecule that is the same molecule as before is the same item, elsewhere.
LEMMA SameItem ==
    ASSUME NEW q, NEW r, NEW s \in Queued(q), s \in Queued(r), Same(q.mol[s], r.mol[s])
    PROVE  Items(r)[s] = [Items(q)[s] EXCEPT !.at = r.mol[s].current]
<1> DEFINE m == q.mol[s]
           n == r.mol[s]
<1>1. Items(q)[s] = ItemOf(m) /\ Items(r)[s] = ItemOf(n)
  BY DEF Items
<1>2. Loops(n) = Loops(m)
  BY DEF Same, Loops
<1> HIDE DEF m, n
<1>3. ItemOf(n) = [ItemOf(m) EXCEPT !.at = n.current]
  BY <1>2 DEF ItemOf, Same, m, n
<1> QED
  BY <1>1, <1>3 DEF n

LEMMA SameIsAt ==
    ASSUME NEW s \in Queued(session), s \in Queued(session'),
           Same(session.mol[s], session'.mol[s])
    PROVE  Abstract!IsAt(s, session'.mol[s].current)
<1>1. Items(session')[s] = [Items(session)[s] EXCEPT !.at = session'.mol[s].current]
  BY SameItem
<1> QED
  BY <1>1 DEF Abstract!IsAt

LEMMA StaysRests ==
    ASSUME Consistent(session'), Entire(session'), NEW s \in Queued(session),
           s \in Queued(session'), Same(session.mol[s], session'.mol[s]),
           Stays(session, session', s)
    PROVE  Abstract!Rests(s)
<1> DEFINE m == session.mol[s]
           i == session'.mol[s].current
<1>1. Items(session')[s] = [Items(session)[s] EXCEPT !.at = i]
  BY SameItem
<1>2. CASE i = m.current
  <2>1. Items(session)[s] = ItemOf(m)
    BY DEF Items
  <2>2. [ItemOf(m) EXCEPT !.at = m.current] = ItemOf(m)
    BY DEF ItemOf
  <2> QED BY <1>1, <1>2, <2>1, <2>2 DEF Abstract!Rests
<1>3. CASE Loops(m) = "seeks" /\ s \in NextUp(session')
  <2>1. s \in Abstract!Due(Items(session'))
    BY <1>3, DueIsNextUp
  <2>2. i \in 1 .. Len(m.atoms)
    <3>1. IsActive(session'.mol[s]) /\ session'.mol[s].atoms = m.atoms
      BY <1>3 DEF Entire, EntireBut, NextUp, Same
    <3>2. i \in Nat \ {0} /\ Len(m.atoms) \in Nat
      BY <3>1, LengthOfAtoms
    <3> QED BY <3>1, <3>2 DEF IsActive
  <2>3. Items(session)[s].loops = "seeks" /\ Items(session)[s].length = Len(m.atoms)
    BY <1>3, ItemFields
  <2> HIDE DEF i, m
  <2> QED BY <1>1, <2>1, <2>2, <2>3 DEF Abstract!Rests, Abstract!IsAt, Abstract!Parts
<1> QED
  BY <1>2, <1>3 DEF Stays

LEMMA HeirsAreSlotIds ==
    ASSUME NEW s \in Queued(session)
    PROVE  Abstract!Heirs(s) = SlotIds(session, s)
<1> DEFINE later  == {t \in Vector(session, session.mol[s].priority) : t > s}
           behind == {t \in DOMAIN Items(session) :
                         Items(session)[t].priority = Items(session)[s].priority /\ t > s}
<1>1. \A t \in Queued(session) : /\ Items(session)[t].name = session.mol[t].id
                                  /\ Items(session)[t].priority = session.mol[t].priority
  BY ItemFields
<1>2. behind = later
  <2>1. DOMAIN Items(session) = Queued(session)
    BY DEF Items
  <2> QED BY <1>1, <2>1 DEF Vector
<1>3. later \subseteq Queued(session)
  BY DEF Vector
<1>4. Abstract!Heirs(s) = IF behind = {} THEN {Items(session)[s].name, NoId}
                          ELSE {Items(session)[t].name : t \in {u \in behind : \A v \in behind : u <= v}}
  BY DEF Abstract!Heirs
<1>5. SlotIds(session, s) = IF later = {} THEN {session.mol[s].id, NoId}
                            ELSE {session.mol[t].id : t \in {u \in later : \A v \in later : u <= v}}
  BY DEF SlotIds
<1> DEFINE heir == {u \in later : \A v \in later : u <= v}
<1>6. heir \subseteq Queued(session)
  BY <1>3
<1>7. {Items(session)[t].name : t \in heir} = {session.mol[t].id : t \in heir}
  <2> HIDE DEF heir
  <2> QED BY <1>1, <1>6
<1> HIDE DEF later, behind
<1> QED
  BY <1>1, <1>2, <1>4, <1>5, <1>7

\* The client is told what the abstract player reports.
LEMMA DoneReports ==
    ASSUME NEW D \in SUBSET Queued(session), Reports(session, D, {}, session')
    PROVE  Abstract!Report(D)
<1>1. CASE D = {}
  BY <1>1 DEF Reports, Told, Abstract!Report
<1>2. CASE D # {}
  <2>1. PICK s \in D : \E d \in DoneFor(session, s) : session'.done = {} \cup {d}
    BY <1>2 DEF Reports
  <2>2. PICK n \in SlotIds(session, s) :
           session'.done = {[id |-> session.mol[s].id, token |-> n]}
    BY <2>1 DEF DoneFor
  <2>3. Told(session') = {n} \ {NoId}
    BY <2>2 DEF Told
  <2>4. n \in Abstract!Heirs(s)
    BY <2>1, <2>2, HeirsAreSlotIds
  <2> QED BY <1>2, <2>1, <2>3, <2>4 DEF Abstract!Report
<1> QED BY <1>1, <1>2

LEMMA OthersRest ==
    ASSUME Consistent(session'), Entire(session'), NEW D, NEW S,
           Queued(session') = Queued(session) \ D,
           \A s \in Queued(session') \ S : /\ Same(session.mol[s], session'.mol[s])
                                           /\ Stays(session, session', s)
    PROVE  Abstract!OnlyLeave(D, S)
<1>1. DOMAIN Items(session') = Queued(session') /\ DOMAIN Items(session) = Queued(session)
  BY DEF Items
<1>2. \A s \in Queued(session') \ S : Abstract!Rests(s)
  BY StaysRests
<1> QED
  BY <1>1, <1>2 DEF Abstract!OnlyLeave

LEMMA AfterIsOnward ==
    ASSUME NEW s \in Queued(session)
    PROVE  Abstract!After(s) = Onward(session.mol[s])
<1> DEFINE m == session.mol[s]
           item == Items(session)[s]
<1>1. item.loops = Loops(m) /\ item.length = Len(m.atoms) /\ item.at = m.current
  BY ItemFields
<1> HIDE DEF m, item
<1>2. Abstract!After(s) = IF item.loops = "seeks" THEN 1 .. item.length
                          ELSE IF item.at < item.length THEN {item.at + 1}
                          ELSE IF item.loops = "wraps" THEN {1} ELSE {}
  BY DEF Abstract!After, Abstract!Parts, item
<1> QED
  BY <1>1, <1>2 DEF Onward, m

\* An event ends the part that is heard, or is nothing to the player.
LEMMA EventPlays ==
    ASSUME Good(session), Good(session'), Faultless(session), Faultless(session'),
           count' = count, Occurs
    PROVE  Abstract!Plays
<1>1. /\ Consistent(session') /\ Entire(session') /\ Sound(session')
  BY ActiveIsNext
<1>2. /\ NextUp(session) = (IF session.active = Null THEN {} ELSE {session.pin})
      /\ NextUp(session) \subseteq Queued(session) /\ Consistent(session)
      /\ session.active = Null => Playable(session) = {}
  BY ActiveIsNext
<1>3. ASSUME Rested(session, session')
      PROVE  Abstract!Pass
  <2>1. /\ Queued(session') = Queued(session)
        /\ \A s \in Queued(session) : /\ Same(session.mol[s], session'.mol[s])
                                       /\ session'.mol[s].current = session.mol[s].current
    BY <1>3 DEF Rested
  <2>2. \A s \in Queued(session) : ItemOf(session'.mol[s]) = ItemOf(session.mol[s])
    BY <2>1 DEF ItemOf, Same, Loops
  <2>3. Items(session') = Items(session)
    BY <2>1, <2>2 DEF Items
  <2>4. Abstract!Report({})
    <3>1. Reports(session, {}, {}, session')
      BY <1>3 DEF Rested, Reports
    <3> QED BY <3>1, DoneReports
  <2> QED BY <2>3, <2>4 DEF Abstract!Pass
<1>4. ASSUME Played(session, session', "eof"), Recounts(session, {}, session'),
             session.active = Null
      PROVE  Rested(session, session')
  <2>1. /\ Queued(session') = Queued(session)
        /\ \A s \in Queued(session') : /\ Same(session.mol[s], session'.mol[s])
                                        /\ Stays(session, session', s)
    BY <1>4 DEF Played
  <2>2. NextUp(session') = {}
    BY <1>2, <1>4, <2>1 DEF NextUp, Playable, Same
  <2>3. session'.done = {}
    BY <1>4, <2>1 DEF Recounts, Reports
  <2> QED BY <2>1, <2>2, <2>3 DEF Rested, Stays
<1>5. ASSUME Played(session, session', "eof"), Recounts(session, {}, session'),
             session.active # Null
      PROVE  \E s \in DOMAIN Items(session) : Abstract!End(s)
  <2> DEFINE s == session.pin
             m == session.mol[s]
  <2>1. s \in Queued(session) /\ s \in NextUp(session) /\ s \in Abstract!Due(Items(session))
    BY <1>2, <1>5, DueIsNextUp
  <2>2. /\ \A t \in Queued(session') :
              /\ t \in Queued(session) /\ Same(session.mol[t], session'.mol[t])
              /\ Stays(session, session', t) \/ t = s
        /\ \A t \in Queued(session) \ Queued(session') : t = s
        /\ IF Onward(m) = {} THEN s \notin Queued(session')
           ELSE s \in Queued(session') /\ session'.mol[s].current \in Onward(m)
    BY <1>5, <2>1 DEF Played
  <2>3. Abstract!After(s) = Onward(m)
    BY <2>1, AfterIsOnward
  <2> HIDE DEF s, m
  <2>4. CASE Onward(m) = {}
    <3>1. Queued(session') = Queued(session) \ {s}
      BY <2>1, <2>2, <2>4
    <3>2. Abstract!OnlyLeave({s}, {})
      BY <1>1, <2>2, <3>1, OthersRest
    <3>3. Abstract!Report({s})
      <4>1. Queued(session) \ Queued(session') = {s}
        BY <2>1, <3>1
      <4> QED BY <1>5, <2>1, <4>1, DoneReports DEF Recounts
    <3>4. Abstract!End(s)
      BY <2>1, <2>3, <2>4, <3>2, <3>3 DEF Abstract!End
    <3> QED BY <2>1, <3>4 DEF Items
  <2>5. CASE Onward(m) # {}
    <3>1. Queued(session') = Queued(session) \ {} /\ s \in Queued(session')
      BY <2>1, <2>2, <2>5
    <3>2. Abstract!OnlyLeave({}, {s})
      BY <1>1, <2>2, <3>1, OthersRest
    <3>3. Abstract!Report({})
      <4>1. Queued(session) \ Queued(session') = {}
        BY <3>1
      <4> QED BY <1>5, <4>1, DoneReports DEF Recounts
    <3>4. Abstract!IsAt(s, session'.mol[s].current) /\ session'.mol[s].current \in Onward(m)
      BY <2>1, <2>2, <2>5, <3>1, SameIsAt
    <3>5. Abstract!End(s)
      BY <2>1, <2>3, <2>5, <3>2, <3>3, <3>4 DEF Abstract!End
    <3> QED BY <2>1, <3>5 DEF Items
  <2> QED BY <2>4, <2>5
<1> QED
  BY <1>1, <1>3, <1>4, <1>5 DEF Occurs, Abstract!Plays

\* A negative bound is harmless only if the range is empty.
LEMMA RangePlays ==
    ASSUME Good(session), Good(session'), Faultless(session'),
           NEW from \in Accepted, NEW to \in Accepted, DiscardRange(from, to)
    PROVE  \E low, high \in Priorities : Abstract!RemoveRange(low, high)
<1> DEFINE D == {s \in Queued(session) : session.mol[s].priority \in from .. (to - 1)}
<1>1. Consistent(session') /\ Entire(session') /\ Sound(session')
  BY ActiveIsNext
<1>2. Cleared(session, session', D) /\ Reports(session, {}, {}, session')
  BY <1>1, DiscardRangeDiscards DEF Discards, Faultless
<1>3. Abstract!OnlyLeave(D, {})
  <2> HIDE DEF D
  <2> QED BY <1>1, <1>2, OthersRest DEF Cleared
<1>4. Abstract!Report({})
  BY <1>2, DoneReports
<1>5. ~(from < 0 /\ from < to)
  <2> SUFFICES ASSUME from < 0 /\ from < to PROVE FALSE
    OBVIOUS
  <2>1. PICK q \in Running : session' = Wild(q)
    BY DEF DiscardRange
  <2>2. Steady(q)
    BY RunningMirrors DEF Good
  <2> QED BY <1>1, <2>1, <2>2, WildGood
<1>6. PICK low \in Priorities, high \in Priorities : low .. (high - 1) = from .. (to - 1)
  <2>1. CASE from \in Priorities /\ to \in Priorities
    BY <2>1
  <2>2. CASE ~(from \in Priorities /\ to \in Priorities)
    <3>1. from \in Int /\ to \in Int /\ to <= from
      BY <1>5, <2>2, PrioritiesAssumption DEF Accepted, Priorities
    <3>2. from .. (to - 1) = {} /\ 0 .. (0 - 1) = {} /\ 0 \in Priorities
      BY <3>1, PrioritiesAssumption DEF Priorities
    <3> QED BY <3>2
  <2> QED BY <2>1, <2>2
<1>7. D = {s \in DOMAIN Items(session) : Items(session)[s].priority \in low .. (high - 1)}
  <2> DEFINE range == low .. (high - 1)
  <2>1. DOMAIN Items(session) = Queued(session)
    BY DEF Items
  <2>2. D = {s \in Queued(session) : session.mol[s].priority \in range}
    BY <1>6
  <2> HIDE DEF D, range
  <2>3. D = {s \in DOMAIN Items(session) : Items(session)[s].priority \in range}
    BY <2>1, <2>2, ItemFields
  <2> QED BY <2>3 DEF range
<1>8. count' = count
  BY DEF DiscardRange
<1> HIDE DEF D
<1>9. Abstract!RemoveRange(low, high)
  BY <1>3, <1>4, <1>7, <1>8 DEF Abstract!RemoveRange
<1> QED
  BY <1>9

LEMMA RemovePlays ==
    ASSUME Good(session), Good(session'), Faultless(session), Faultless(session'),
           NEW id \in MaybeIds, Discard(id)
    PROVE  Abstract!Remove(id)
<1> DEFINE D == Firsts(session, id)
           named == {s \in DOMAIN Items(session) : Items(session)[s].name = id}
           E == {s \in named : \A t \in named :
                    Items(session)[s].priority = Items(session)[t].priority => s <= t}
<1>1. Consistent(session') /\ Entire(session') /\ Sound(session')
  BY ActiveIsNext
<1>2. ActiveOnes(session) = NextUp(session) /\ Consistent(session)
  BY ActiveIsNext
<1>3. /\ Cleared(session, session', D)
      /\ Reports(session, D \cap ActiveOnes(session), {}, session')
  BY <1>1, DiscardDiscards DEF Discards, Faultless
<1>4. D = E
  <2>1. DOMAIN Items(session) = Queued(session)
    BY DEF Items
  <2>2. named = {s \in Queued(session) : session.mol[s].id = id}
    BY <2>1, ItemFields
  <2>3. \A s \in Queued(session) : Items(session)[s].priority = session.mol[s].priority
    BY ItemFields
  <2> HIDE DEF named
  <2> QED BY <2>2, <2>3 DEF Firsts
<1>5. D # {} /\ count' = count
  <2>1. PICK q \in Running : Firsts(q, id) # {}
    BY DEF Discard, Firsts
  <2>2. q.mol = session.mol
    BY <1>2, RunningKeeps
  <2> QED BY <2>1, <2>2 DEF Firsts, Queued, Discard
<1>6. D \in SUBSET Queued(session)
  BY DEF Firsts
<1> HIDE DEF D, E
<1>7. Abstract!OnlyLeave(D, {})
  BY <1>1, <1>3, OthersRest DEF Cleared
<1>8. Abstract!Report(D \cap Abstract!Due(Items(session)))
  <2>1. Abstract!Due(Items(session)) = ActiveOnes(session)
    BY <1>2, DueIsNextUp
  <2> QED BY <1>3, <1>6, <2>1, DoneReports
<1> QED
  BY <1>4, <1>5, <1>7, <1>8 DEF Abstract!Remove, E

\* What the new molecule s makes of the others, in the terms of the player.
Added(s) ==
    LET n     == session'.mol[s]
        lower == {t \in NextUp(session) : session.mol[t].priority < n.priority}
        gone  == {t \in lower : n.atoms # <<>> /\ "discard" \in session.mol[t].mode}
    IN  /\ s \in Queued(session') \ Queued(session)
        /\ n.current = 1
        /\ Queued(session') = (Queued(session) \ gone) \cup {s}
        /\ \A t \in Queued(session) \ gone :
              /\ Same(session.mol[t], session'.mol[t])
              /\ Stays(session, session', t) \/ (n.atoms = <<>> /\ t \in lower)
        /\ Reports(session, gone, {}, session')

LEMMA WaitingAdds ==
    ASSUME Good(session), Good(session'), Faultless(session), Faultless(session'),
           NEW s, NEW r, Grows(r, s), session' = r, FALSE \in Preempts(r, r.mol[s].priority)
    PROVE  Added(s)
<1> DEFINE n     == session'.mol[s]
           lower == {t \in NextUp(session) : session.mol[t].priority < n.priority}
<1>1. /\ NextUp(session) = (IF session.active = Null THEN {} ELSE {session.pin})
      /\ NextUp(session) \subseteq Queued(session)
  BY ActiveIsNext
<1>2. /\ NextUp(r) = (IF r.active = Null THEN {} ELSE {r.pin})
      /\ ActiveOnes(r) = NextUp(r)
  BY ActiveIsNext
<1>3. /\ s \notin Queued(session) /\ Queued(r) = Queued(session) \cup {s}
      /\ \A t \in Queued(session) : r.mol[t] = session.mol[t]
      /\ r.mol[s].current = 1 /\ r.done = {}
      /\ r.active = session.active /\ r.pin = session.pin
  BY DEF Grows
<1>4. lower = {}
  <2>1. r.active # Null /\ ActiveOnes(r) = {r.pin} /\ ~Dangling(r)
    <3>1. r.active # Null
      BY DEF Preempts
    <3> QED BY <1>2, <3>1 DEF Dangling
  <2>2. ~(r.mol[r.pin].priority < r.mol[s].priority)
    BY <2>1 DEF Preempts
  <2> QED BY <1>1, <1>3, <2>1, <2>2
<1> HIDE DEF lower
<1> DEFINE gone == {t \in lower : n.atoms # <<>> /\ "discard" \in session.mol[t].mode}
<1>5. gone = {}
  BY <1>4
<1> HIDE DEF gone
<1>6. Reports(session, gone, {}, session')
  BY <1>3, <1>5 DEF Reports
<1>7. \A t \in Queued(session) : /\ Same(session.mol[t], session'.mol[t])
                                /\ Stays(session, session', t)
  BY <1>3 DEF Same, Stays
<1> QED
  BY <1>3, <1>5, <1>6, <1>7 DEF Added, gone, lower

LEMMA InterruptingAdds ==
    ASSUME Good(session), Good(session'), Faultless(session), Faultless(session'),
           NEW s, NEW r, Grows(r, s), TRUE \in Preempts(r, r.mol[s].priority),
           Kept(r, session'), Played(r, session', "interrupt"),
           Recounts(r, {}, session'),
           s \in Queued(session'), session'.mol[s].current = 1
    PROVE  Added(s)
<1> DEFINE n     == session'.mol[s]
           pin   == session.pin
           lower == {t \in NextUp(session) : session.mol[t].priority < n.priority}
           gone  == {t \in lower : n.atoms # <<>> /\ "discard" \in session.mol[t].mode}
<1>1. /\ NextUp(session) = (IF session.active = Null THEN {} ELSE {pin})
      /\ NextUp(session) \subseteq Queued(session) /\ Consistent(session)
  BY ActiveIsNext
<1>2. /\ s \notin Queued(session) /\ Queued(r) = Queued(session) \cup {s}
      /\ \A t \in Queued(session) : r.mol[t] = session.mol[t]
      /\ r.active = session.active /\ r.pin = pin
      /\ Consistent(r) /\ Apart(r) /\ Ready(r)
  BY DEF Grows, Callable
<1>3. Sound(r)
  BY ActiveIsNext DEF Kept
<1>4. n.priority = r.mol[s].priority /\ n.atoms = r.mol[s].atoms
  BY DEF Played, Same
<1>5. \A t \in Queued(session') :
         /\ t \in Queued(r) /\ Same(r.mol[t], session'.mol[t])
         /\ Stays(r, session', t) \/ (session.active # Null /\ t = pin /\ pin \in NextUp(r))
  BY <1>2 DEF Played
<1>6. \A t \in Queued(session') \cap Queued(session) :
         /\ Same(session.mol[t], session'.mol[t])
         /\ Stays(r, session', t) => Stays(session, session', t)
  BY <1>2, <1>5 DEF Stays
<1>7. Queued(r) \ Queued(session') = gone
      /\ \A t \in Queued(session) \ gone :
            Stays(session, session', t) \/ (n.atoms = <<>> /\ t \in lower)
  <2>1. CASE session.active = Null
    <3>1. Queued(r) \ Queued(session') = {}
      BY <1>2, <2>1 DEF Played
    <3>2. gone = {}
      BY <1>1, <2>1
    <3>3. \A t \in Queued(session) : Stays(session, session', t)
      BY <1>2, <1>5, <1>6, <2>1, <3>1
    <3> HIDE DEF gone, lower
    <3> QED BY <3>1, <3>2, <3>3
  <2>2. CASE session.active # Null
    <3>1. pin \in Queued(session) /\ NextUp(session) = {pin}
      BY <1>1, <2>2
    <3>2. ActiveOnes(r) = {pin} /\ ~Dangling(r) /\ r.active # Null
      BY <1>2, <1>3, <2>2, ActiveOfReady
    <3>3. r.mol[pin].priority < r.mol[s].priority
      BY <3>2 DEF Preempts
    <3>4. lower = {pin}
      BY <1>2, <1>4, <3>1, <3>3
    <3>5. /\ \A t \in Queued(r) \ Queued(session') : t = pin
          /\ IF pin \notin NextUp(r) THEN pin \in Queued(session') <=> "discard" \notin session.mol[pin].mode
             ELSE pin \in Queued(session')
      BY <1>2, <2>2, <3>1 DEF Played
    <3> HIDE DEF n, lower
    <3>6. CASE n.atoms # <<>>
      <4>1. pin \notin NextUp(r)
        <5> SUFFICES ASSUME pin \in NextUp(r) PROVE FALSE
          OBVIOUS
        <5>1. s \in Playable(r) /\ s # pin
          BY <1>2, <1>4, <3>1, <3>6 DEF Playable
        <5>2. Before(r, pin, s)
          BY <5>1 DEF NextUp
        <5>3. r.mol[pin].priority \in Int /\ r.mol[s].priority \in Int
          BY <1>2, <3>1, MoleculeType, PrioritiesAssumption DEF Molecule, Priorities
        <5> QED BY <3>3, <5>2, <5>3 DEF Before
      <4>2. gone = IF "discard" \in session.mol[pin].mode THEN {pin} ELSE {}
        BY <3>4, <3>6
      <4> HIDE DEF gone
      <4>3. Queued(r) \ Queued(session') = gone
        BY <1>2, <3>1, <3>5, <4>1, <4>2
      <4>4. \A t \in Queued(session) \ gone : Stays(session, session', t)
        BY <1>2, <1>5, <1>6, <4>1, <4>3
      <4> QED BY <4>3, <4>4
    <3>7. CASE n.atoms = <<>>
      <4>1. pin \in NextUp(r)
        <5>1. Playable(r) = Playable(session)
          BY <1>2, <1>4, <3>7 DEF Playable
        <5> QED BY <1>2, <3>1, <5>1 DEF NextUp, Before, Playable
      <4>2. gone = {}
        BY <3>7
      <4> HIDE DEF gone
      <4>3. Queued(r) \ Queued(session') = gone
        BY <3>5, <4>1, <4>2
      <4>4. \A t \in Queued(session) \ gone : Stays(session, session', t) \/ t \in lower
        BY <1>2, <1>5, <1>6, <3>4, <4>3
      <4> QED BY <3>7, <4>3, <4>4
    <3> QED BY <3>6, <3>7
  <2> QED BY <2>1, <2>2
<1>8. gone \subseteq Queued(session)
  BY <1>1
<1>9. ASSUME NEW t \in gone
       PROVE  DoneFor(r, t) = DoneFor(session, t)
  <2>1. t \in Queued(session) /\ session.mol[t].priority < n.priority
    BY <1>8
  <2>2. r.mol[t] = session.mol[t] /\ r.mol[s].priority # session.mol[t].priority
    <3>1. session.mol[t].priority \in Int
      BY <1>1, <2>1, MoleculeType, PrioritiesAssumption DEF Molecule, Priorities
    <3> HIDE DEF n
    <3> QED BY <1>2, <1>4, <2>1, <3>1
  <2>3. /\ Vector(r, r.mol[t].priority) = Vector(session, session.mol[t].priority)
        /\ \A u \in Vector(session, session.mol[t].priority) : r.mol[u].id = session.mol[u].id
    BY <1>2, <2>2 DEF Vector
  <2> QED BY <1>2, <2>1, <2>2, <2>3, SameDoneFor
<1> HIDE DEF gone
<1>10. Queued(session') = (Queued(session) \ gone) \cup {s}
  BY <1>2, <1>5, <1>7, <1>8
<1>11. Reports(session, gone, {}, session')
  BY <1>7, <1>9 DEF Recounts, Reports
<1> QED
  BY <1>2, <1>6, <1>7, <1>10, <1>11 DEF Added, gone

LEMMA EnqueuePlays ==
    ASSUME Good(session), Good(session'), Faultless(session), Faultless(session'),
           count' = count + 1, Enqueues(count + 1)
    PROVE  \E s \in DOMAIN Items(session') \ DOMAIN Items(session) : Abstract!Add(s)
<1> DEFINE s == count + 1
           n == session'.mol[s]
           item == Items(session')[s]
           lower == {t \in NextUp(session) : session.mol[t].priority < n.priority}
           gone  == {t \in lower : n.atoms # <<>> /\ "discard" \in session.mol[t].mode}
<1>0. count' = s
  OBVIOUS
<1>1. Sound(session') /\ Consistent(session') /\ Entire(session') /\ Consistent(session)
      /\ NextUp(session) \subseteq Queued(session)
  BY ActiveIsNext
<1>2. \E r : Grows(r, s) /\ Joins(r, s)
  BY <1>1 DEF Enqueues
<1> HIDE DEF s
<1>3. Added(s)
  BY <1>2, WaitingAdds, InterruptingAdds DEF Joins
<1>4. /\ s \in Queued(session') \ Queued(session)
      /\ n.current = 1
      /\ Queued(session') = (Queued(session) \ gone) \cup {s}
      /\ \A t \in Queued(session) \ gone :
            /\ Same(session.mol[t], session'.mol[t])
            /\ Stays(session, session', t) \/ (n.atoms = <<>> /\ t \in lower)
      /\ Reports(session, gone, {}, session')
  BY <1>3 DEF Added
<1>5. DOMAIN Items(session') = Queued(session') /\ DOMAIN Items(session) = Queued(session)
  BY DEF Items
<1>6. n \in Molecule /\ Len(n.atoms) \in Nat /\ (Len(n.atoms) > 0 <=> n.atoms # <<>>)
  BY <1>1, <1>4, MoleculeType, LengthOfAtoms
<1>7. /\ item.priority = n.priority /\ item.length = Len(n.atoms) /\ item.at = n.current
  BY <1>4, ItemFields
<1>8. item \in Abstract!Item
  <2>1. item = ItemOf(n)
    BY <1>4 DEF Items
  <2>2. Loops(n) \in {"no", "wraps", "seeks"}
    BY DEF Loops
  <2>3. ("discard" \in n.mode) \in BOOLEAN
    OBVIOUS
  <2> HIDE DEF n, item
  <2>4. n.priority \in Priorities /\ n.id \in MaybeIds /\ n.current \in Nat \ {0}
    BY <1>6 DEF Molecule
  <2> QED BY <1>6, <2>1, <2>2, <2>3, <2>4 DEF ItemOf, Abstract!Item
<1> DEFINE below == {t \in Abstract!Due(Items(session)) : Items(session)[t].priority < item.priority}
<1>9. below = lower
  <2>1. Abstract!Due(Items(session)) = NextUp(session)
    BY <1>1, DueIsNextUp
  <2> QED BY <1>1, <1>7, <2>1, ItemFields
<1>10. {t \in below : item.length > 0 /\ Items(session)[t].discards} = gone
  <2>1. \A t \in lower : Items(session)[t].discards = ("discard" \in session.mol[t].mode)
    BY <1>1, ItemFields
  <2> HIDE DEF below, lower, item, n
  <2> QED BY <1>6, <1>7, <1>9, <2>1
<1>11. gone \subseteq Queued(session) /\ lower \subseteq Queued(session)
  BY <1>1
<1>12. Abstract!Report(gone)
  <2> HIDE DEF gone
  <2> QED BY <1>4, <1>11, DoneReports
<1>13. ASSUME NEW t \in Queued(session) \ gone
       PROVE  \/ Abstract!Rests(t)
              \/ /\ item.length = 0 /\ t \in lower
                 /\ \E i \in Abstract!Parts(t) : Abstract!IsAt(t, i)
  <2>1. t \in Queued(session') /\ Same(session.mol[t], session'.mol[t])
    BY <1>4
  <2>2. CASE Stays(session, session', t)
    BY <1>1, <2>1, <2>2, StaysRests
  <2>3. CASE n.atoms = <<>> /\ t \in lower
    <3> DEFINE i == session'.mol[t].current
    <3>1. Abstract!IsAt(t, i)
      BY <2>1, SameIsAt
    <3>2. session'.mol[t].atoms = session.mol[t].atoms
      BY <2>1 DEF Same
    <3>3. t \in Playable(session')
      BY <2>1, <2>3, <3>2 DEF NextUp, Playable
    <3>4. i \in 1 .. Len(session.mol[t].atoms)
      <4>1. i \in Nat \ {0} /\ Len(session'.mol[t].atoms) \in Nat
        BY <1>1, <2>1, LengthOfAtoms
      <4> QED BY <1>1, <3>2, <3>3, <4>1 DEF Entire, EntireBut, IsActive
    <3>5. Abstract!Parts(t) = 1 .. Len(session.mol[t].atoms)
      BY ItemFields DEF Abstract!Parts
    <3>6. item.length = 0
      BY <1>6, <1>7, <2>3
    <3> HIDE DEF i, item
    <3> QED BY <2>3, <3>1, <3>4, <3>5, <3>6
  <2> QED BY <1>4, <2>2, <2>3
<1> HIDE DEF gone, lower, below, item, n
<1>14. Abstract!Add(s)
  BY <1>0, <1>4, <1>5, <1>7, <1>8, <1>9, <1>10, <1>12, <1>13 DEF Abstract!Add, s, below, item
<1> QED
  BY <1>4, <1>5, <1>14

\* The queue is in step, in the terms of the abstract player.
LEMMA InStepIsFaultless ==
    /\ (InStep /\ Without({"cut"})) <=> Faultless(session)
    /\ (InStep /\ Without({"cut"}))' <=> Faultless(session')
BY DEF InStep, Without, Faultless

LEMMA KeptFaultless ==
    ASSUME NEW q, NEW r, q.faults \subseteq r.faults, ~q.crashed, Faultless(r)
    PROVE  Faultless(q)
BY DEF Faultless

\* A queue that is in step after a step was so before.
LEMMA NextFaultless ==
    ASSUME QueueIsGood, Next, Faultless(session')
    PROVE  Faultless(session)
<1>1. Steady(session) /\ Good(session) /\ count \in 0 .. MaxMolecules /\ Numbered
  BY DEF QueueIsGood, QueueIsSteady, Good
<1>2. ~session.crashed
  <2>1. Running # {}
    BY Zenon DEF Next, Commands, Events, Enqueue, EnqueueUnchecked, DiscardRange, Discard, EndOfFile, DtmfBegin,
                 VoiceActivity, RecordTimer
  <2> QED BY <1>1, <2>1, RunningPrecedes DEF Steady
<1>3. session.faults \subseteq session'.faults
  <2>1. ASSUME NEW p \in Priorities, NEW shape \in Shapes, NEW id \in MaybeIds,
               Enqueue(p, shape, id)
        PROVE  session.faults \subseteq session'.faults
    BY <1>1, <2>1, EnqueueEnqueues DEF Enqueues
  <2>2. CASE EnqueueUnchecked
    BY <1>1, <2>2, EnqueueUncheckedSteady DEF Kept
  <2>3. ASSUME NEW from \in Accepted, NEW to \in Accepted, DiscardRange(from, to)
        PROVE  session.faults \subseteq session'.faults
    BY <1>1, <2>3, DiscardRangeSteady DEF Kept
  <2>4. ASSUME NEW id \in MaybeIds, Discard(id)
        PROVE  session.faults \subseteq session'.faults
    BY <1>1, <2>4, DiscardSteady DEF Kept
  <2>5. CASE Events
    BY <1>1, <2>5, EndOfFileSteady, DtmfBeginSteady, VoiceActivitySteady, RecordTimerSteady
       DEF Events, Kept
  <2> QED BY <2>1, <2>3, <2>4, <2>5, <2>2 DEF Next, Commands
<1> QED
  BY <1>2, <1>3, KeptFaultless

LEMMA InitIsPlayer ==
    ASSUME Init
    PROVE  Abstract!Init
<1>1. /\ session.mol = [s \in {} |-> s] /\ session.active = Null /\ session.done = {}
      /\ session.faults = {} /\ session.crashed = FALSE /\ count = 0
      /\ session.source = {} /\ session.player = {}
  BY DEF Init
<1>2. Queued(session) = {}
  BY <1>1 DEF Queued
<1>3. Items(session) = [s \in {} |-> s]
  BY <1>2 DEF Items
<1>4. Audible(session) = {}
  <2>1. ActiveOnes(session) = {}
    BY <1>2 DEF ActiveOnes, Target
  <2> QED BY <2>1 DEF Audible
<1>5. Told(session) = {}
  BY <1>1 DEF Told
<1>6. (InStep /\ Without({"cut"})) = TRUE
  BY <1>1 DEF InStep, Without
<1> QED
  BY <1>1, <1>3, <1>4, <1>5, <1>6 DEF Abstract!Init

LEMMA NextPlays ==
    ASSUME QueueIsGood, QueueIsGood', Next, Faultless(session), Faultless(session')
    PROVE  Abstract!Plays
<1>1. Good(session) /\ Good(session') /\ count \in 0 .. MaxMolecules /\ Numbered
  BY DEF QueueIsGood, QueueIsSteady
<1>2. ASSUME NEW p \in Priorities, NEW shape \in Shapes, NEW id \in MaybeIds,
             Enqueue(p, shape, id)
      PROVE  Abstract!Plays
  <2>1. count' = count + 1 /\ Enqueues(count + 1)
    BY <1>1, <1>2, EnqueueEnqueues DEF Enqueue
  <2> QED BY <1>1, <2>1, EnqueuePlays DEF Abstract!Plays
<1>3. CASE EnqueueUnchecked
  <2>1. ~Sound(session')
    BY <1>1, <1>3, EnqueueUncheckedIsGood
  <2> QED BY <2>1 DEF Faultless, Sound
<1>4. ASSUME NEW from \in Accepted, NEW to \in Accepted, DiscardRange(from, to)
      PROVE  Abstract!Plays
  BY <1>1, <1>4, RangePlays DEF Abstract!Plays
<1>5. ASSUME NEW id \in MaybeIds, Discard(id)
      PROVE  Abstract!Plays
  BY <1>1, <1>5, RemovePlays DEF Abstract!Plays
<1>6. CASE Events
  <2>1. count' = count
    BY <1>6 DEF Events, EndOfFile, DtmfBegin, VoiceActivity, RecordTimer
  <2> QED BY <1>1, <1>6, <2>1, EventOccurs, EventPlays
<1> QED
  BY <1>2, <1>4, <1>5, <1>6, <1>3 DEF Next, Commands

LEMMA StepIsPlayers ==
    ASSUME QueueIsGood, QueueIsGood', [Next]_vars
    PROVE  [Abstract!Next]_(Abstract!vars)
<1>1. CASE UNCHANGED vars
  BY <1>1 DEF vars, Abstract!vars, Items, Audible, Told, InStep, Without
<1>2. CASE Next
  <2> SUFFICES ASSUME Faultless(session')
               PROVE  /\ InStep /\ Without({"cut"})
                      /\ Audible(session') =
                            {<<s, Items(session')[s].at>> : s \in Abstract!Due(Items(session'))}
                      /\ Abstract!Plays
    BY InStepIsFaultless DEF Abstract!Next
  <2>1. Faultless(session)
    BY <1>2, NextFaultless
  <2>2. Good(session')
    BY DEF QueueIsGood
  <2> QED
    BY <1>2, <2>1, <2>2, InStepIsFaultless, HeardIsDue, NextPlays
<1> QED
  BY <1>1, <1>2

\* For as long as it is in step, and whatever the vectors, pointers, files and
\* timers behind it do, the queue does nothing but what the abstract player
\* does: what is heard, who gives way, who leaves, where the others resume and
\* for whose end which token is sent, that of the molecule that took its place.
THEOREM QueueStaysPlayer == Spec => QueueIsPlayer
<1>1. Init => Abstract!Init
  BY InitIsPlayer
<1>2. QueueIsGood /\ QueueIsGood' /\ [Next]_vars => [Abstract!Next]_(Abstract!vars)
  BY StepIsPlayers
<1> QED
  BY <1>1, <1>2, QueueStaysGood, PTL DEF Spec, QueueIsPlayer, Abstract!Spec
=============================================================================
