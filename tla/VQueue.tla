------------------------------- MODULE VQueue -------------------------------
(***************************************************************************)
(* The priority queue of audio molecules that every call of baresip-villa  *)
(* owns: struct VQueue, Molecule, Play and Record of src/src/villa.h and   *)
(* src/src/villa.cpp, with the commands and events that drive them.        *)
(*                                                                         *)
(* A molecule is a list of atoms (files to play, files to record into).    *)
(* Molecules of one priority wait in a std::vector; the first molecule     *)
(* with atoms of the highest priority is the one to be heard.  The queue   *)
(* remembers it in `_active', a raw pointer into one of these vectors.     *)
(*                                                                         *)
(* The code runs in baresip's main loop, so every command and every event  *)
(* is one step.  A molecule is named by its serial, the number of the      *)
(* enqueue command that made it; the vector of a priority is the queued    *)
(* molecules of this priority in the order of their serials.  Addresses    *)
(* are kept as (buffer, slot), because vectors move when they grow and     *)
(* their elements move when an earlier one is erased.                      *)
(*                                                                         *)
(* Left out: file names and playing times.  Where the code computes an     *)
(* atom from the clock, every atom the arithmetic can reach is an outcome. *)
(***************************************************************************)
EXTENDS Integers, SequencesExt

CONSTANTS
    MaxPriority,    \* max_priority of villa.h
    Ids,            \* the molecule ids a client uses
    NoId,           \* the empty id of a molecule enqueued without one
    Shapes,         \* what a client enqueues: records [mode, kinds]
    Buffers,        \* heap blocks that hold the elements of a vector
    NoBuffer,       \* the data() of a vector that never held anything
    MaxMolecules,   \* BOUND: number of enqueue commands
    StartCanFail,   \* whether files may be missing or empty and devices fail
    Unchecked       \* whether clients send what the commands fail to refuse

Priorities == 0 .. MaxPriority
Serials    == 1 .. MaxMolecules
Modes      == {"discard", "pause", "mute", "restart", "loop"}
Timers     == {"silence", "length"}
Faults     == {"stale", "start", "file", "empty", "wild", "masked", "cut"}
MaybeIds   == Ids \cup {NoId}

\* The bounds of a range that the commands accept: only max_priority is
\* checked, so that -1 stands for every negative number.
Accepted == Priorities \cup {n \in {-1} : Unchecked}

\* What an atom is: its type, and for a Record whether it has a maximal
\* silence, a maximal length, and whether a DTMF key stops it.
Kind == [type : {"play", "record"},
         silence : BOOLEAN, length : BOOLEAN, dtmf : BOOLEAN]

Atom == [molecule : Serials, index : Nat \ {0}, kind : Kind]

\* `current' counts from 1; `started' and `stopped' tell whether
\* _time_started and _time_stopped were ever set.
Molecule == [priority : Priorities, mode : SUBSET Modes, id : MaybeIds,
             atoms : Seq(Atom), current : Nat \ {0},
             started : BOOLEAN, stopped : BOOLEAN]

Pointer == [buffer : Buffers \cup {NoBuffer}, slot : Nat]
Null    == [buffer |-> NoBuffer, slot |-> 0]

ASSUME PrioritiesAssumption == MaxPriority \in Nat
ASSUME BoundsAssumption     == /\ MaxMolecules \in Nat
                               /\ StartCanFail \in BOOLEAN /\ Unchecked \in BOOLEAN
ASSUME IdsAssumption        == NoId \notin Ids
ASSUME BuffersAssumption    == NoBuffer \notin Buffers
ASSUME ShapesAssumption     ==
    \A shape \in Shapes : /\ shape.mode \in SUBSET Modes
                          /\ shape.kinds \in Seq(Kind)

VARIABLES
    session,    \* the Session object, see Session below
    count       \* number of enqueue commands so far

vars == <<session, count>>

(***************************************************************************)
(* mol      the queued molecules, by serial                                *)
(* buffer, capacity   of the vector of each priority                       *)
(* active   VQueue::_active                                                *)
(* open     the atoms whose _audio is not null                             *)
(* source, player   the atom baresip plays from and records into, if any   *)
(* timers   the armed timers of Records                                    *)
(* vad      Session::_vad, voice activity                                  *)
(* crashed  the process divided by zero or used memory it does not own     *)
(* and, for the properties only:                                           *)
(* pin      the serial of the molecule _active was last set to, 0 for null *)
(* done     the calls of molecule_done in the last step: the id of the     *)
(*          molecule that was finished and the token that was reported     *)
(* faults   which of the events that put the queue out of step occurred:   *)
(*          "stale"   _active does not point to its molecule any more      *)
(*          "start"   an atom could not be started                         *)
(*          "file"    the length of a file that cannot be opened was used  *)
(*          "empty"   a position was taken modulo a length of 0            *)
(*          "wild"    a parameter that nobody checks was used              *)
(*          "masked"  the active molecule was discarded and the command    *)
(*                    found an inactive one of the same id after it        *)
(*          "cut"     the player was taken from a Record by another's stop *)
(***************************************************************************)
Session(S) ==
           [mol : [S -> Molecule],
            buffer : [Priorities -> Buffers \cup {NoBuffer}],
            capacity : [Priorities -> Nat],
            active : Pointer,
            open : SUBSET Atom, source : SUBSET Atom, player : SUBSET Atom,
            timers : SUBSET [atom : Atom, timer : Timers],
            vad : BOOLEAN, crashed : BOOLEAN,
            pin : Serials \cup {0},
            done : SUBSET [id : MaybeIds, token : MaybeIds],
            faults : SUBSET Faults]

-----------------------------------------------------------------------------
(* Molecules: villa.cpp, Molecule::set_position and the head of schedule.  *)

IsActive(m)    == m.current <= Len(m.atoms)
CurrentAtom(m) == m.atoms[m.current]
Sounds(m)      == {i \in DOMAIN m.atoms : m.atoms[i].kind.type = "play"}

\* The atoms set_position can select: a Record has length 0, so that only
\* the first atom or one that plays is ever reached.
Seekable(m) == {1} \cup Sounds(m)

\* The molecule is due and loops: schedule sets its position.
Looped(m) == /\ "loop" \in m.mode
             /\ \/ "restart" \in m.mode /\ ~IsActive(m)
                \/ {"mute", "pause"} \cap m.mode # {}

\* The position is computed modulo the length of the molecule.
Measured(m) == /\ Looped(m)
               /\ ~("restart" \in m.mode /\ ~IsActive(m))
               /\ IF "mute" \in m.mode THEN m.started
                                       ELSE IsActive(m) /\ m.stopped

\* The length is 0 if there is nothing to play, and if all that there is to
\* play is empty, for which see Misread.
DividesByZero(m) == Measured(m) /\ Sounds(m) = {}

\* The files whose lengths add up to the divisor.
Divisor(m) == {i \in Sounds(m) : Measured(m)}

\* The files whose lengths the code asks for to set this position.
LengthsRead(m) == {i \in Sounds(m) :
    Looped(m) /\ (Measured(m) \/ i = 1 \/ ("mute" \in m.mode /\ ~("restart" \in m.mode /\ ~IsActive(m))))}

\* Mutant of Positions: resuming after the atom that was interrupted.
PositionsAfterStop(m) == IF Measured(m) THEN Seekable(m)
                         ELSE IF Looped(m) THEN {1}
                         ELSE IF m.stopped /\ m.current < Len(m.atoms)
                         THEN {m.current + 1} ELSE {m.current}

\* Mutant of Spent: nothing is left from the last atom on.
SpentEarly(m) == m.current >= Len(m.atoms) /\ (Looped(m) => m.atoms = <<>>)

\* Where a molecule that is due goes on; one that is spent has no atom left
\* to start and leaves the queue.
Positions(m) == IF Measured(m) THEN Seekable(m)
                ELSE IF Looped(m) THEN {1} ELSE {m.current}
Spent(m)     == ~IsActive(m) /\ (Looped(m) => m.atoms = <<>>)

-----------------------------------------------------------------------------
(* Vectors and addresses.                                                  *)

Queued(q)    == DOMAIN q.mol
Vector(q, p) == {s \in Queued(q) : q.mol[s].priority = p}

Slot(q, s)      == Cardinality({t \in Vector(q, q.mol[s].priority) : t <= s})
Address(q, s)   == [buffer |-> q.buffer[q.mol[s].priority], slot |-> Slot(q, s)]
Target(q, ptr)  == {s \in Queued(q) : Address(q, s) = ptr}
ActiveOnes(q)   == Target(q, q.active)
Dangling(q)     == q.active # Null /\ ActiveOnes(q) = {}

Playable(q) == {s \in Queued(q) : q.mol[s].atoms # <<>>}

\* s is visited before t by the loops of VQueue::next.
Before(q, s, t) == \/ q.mol[s].priority > q.mol[t].priority
                   \/ q.mol[s].priority = q.mol[t].priority /\ s < t

\* Mutant of NextUp: the last molecule of the highest priority.
NextUpLast(q) ==
    {s \in Playable(q) : \A t \in Playable(q) \ {s} :
        \/ q.mol[s].priority > q.mol[t].priority
        \/ q.mol[s].priority = q.mol[t].priority /\ s > t}

\* The molecule VQueue::next returns, {} for end().
NextUp(q) == {s \in Playable(q) : \A t \in Playable(q) \ {s} : Before(q, s, t)}

\* The ids the slot of s can hold after s was erased: the id of its successor,
\* which the erasure moved there, else what is left in the destroyed slot, a
\* short id or, if the id was on the heap, nobody's.
SlotIds(q, s) ==
    LET later == {t \in Vector(q, q.mol[s].priority) : t > s}
    IN  IF later = {} THEN {q.mol[s].id, NoId}
        ELSE {q.mol[t].id : t \in {u \in later : \A v \in later : u <= v}}

Note(q, fault, if) == [q EXCEPT !.faults = IF if THEN @ \cup {fault} ELSE @]

\* Notes whether _active has come to point elsewhere than to its molecule.
Checked(q) == Note(q, "stale", q.active # Null /\ q.pin \notin ActiveOnes(q))

Put(q, s, m) == [q EXCEPT !.mol[s] = m]

Undefined(q) == [q EXCEPT !.crashed = TRUE]

\* A parameter that was not checked: a negative priority indexes in front of
\* the vectors, an atom without a type makes a string of a null pointer.
Wild(q) == Note(Undefined(q), "wild", TRUE)

\* Play::length of the files A.  Errors of aufile_open are positive, but
\* only negative ones are handled: a handle that was never set is used.  The
\* lengths of the files E are added up and divided by, and all may be empty.
Misread(q, A, E) ==
    {Note(Undefined(q), "file", TRUE) : i \in {j \in A : StartCanFail}} \cup
    {Note(Undefined(q), "empty", TRUE) : i \in {j \in E : StartCanFail}}

Touch(q) == [q EXCEPT !.mol =
    [s \in Queued(q) |-> IF s \in ActiveOnes(q)
                         THEN [q.mol[s] EXCEPT !.stopped = TRUE]
                         ELSE q.mol[s]]]

-----------------------------------------------------------------------------
(* Atoms: Play::start, Play::stop, Record::start, Record::stop.            *)

TimersOf(a, vad) ==
    {t \in [atom : {a}, timer : Timers] :
        \/ t.timer = "length"  /\ a.kind.length
        \/ t.timer = "silence" /\ a.kind.silence /\ ~vad}

\* Mutant of StartAtom: an atom that was started before is left as it is.
StartAtomOnce(q, a) ==
    IF a \in q.open THEN q
    ELSE IF a.kind.type = "play"
    THEN [q EXCEPT !.open = @ \cup {a}, !.source = {a}]
    ELSE [q EXCEPT !.open = @ \cup {a}, !.player = {a},
                   !.timers = @ \cup TimersOf(a, q.vad)]

StartAtom(q, a) ==
    IF a.kind.type = "play"
    THEN [q EXCEPT !.open = @ \cup {a}, !.source = {a}]
    ELSE [q EXCEPT !.open = @ \cup {a}, !.player = {a},
                   !.timers = @ \cup TimersOf(a, q.vad)]

\* audio_set_source and audio_set_player drop the old source or player
\* before they open the new one.
FailAtom(q, a) ==
    IF a.kind.type = "play"
    THEN [q EXCEPT !.open = @ \ {a}, !.source = {}]
    ELSE [q EXCEPT !.open = @ \ {a}, !.player = {}]

\* Mutant of StopRecords: the timer of the silence goes on.
StopRecordsKeepSilence(q, A) ==
    LET stopped == {a \in A \cap q.open : a.kind.type = "record"}
    IN  [q EXCEPT !.open = @ \ stopped,
                  !.timers = {t \in @ : t.timer = "silence" \/ t.atom \notin stopped},
                  !.player = IF stopped = {} THEN @ ELSE {}]

\* Record::stop of the atoms A, those which were started.
StopRecords(q, A) ==
    LET stopped == {a \in A \cap q.open : a.kind.type = "record"}
    IN  Note([q EXCEPT !.open = @ \ stopped,
                       !.timers = {t \in @ : t.atom \notin stopped},
                       !.player = IF stopped = {} THEN @ ELSE {}],
             "cut", stopped # {} /\ q.player \ stopped # {})

StopPlay(q, a) ==
    IF a \in q.open THEN [q EXCEPT !.open = @ \ {a}, !.source = {}] ELSE q

StopAtom(q, a) ==
    IF a.kind.type = "play" THEN StopPlay(q, a) ELSE StopRecords(q, {a})

\* Mutant of Destroy: Record has no destructor.
DestroySilently(q, D) ==
    [q EXCEPT !.mol = Restrict(@, Queued(q) \ D),
              !.open = {a \in @ : a.molecule \notin D}]

\* Erases the molecules D: ~Record stops the recording, ~Play does nothing.
Destroy(q, D) ==
    LET r == StopRecords(q, {a \in q.open : a.molecule \in D})
    IN  [r EXCEPT !.mol = Restrict(@, Queued(q) \ D),
                  !.open = {a \in @ : a.molecule \notin D}]

-----------------------------------------------------------------------------
(* VQueue::schedule.  Each operator yields the set of possible outcomes.   *)

\* Mutant of Idle: _active is not set to null.
IdleKeepsActive(q) == [q EXCEPT !.pin = 0]

Idle(q) == [q EXCEPT !.active = Null, !.pin = 0]

\* The molecules D leave, and molecule_done is called with the slot each
\* one had.
Finish(q, D) ==
    {[Idle(Destroy(q, D)) EXCEPT
        !.done = @ \cup {[id |-> q.mol[s].id, token |-> f[s]] : s \in D}] :
     f \in {g \in [D -> MaybeIds] : \A s \in D : g[s] \in SlotIds(q, s)}}

\* Mutant of Failure: _current is moved back.
FailureBacksUp(q, s) ==
    LET m == q.mol[s]
        n == [m EXCEPT !.atoms = RemoveAt(@, m.current), !.current = @ - 1]
    IN  Note(Put(FailAtom(q, CurrentAtom(m)), s, n), "start", TRUE)

\* A failing atom is erased and _current moved on all the same.
Failure(q, s) ==
    LET m == q.mol[s]
        n == [m EXCEPT !.atoms = RemoveAt(@, m.current), !.current = @ + 1]
    IN  Note(Put(FailAtom(q, CurrentAtom(m)), s, n), "start", TRUE)

Success(q, s) ==
    LET m == q.mol[s]
        n == [m EXCEPT !.started = @ \/ m.current = 1]
    IN  [Put(StartAtom(q, CurrentAtom(m)), s, n) EXCEPT
            !.active = Address(q, s), !.pin = s]

Begin(q, s) ==
    IF DividesByZero(q.mol[s]) THEN {Undefined(q)}
    ELSE LET at == {Put(q, s, [q.mol[s] EXCEPT !.current = i]) : i \in Positions(q.mol[s])}
         IN  {Success(r, s) : r \in at} \cup
             {Failure(r, s) : r \in {x \in at : StartCanFail}} \cup
             Misread(q, LengthsRead(q.mol[s]), Divisor(q.mol[s]))

\* Mutant of Proceed: schedule does not call itself.
ProceedNot(q) == {q}

\* The recursive call: _active is null, the spent molecules at the head of
\* the schedule leave one after the other, then the next one starts.
Proceed(q) ==
    LET D == {s \in Playable(q) :
                \A t \in Playable(q) : t = s \/ Before(q, t, s) => Spent(q.mol[t])}
    IN  UNION {IF NextUp(r) = {} THEN {r} ELSE UNION {Begin(r, s) : s \in NextUp(r)} :
               r \in Finish(q, D)}

\* From line 391 on, with `current' pointing to the molecule s.
Settle(q, s) ==
    IF DividesByZero(q.mol[s]) \/ ~Spent(q.mol[s]) THEN Begin(q, s)
    ELSE UNION {Proceed(r) : r \in Finish(q, {s})}

\* Mutant of Leave: m_discard is not asked for.
LeaveDiscards(q, c, reason) ==
    IF q.active = Null \/ Dangling(q) THEN {q}
    ELSE IF c \notin ActiveOnes(q) THEN Finish(q, ActiveOnes(q))
    ELSE {[q EXCEPT !.mol[c].current = IF reason = "eof" THEN @ + 1 ELSE @]}

\* The block `if (_active)', where c is the molecule that is due.
Leave(q, c, reason) ==
    LET m == q.mol[c]
        discarded == {s \in ActiveOnes(q) \ {c} : "discard" \in q.mol[s].mode}
    IN  IF q.active = Null THEN {q}
        ELSE IF Dangling(q)
        THEN {q, Undefined(q),
              [Idle(q) EXCEPT !.done = @ \cup {[id |-> NoId, token |-> NoId]}]}
        ELSE IF discarded # {} THEN Finish(q, discarded)
        ELSE IF c \notin ActiveOnes(q) THEN {q}
        ELSE IF reason = "eof"
        THEN {Put(q, c, [m EXCEPT !.current = @ + 1,
                                  !.stopped = @ \/ m.current + 1 > Len(m.atoms)])}
        ELSE {Put(q, c, [m EXCEPT !.current = i, !.stopped = TRUE]) :
              i \in Seekable(m) \cup {m.current}} \cup Misread(q, Sounds(m), {})

Schedule(q, reason) ==
    IF NextUp(q) = {} THEN {Idle(q)}
    ELSE UNION {UNION {
            LET here == Target(r, Address(q, c))    \* `current' is an iterator
            IN  IF r.crashed \/ here = {} THEN {Undefined(r)}
                ELSE UNION {Settle(r, s) : s \in here} :
         r \in Leave(q, c, reason)} : c \in NextUp(q)}

-----------------------------------------------------------------------------
(* The commands of a client.                                               *)

\* push_back, which moves a full vector to a free block twice its size.
Push(q, p, shape, id, s) ==
    LET n == Cardinality(Vector(q, p))
        m == [priority |-> p, mode |-> shape.mode, id |-> id,
              atoms |-> [i \in DOMAIN shape.kinds |->
                            [molecule |-> s, index |-> i, kind |-> shape.kinds[i]]],
              current |-> 1, started |-> FALSE, stopped |-> FALSE]
        r == [q EXCEPT !.mol = [t \in Queued(q) \cup {s} |->
                                    IF t = s THEN m ELSE q.mol[t]]]
    IN  IF n < q.capacity[p] THEN {r}
        ELSE {Checked([r EXCEPT !.buffer[p] = b,
                                !.capacity[p] = IF n = 0 THEN 1 ELSE 2 * n]) :
              b \in Buffers \ {q.buffer[x] : x \in Priorities}}

\* Mutant of Preempts: the comparison is the wrong way round.
PreemptsLower(q, p) ==
    IF q.active = Null THEN {TRUE} ELSE {q.mol[s].priority > p : s \in ActiveOnes(q)}

\* Whether a new molecule of priority p is scheduled at once; the priority
\* read through a dangling _active can be anything.
Preempts(q, p) ==
    IF q.active = Null THEN {TRUE}
    ELSE IF Dangling(q) THEN BOOLEAN
    ELSE {q.mol[s].priority < p : s \in ActiveOnes(q)}

\* What a step of the running process starts from.
Running == {q \in {[session EXCEPT !.done = {}]} : ~q.crashed}

\* The command enqueue, with a priority that exists and atoms that have a type.
Enqueue(p, shape, id) ==
    /\ count < MaxMolecules
    /\ count' = count + 1
    /\ \E q \in Running : \E r \in Push(q, p, shape, id, count + 1) :
          \E now \in Preempts(r, p) :
             IF now THEN session' \in Schedule(Touch(r), "interrupt")
                    ELSE session' = r

\* The other enqueue commands it does not refuse: only a priority that is too
\* large is, and odict_string yields a null pointer for a type that is missing.
EnqueueUnchecked ==
    /\ Unchecked
    /\ UNCHANGED count
    /\ \E q \in Running : session' = Wild(q)

\* Stops the active molecule, clears the priorities from .. to - 1.
DiscardRange(from, to) ==
    /\ UNCHANGED count
    /\ \E q \in Running :
          LET live == {s \in ActiveOnes(q) : IsActive(q.mol[s])}
              quiet == IF live = {} THEN q
                       ELSE StopAtom(q, CurrentAtom(q.mol[CHOOSE s \in live : TRUE]))
              r == Destroy(Idle(quiet),
                           {s \in Queued(q) : q.mol[s].priority \in from .. (to - 1)})
          IN  IF from < 0 /\ from < to THEN session' = Wild(q)
              ELSE \/ session' \in Schedule(r, "interrupt")
                   \/ Dangling(q) /\ session' = Undefined(q)

\* Erases the first molecule named id of every priority.  The result is the
\* one for the highest of these priorities, whatever happened before it.
Discard(id) ==
    /\ UNCHANGED count
    /\ \E q \in Running :
          LET named == {s \in Queued(q) : q.mol[s].id = id}
              D == {s \in named : \A t \in named :
                        q.mol[s].priority = q.mol[t].priority => s <= t}
              hit == D \cap ActiveOnes(q)
              result == {s \in D : \A t \in D : q.mol[s].priority >= q.mol[t].priority}
              rest == D \ hit
          IN  /\ D # {}
              /\ \E r \in IF hit = {} THEN {q} ELSE Finish(q, hit) :
                    LET gone == Checked(Destroy(r, rest))
                    IN  IF result \cap hit # {}
                        THEN session' \in Schedule(gone, "interrupt")
                        ELSE session' = Note(gone, "masked", hit # {})

-----------------------------------------------------------------------------
(* The events of a call.                                                   *)

\* UA_EVENT_END_OF_FILE: the file baresip plays has ended.
EndOfFile ==
    /\ UNCHANGED count
    /\ \E q \in Running :
          /\ q.source # {}
          /\ LET r == [q EXCEPT !.source = {}]
             IN  IF r.active = Null THEN session' = r
                 ELSE session' \in Schedule(Touch(r), "eof")

\* The Record the active molecule is at, if it is at one.
ActiveRecords(q) ==
    {CurrentAtom(q.mol[s]) : s \in {t \in ActiveOnes(q) : IsActive(q.mol[t])}}
        \cap [molecule : Serials, index : Nat \ {0}, kind : {k \in Kind : k.type = "record"}]

\* Session::dtmf and Record::event_dtmf at the begin of a key.
DtmfBegin ==
    /\ UNCHANGED count
    /\ \E q \in Running :
          \/ \E a \in ActiveRecords(q) :
                a.kind.dtmf /\ session' \in Schedule(StopRecords(q, {a}), "eof")
          \/ Dangling(q) /\ session' = Undefined(q)

\* UA_EVENT_MODULE from fvad, and Record::event_vad.
VoiceActivity(on) ==
    /\ UNCHANGED count
    /\ \E q \in Running :
          LET timers == {[atom |-> a, timer |-> "silence"] :
                            a \in {b \in ActiveRecords(q) : b.kind.silence}}
          IN  \/ session' = [q EXCEPT !.vad = on,
                                !.timers = IF on THEN @ \ timers ELSE @ \cup timers]
              \/ Dangling(q) /\ session' = Undefined(q)

\* Mutant of RecordTimer: the recording is stopped and nothing scheduled.
RecordTimerStops(t) ==
    /\ UNCHANGED count
    /\ \E q \in Running :
          /\ t \in q.timers
          /\ session' = StopRecords([q EXCEPT !.timers = @ \ {t}], {t.atom})

\* record_timer.  The timer of a Record that was destroyed fires all the
\* same, on memory that was freed.
RecordTimer(t) ==
    /\ UNCHANGED count
    /\ \E q \in Running :
          /\ t \in q.timers
          /\ LET a == t.atom
                 r == [q EXCEPT !.timers = @ \ {t}]
                 alive == /\ a.molecule \in Queued(q)
                          /\ a \in Range(q.mol[a.molecule].atoms)
             IN  \/ session' \in Schedule(StopRecords(r, {a}), "eof")
                 \/ ~alive /\ session' \in {r, Undefined(r)}

-----------------------------------------------------------------------------
\* A new Session; _vad is not initialised.
Init ==
    /\ count = 0
    /\ session \in [mol : {[s \in {} |-> s]},
                    buffer : {[p \in Priorities |-> NoBuffer]},
                    capacity : {[p \in Priorities |-> 0]},
                    active : {Null}, open : {{}}, source : {{}}, player : {{}},
                    timers : {{}}, vad : BOOLEAN, crashed : {FALSE},
                    pin : {0}, done : {{}}, faults : {{}}]

Commands ==
    \/ \E p \in Priorities, shape \in Shapes, id \in MaybeIds : Enqueue(p, shape, id)
    \/ EnqueueUnchecked
    \/ \E from, to \in Accepted : DiscardRange(from, to)
    \/ \E id \in MaybeIds : Discard(id)

Events ==
    \/ EndOfFile
    \/ DtmfBegin
    \/ \E on \in BOOLEAN : VoiceActivity(on)
    \/ \E t \in session.timers : RecordTimer(t)

Next == Commands \/ Events

Spec == Init /\ [][Next]_vars

-----------------------------------------------------------------------------
(* Properties.                                                             *)

\* Every variable has its type.
IsSession(q) == Queued(q) \subseteq Serials /\ q \in Session(Queued(q))

TypeOK == IsSession(session) /\ count \in 0 .. MaxMolecules

Without(faults) == session.faults \cap faults = {} /\ ~session.crashed
InStep          == Without({"stale", "start", "masked"})

\* As long as nothing put the queue out of step, _active is the earliest
\* molecule with atoms of the highest priority that has one, and it is null
\* only when no molecule has any: VQueue::next after every command and event.
ActiveIsDue ==
    InStep =>
        IF session.active = Null THEN Playable(session) = {}
        ELSE /\ session.pin \in ActiveOnes(session) \cap Playable(session)
             /\ \A s \in Playable(session) \ {session.pin} :
                   LET other == session.mol[s].priority
                       own   == session.mol[session.pin].priority
                   IN  other < own \/ (other = own /\ session.pin < s)

\* What baresip plays or records into is the current atom of the active
\* molecule, unless another Record's stop took the player away.
ActiveIsHeard ==
    InStep /\ Without({"cut"}) =>
        \A s \in ActiveOnes(session) :
            LET m == session.mol[s]
            IN  /\ IsActive(m)
                /\ CurrentAtom(m) \in session.open
                /\ {CurrentAtom(m)} \in {session.source, session.player}

\* Molecules of one priority start in the order they were enqueued.
StartsInOrder ==
    InStep =>
        \A s, t \in Playable(session) :
            s < t /\ session.mol[s].priority = session.mol[t].priority
                => ~session.mol[t].started

\* baresip never records for a molecule that has left the queue, nor for a
\* Record that believes it is stopped (~Record, Record::stop).
RecorderIsOwned ==
    \A a \in session.player : a \in session.open /\ a.molecule \in Queued(session)

\* No timer outlives its Record, on whose freed memory it would fire.
TimersAreOwned ==
    Without({"stale", "start"}) => \A t \in session.timers :
        t.atom \in session.open /\ t.atom.molecule \in Queued(session)

\* The process survives unless _active went stale, an atom could not be
\* started, the length of a missing file was asked for, all the files of a
\* looping molecule are empty or it has none, or a client sent a parameter
\* that the command does not check.
CrashNeedsFault ==
    session.crashed => \/ session.faults \cap {"stale", "start", "file", "empty", "wild"} # {}
                       \/ \E s \in Queued(session) : /\ "loop" \in session.mol[s].mode
                                                    /\ Sounds(session.mol[s]) = {}

\* A molecule leaves the queue only at its last atom, or interrupted by one
\* of a higher priority if its mode is m_discard, and molecule_done is called
\* for it; or a command discards what it names.
Ends(s) ==
    /\ s = session.pin
    /\ \E d \in session'.done : d.id = session.mol[s].id
    /\ LET m == session.mol[s]
       IN  \/ m.current = Len(m.atoms) /\ ("loop" \in m.mode => m.mode \cap {"restart", "mute", "pause"} = {})
           \/ "discard" \in m.mode /\ \E t \in Queued(session)' :
                                         session'.mol[t].priority > m.priority

LeavesOnlyWhenDone ==
    [][InStep' => \A s \in Queued(session) \ Queued(session') :
            \/ Ends(s)
            \/ \E from, to \in Accepted : /\ DiscardRange(from, to)
                                          /\ session.mol[s].priority \in from .. (to - 1)
            \/ \E id \in MaybeIds : Discard(id) /\ session.mol[s].id = id]_vars

\* The atom a, at which the active molecule is, ends: its file does, a key
\* stops the Record, or its own timer fires.
OwnEnd(a) ==
    \/ EndOfFile /\ session.source = {a}
    \/ DtmfBegin /\ a.kind.type = "record" /\ a.kind.dtmf
    \/ \E t \in session.timers : t.atom = a /\ RecordTimer(t)

\* An end of something else that the queue takes for the end of a: of a file
\* nobody stopped, which plays on while a records, or of a Record that was
\* interrupted and whose timers run on.
StrayEnd(a) ==
    \/ EndOfFile /\ a.kind.type = "record"
    \/ \E t \in session.timers : t.atom # a /\ RecordTimer(t)

\* The atoms of a molecule that does not loop are heard one after the other:
\* it moves on by one atom, and no molecule leaves by itself, but when it is
\* the active one and its current atom ends or a stray end hits it; never by
\* being interrupted and resumed, and a file is never cut short by the end of
\* another.  Enqueueing a molecule without atoms of a higher priority is the
\* exception: it sets the active one to a position computed from the clock.
AtomsInOrder ==
    [][InStep' => \A s \in Queued(session) :
            LET m == session.mol[s]
                n == session'.mol[s]
                a == CurrentAtom(m)
                ended == s = session.pin /\ (OwnEnd(a) \/ StrayEnd(a))
            IN  IF s \notin Queued(session') THEN Commands \/ ended
                ELSE \/ "loop" \in m.mode
                     \/ n.current = m.current
                     \/ n.current = m.current + 1 /\ ended
                     \/ \E t \in Queued(session') \ Queued(session) :
                            session'.mol[t].atoms = <<>>
      ]_vars

\* The inductive invariant behind the theorems of VQueueProofs: an atom knows
\* its molecule, only atoms of queued molecules are open, and what baresip
\* records into is an open Record.
Consistent(q) ==
    /\ IsSession(q)
    /\ \A s \in Queued(q) : \A i \in DOMAIN q.mol[s].atoms : q.mol[s].atoms[i].molecule = s
    /\ \A a \in q.open : a.molecule \in Queued(q)
    /\ \A a \in q.player : a \in q.open /\ a.kind.type = "record"

SessionIsConsistent == Consistent(session)

-----------------------------------------------------------------------------
(* The abstract player that the queue implements.                          *)

\* How a molecule loops: by its mode, schedule begins it anew after its last
\* atom, or computes its position each time it is due.
Loops(m) == IF "loop" \notin m.mode THEN "no"
            ELSE IF {"mute", "pause"} \cap m.mode # {} THEN "seeks"
            ELSE IF "restart" \in m.mode THEN "wraps" ELSE "no"

ItemOf(m) == [priority |-> m.priority, name |-> m.id, length |-> Len(m.atoms),
              at |-> m.current, discards |-> "discard" \in m.mode, loops |-> Loops(m)]

Items(q) == [s \in Queued(q) |-> ItemOf(q.mol[s])]

\* The current atoms of the active molecule that baresip plays or records.
Audible(q) == {<<s, q.mol[s].current>> : s \in {t \in ActiveOnes(q) :
                /\ IsActive(q.mol[t])
                /\ {CurrentAtom(q.mol[t])} \in {q.source, q.player}}}

\* What the client is told: molecule_done sends nothing for an empty id.
Told(q) == {d.token : d \in q.done} \ {NoId}

Abstract == INSTANCE Player WITH
    Names  <- MaybeIds,
    NoName <- NoId,
    items  <- Items(session),
    heard  <- Audible(session),
    done   <- Told(session),
    inStep <- InStep /\ Without({"cut"})

\* With its pointers into moving vectors, its recursion and its events that
\* come from files and timers of any molecule, the queue plays its molecules
\* and reports their ends as the abstract player does, for as long as it is in
\* step.
QueueIsPlayer == Abstract!Spec

-----------------------------------------------------------------------------
(* Files end, and a Record's maximal length elapses.  A client may stop    *)
(* sending commands.                                                       *)

LengthTimer == \E t \in session.timers : t.timer = "length" /\ RecordTimer(t)

Fairness == WF_vars(EndOfFile) /\ WF_vars(LengthTimer)

LiveSpec == Spec /\ Fairness

\* Once the commands have ended, everything that is queued gets its turn and
\* leaves, unless it loops or the queue fell out of step.
Drains ==
    <>[][~Commands]_vars => <>[](InStep => Playable(session) = {})

-----------------------------------------------------------------------------
(* What documentation and tests of the repository say, and the code does   *)
(* not do.                                                                 *)

\* The token of molecule_done is the id of the molecule that was finished:
\* test of actor-v3/protocol.py.
DoneNamesFinished == InStep => \A d \in session.done : d.token \in {d.id, NoId}

\* At an end of file the active molecule, if it is the one that is due, "was
\* stopped or played to the end": comment in VQueue::schedule.
EndIsOfActive ==
    [][InStep /\ EndOfFile =>
          \A a \in session.source : session.active # Null => a.molecule = session.pin]_vars
=============================================================================
