------------------------------ MODULE VQueueMC ------------------------------
(***************************************************************************)
(* Small instances of VQueue: the molecules that the actor enqueues        *)
(* (actor-v3/molecule.py) and those that only a client of the protocol     *)
(* could, and a literal translation of VQueue::schedule to compare the     *)
(* operator Schedule with.                                                 *)
(***************************************************************************)
EXTENDS VQueue

M == INSTANCE Molecules

\* What the actor enqueues.
Ambience == M!Play(M!P_Background, 1)
Say      == M!Play(M!P_Normal, 2)
Talk     == M!RecordBeep(M!P_Normal)
Nothing  == M!Conference(M!P_Normal)

\* What only a client could: the test client of protocol.py stops a recording
\* with a key.
Shape(m, k)  == [mode |-> m, kinds |-> k]
Mail         == M!Molecule(M!P_Discard, <<M!PlayAtom, M!RecordAtom(TRUE)>>)
Jukebox      == Shape({"loop", "restart"}, <<M!PlayAtom, M!Kind("record", TRUE, FALSE, TRUE)>>)
Pausing      == Shape({"loop", "pause"}, <<M!PlayAtom, M!PlayAtom>>)
Dictate      == Shape({"loop", "mute"}, <<M!Kind("record", FALSE, TRUE, FALSE)>>)

AllShapes    == {Ambience, Say, Talk, Mail, Nothing, Jukebox, Pausing, Dictate}
ActorShapes  == {Ambience, Talk, Mail, Nothing}
FiniteShapes == {M!Beep(M!P_Normal), Talk, Mail, Nothing}
IdShapes     == {Mail}

Symmetry == Permutations(Buffers)

-----------------------------------------------------------------------------
\* schedule as the code has it, calling itself.
RECURSIVE Recursive(_, _)
Recursive(q, reason) ==
    IF NextUp(q) = {} THEN {Idle(q)}
    ELSE UNION {
        LET c     == CHOOSE s \in NextUp(q) : TRUE
            place == Address(q, c)
        IN  UNION {
              IF r.crashed \/ Target(r, place) = {} THEN {Undefined(r)}
              ELSE LET s == CHOOSE t \in Target(r, place) : TRUE
                   IN  IF Spent(r.mol[s]) /\ ~DividesByZero(r.mol[s])
                       THEN UNION {Recursive(f, reason) : f \in Finish(r, {s})}
                       ELSE Begin(r, s) :
              r \in Leave(q, c, reason)} : x \in {q}}

\* The closed form of the recursion in VQueue::schedule is the recursion,
\* wherever an end of file or an interruption can hit the queue.
ScheduleIsRecursive ==
    \A q \in Running, reason \in {"eof", "interrupt"} :
        Schedule(q, reason) = Recursive(q, reason)
=============================================================================
