------------------------------- MODULE Player -------------------------------
(***************************************************************************)
(* What the queue of a call promises: a player that is handed items with   *)
(* priorities and always lets the earliest of the highest priority be      *)
(* heard, one part after the other.  There are no vectors, pointers, files *)
(* or timers here, and an interruption leaves an item where it was.        *)
(*                                                                         *)
(* VQueue implements this as long as it is in step (QueueIsPlayer); the    *)
(* faults it names are the ways out.                                       *)
(***************************************************************************)
EXTENDS Integers

CONSTANTS
    Priorities,
    Names,      \* what items are called; several may have one name
    NoName      \* the name of an item whose end nobody asked to be told

VARIABLES
    items,      \* what is queued, by serial number
    heard,      \* the pairs <<serial, part>> that can be heard: one or none
    done,       \* the names the last step reported as done
    count,      \* how many items were ever handed over
    inStep      \* nothing has gone wrong yet

vars == <<items, heard, done, count, inStep>>

\* `length' is the number of parts, `at' the part that is next or heard.  An
\* item that wraps begins anew after its last part; where one that seeks goes
\* on depends on the time.
Item == [priority : Priorities, name : Names, length : Nat, at : Nat \ {0},
         discards : BOOLEAN, loops : {"no", "wraps", "seeks"}]

Init == /\ items = [s \in {} |-> s] /\ heard = {} /\ done = {}
        /\ count = 0 /\ inStep = TRUE

\* The item whose turn it is: {} if none has a part.
Due(I) ==
    LET full == {s \in DOMAIN I : I[s].length > 0}
    IN  {s \in full : \A t \in full \ {s} :
            \/ I[s].priority > I[t].priority
            \/ I[s].priority = I[t].priority /\ s < t}

IsAt(s, i) == items'[s] = [items[s] EXCEPT !.at = i]
Parts(s)   == 1 .. items[s].length

\* s keeps its place; if it seeks, it may find another when its turn comes.
Rests(s) == \/ items'[s] = items[s]
            \/ /\ items[s].loops = "seeks"
               /\ s \in Due(items')
               /\ \E i \in Parts(s) : IsAt(s, i)

\* Exactly the items D leave, and those that stay rest, the ones in S aside.
OnlyLeave(D, S) == /\ DOMAIN items' = DOMAIN items \ D
                   /\ \A s \in DOMAIN items' \ S : Rests(s)

\* The names under which the end of s can be reported: that of the item behind
\* it, which has taken its place, and if there is none its own or no name.
Heirs(s) ==
    LET behind == {t \in DOMAIN items : items[t].priority = items[s].priority /\ t > s}
    IN  IF behind = {} THEN {items[s].name, NoName}
        ELSE {items[t].name : t \in {u \in behind : \A v \in behind : u <= v}}

\* The end of the items D, one or none, is reported.
Report(D) == IF D = {} THEN done' = {}
             ELSE \E s \in D : \E n \in Heirs(s) : done' = {n} \ {NoName}

\* A new item interrupts one of a lower priority, which leaves if it discards.
\* An item without parts has no turn, but the one that is heard is told to
\* seek its place.
Add(s) ==
    LET item  == items'[s]
        lower == {t \in Due(items) : items[t].priority < item.priority}
        gone  == {t \in lower : item.length > 0 /\ items[t].discards}
    IN  /\ s = count + 1
        /\ count' = s
        /\ item \in Item
        /\ item.at = 1
        /\ DOMAIN items' = (DOMAIN items \ gone) \cup {s}
        /\ \A t \in DOMAIN items \ gone :
              \/ Rests(t)
              \/ item.length = 0 /\ t \in lower /\ \E i \in Parts(t) : IsAt(t, i)
        /\ Report(gone)

\* Where s goes on when its part has ended.
After(s) ==
    LET item == items[s]
    IN  IF item.loops = "seeks"        THEN Parts(s)
        ELSE IF item.at < item.length  THEN {item.at + 1}
        ELSE IF item.loops = "wraps"   THEN {1}
        ELSE {}

\* The player is told that a part has ended, not which, and takes it for the
\* part that can be heard: its item goes on, or it was the last.
End(s) ==
    /\ s \in Due(items)
    /\ UNCHANGED count
    /\ IF After(s) = {} THEN OnlyLeave({s}, {}) /\ Report({s})
       ELSE /\ OnlyLeave({}, {s}) /\ Report({})
            /\ \E i \in After(s) : IsAt(s, i)

RemoveRange(from, to) ==
    /\ UNCHANGED count
    /\ OnlyLeave({s \in DOMAIN items : items[s].priority \in from .. (to - 1)}, {})
    /\ Report({})

\* The first item of this name of every priority is removed; only the one that
\* is heard is reported.
Remove(name) ==
    LET named == {s \in DOMAIN items : items[s].name = name}
        D     == {s \in named : \A t \in named :
                     items[s].priority = items[t].priority => s <= t}
    IN  /\ D # {}
        /\ UNCHANGED count
        /\ OnlyLeave(D, {})
        /\ Report(D \cap Due(items))

\* Nothing the player cares about.
Pass == UNCHANGED <<items, count>> /\ Report({})

Plays ==
    \/ \E s \in DOMAIN items' \ DOMAIN items : Add(s)
    \/ \E s \in DOMAIN items : End(s)
    \/ \E from, to \in Priorities : RemoveRange(from, to)
    \/ \E name \in Names : Remove(name)
    \/ Pass

\* In every step that goes well, what can be heard afterwards is the part at
\* which the item is whose turn it is.
Next == inStep' => /\ inStep
                   /\ heard' = {<<s, items'[s].at>> : s \in Due(items')}
                   /\ Plays

Spec == Init /\ [][Next]_vars
=============================================================================
