--------------------------- MODULE CallerIterator ---------------------------
(***************************************************************************)
(* CallerIterator of src/actor-v3/location.py: a cyclic walk over the list *)
(* of the callers of a room, which enter and leave meanwhile.  Nothing     *)
(* creates one yet (it_callers is always None); Location.leave tells the   *)
(* iterators of a room who is about to leave.                              *)
(***************************************************************************)
EXTENDS Integers, SequencesExt

CONSTANTS Callers, Nobody

ASSUME NobodyAssumption == Nobody \notin Callers

VARIABLES
    items, pos, invalid,   \* CallerIterator; pos is -1 for None
    raised,                \* the exception of the last call, or "none"
    visited, rest          \* for the property: who was returned last, Nobody
                           \* once that one has left, and who follows it
                           \* until the end of the list

vars == <<items, pos, invalid, raised, visited, rest>>

-----------------------------------------------------------------------------
\* The call returns the caller at position p.
Visit(p) == /\ pos' = p
            /\ visited' = items[p + 1]
            /\ rest' = SubSeq(items, p + 2, Len(items))
            /\ UNCHANGED <<items, raised>>

\* The call raises.
Raise(exception) == /\ raised' = exception
                    /\ UNCHANGED <<items, visited, rest>>

\* next.  Once the caller at the position has left, the position is taken
\* modulo the length less one, although the list is shorter by then: when that
\* caller was one of the last two, another one is passed over (the last, or
\* the first), and when one caller is left it raises.
NextCaller ==
    /\ raised = "none" /\ items # <<>>
    /\ \/ /\ pos = -1
          /\ Visit(0) /\ UNCHANGED invalid
       \/ /\ pos # -1 /\ invalid /\ Len(items) > 1
          /\ Visit(pos % (Len(items) - 1)) /\ invalid' = FALSE
       \/ /\ pos # -1 /\ invalid /\ Len(items) = 1
          /\ Raise("ZeroDivisionError") /\ invalid' = FALSE /\ UNCHANGED pos
       \/ /\ pos # -1 /\ ~invalid
          /\ Visit((pos + 1) % Len(items)) /\ UNCHANGED invalid

\* prev does not ask for invalid.
PrevCaller ==
    /\ raised = "none" /\ items # <<>>
    /\ Visit(IF pos = -1 THEN Len(items) - 1 ELSE (pos - 1) % Len(items))
    /\ UNCHANGED invalid

\* Mutant of Invalidated: the callers before the position are not minded.
InvalidatedAt(i) == /\ UNCHANGED pos
                    /\ invalid' = (invalid \/ i = pos)

\* The branches of invalidate, for the index of the caller.
Invalidated(i) == /\ pos' = IF i < pos THEN pos - 1 ELSE pos
                  /\ invalid' = (invalid \/ i = pos)

\* Location.leave: invalidate, then the caller is removed.  None does not
\* compare with an index.
Leave(c) ==
    /\ raised = "none" /\ c \in Range(items)
    /\ \/ /\ pos = -1 /\ Raise("TypeError") /\ UNCHANGED <<pos, invalid>>
       \/ /\ pos # -1
          /\ \E i \in DOMAIN items : items[i] = c /\ Invalidated(i - 1)
          /\ items' = RemoveFirst(items, c)
          /\ rest' = RemoveFirst(rest, c)
          /\ visited' = IF visited = c THEN Nobody ELSE visited
          /\ UNCHANGED raised

\* Location.enter
Enter(c) ==
    /\ raised = "none" /\ c \notin Range(items)
    /\ items' = Append(items, c)
    /\ rest' = Append(rest, c)
    /\ UNCHANGED <<pos, invalid, raised, visited>>

Init == /\ items = <<>> /\ pos = -1 /\ invalid = FALSE /\ raised = "none"
        /\ visited = Nobody /\ rest = <<>>

Next == \/ NextCaller
        \/ PrevCaller
        \/ \E c \in Callers : Leave(c) \/ Enter(c)

Spec == Init /\ [][Next]_vars

-----------------------------------------------------------------------------
(* Properties.                                                             *)

\* Whoever enters and leaves during a walk, the position is that of the caller
\* that was returned last; once that one has left, invalid says so, and the
\* position is that of the first who followed it, or the end of the list.
\* An exception closes the connection, and the iterator is gone with it.
PlaceIsKept ==
    raised = "none" /\ pos # -1 =>
        IF visited # Nobody
        THEN pos < Len(items) /\ items[pos + 1] = visited /\ rest = SubSeq(items, pos + 2, Len(items))
        ELSE invalid /\ rest = SubSeq(items, pos + 1, Len(items))
=============================================================================
