------------------------------ MODULE HouseMC ------------------------------
(***************************************************************************)
(* Small instances of House: a house whose hall has no background, so that *)
(* callers get around, and the Villa itself.                               *)
(***************************************************************************)
EXTENDS House, Villa

Symmetry == Permutations(Callers)

\* The garden is east of the hall, the salon, which has a background, west.
SmallRooms == {"hall", "garden", "salon"}
SmallConnects == <<[from |-> "hall", to |-> "garden", direction |-> "east"],
                   [from |-> "hall", to |-> "salon", direction |-> "west"]>>
SmallBackground == {"salon"}
SmallShortcuts == {<<"2">>}
=============================================================================
