------------------------------ MODULE SparesMC ------------------------------
(***************************************************************************)
(* The parts of the world that are written but not yet built in, side by   *)
(* side: they share nothing, and a step is one of either.                  *)
(***************************************************************************)
EXTENDS CallerIterator, Elevator

SparesInit == Init /\ ElevatorInit

SparesSpec == /\ SparesInit
              /\ [][\/ Next /\ UNCHANGED elevator
                    \/ ElevatorNext /\ UNCHANGED vars]_<<vars, elevator>>

Symmetry == Permutations(Callers)
SmallFloors == -2 .. 2
=============================================================================
