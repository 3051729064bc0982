------------------------------ MODULE CallsMC ------------------------------
(***************************************************************************)
(* Small instances of Calls.                                               *)
(***************************************************************************)
EXTENDS Calls

Symmetry == Permutations(CallIds)
=============================================================================
