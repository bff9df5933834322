------------------------------ MODULE MCTraps ------------------------------
(* Instances of Traps for TLC. *)
EXTENDS Traps, TLC

TaskSymmetry == Permutations(Tasks)
=============================================================================
