---------------------------- MODULE MCHardfile ----------------------------
(* Instances of Hardfile for TLC. *)
EXTENDS Hardfile, TLC

RequestSymmetry == Permutations(Requests)
=============================================================================
