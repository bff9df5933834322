--------------------------- MODULE MCNative2Amiga ---------------------------
(* Instances of Native2Amiga for TLC. *)
EXTENDS Native2Amiga, TLC

ThreadSymmetry == Permutations(Threads)
=============================================================================
