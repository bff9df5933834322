----------------------------- MODULE MCCommPipe -----------------------------
(* Instances of CommPipe for TLC. *)
EXTENDS CommPipe, TLC

WriterSymmetry == Permutations(Writers)
=============================================================================
