--------------------------- MODULE MCFilesysUnit ---------------------------
(* Instances of FilesysUnit for TLC. *)
EXTENDS FilesysUnit

TakeLock == {-1, 0}
=============================================================================
