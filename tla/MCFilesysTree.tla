-------------------------- MODULE MCFilesysTree --------------------------
(* Instances of FilesysTree for TLC. *)
EXTENDS FilesysTree

\* A file x and an empty drawer y that the file y/x can be made in.
SomePaths == {<<"x">>, <<"y">>, <<"y", "x">>}
FileAndDrawer == (<<>> :> "dir") @@ (<<"x">> :> "file") @@ (<<"y">> :> "dir")

WatchDrawer == << <<"y">> >>
WatchFile   == << <<"y", "x">> >>
=============================================================================
