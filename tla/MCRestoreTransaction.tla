------------------------ MODULE MCRestoreTransaction ------------------------
(* Instances of RestoreTransaction for TLC. *)
EXTENDS RestoreTransaction, TLC

CONSTANTS d, top, c1, c2

MCDirs == {d}
\* Two files in a directory that may be missing, the second one on its own.
MCDirOf == 1 :> d @@ 2 :> top @@ 3 :> d

\* Two files in the restore root.
FlatDirOf == 1 :> top @@ 2 :> top

MCContent == {c1, c2}
=============================================================================
