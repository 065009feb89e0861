------------------------ MODULE MCProjectTransaction ------------------------
(* Instances of ProjectTransaction for TLC. *)
EXTENDS ProjectTransaction, TLC

CONSTANTS c1, c2

\* A directory in a directory, a file in it, and a file in the project root.
TreeDirs == {1, 2}
TreeParent == 1 :> 0 @@ 2 :> 1 @@ 3 :> 0 @@ 4 :> 2

\* Two files in the project root: no transaction creates a directory.
FlatDirs == {}
FlatParent == 1 :> 0 @@ 2 :> 0

MCContent == {c1, c2}
=============================================================================
