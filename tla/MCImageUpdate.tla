---------------------------- MODULE MCImageUpdate ----------------------------
(* Instances of ImageUpdate for TLC. *)
EXTENDS ImageUpdate, TLC

CONSTANTS a, b, c, i, j, d1, d2

\* Two services share an image, the third one has its own.
MCImage == a :> i @@ b :> i @@ c :> j
=============================================================================
