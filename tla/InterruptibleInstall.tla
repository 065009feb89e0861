----------------------- MODULE InterruptibleInstall -----------------------
(***************************************************************************)
(* The atomic installation of AtomicInstall, by an installer that may get    *)
(* stuck.  Until then it keeps the promise of AtomicInstall; what it leaves  *)
(* when it gets stuck may be a mixture of two projects, and from then on it  *)
(* touches nothing, takes no request and tells nobody "ok".  It is what the  *)
(* restore of a backup (src/internal/backup/backup.go:1038-1041) amounts to, *)
(* and RestoreTransaction is shown to implement it.                          *)
(***************************************************************************)
EXTENDS AtomicInstall

VARIABLE stuck   \* the installer can neither finish nor undo

InterruptibleInit == Init /\ stuck = FALSE

Proceed == ~stuck /\ Next /\ UNCHANGED stuck

\* The project is left as it is found, whichever that is.
GetStuck ==
    /\ ~stuck
    /\ stuck' = TRUE
    /\ value' \in Projects
    /\ request' = NoRequest
    /\ reply' \in {"none", "error"}

Refuse ==
    /\ stuck
    /\ request' = NoRequest
    /\ reply' \in {"none", "error"}
    /\ UNCHANGED <<value, stuck>>

InterruptibleNext == Proceed \/ GetStuck \/ Refuse

InterruptibleSpec == InterruptibleInit /\ [][InterruptibleNext]_<<vars, stuck>>
=============================================================================
