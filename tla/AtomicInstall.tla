--------------------------- MODULE AtomicInstall ---------------------------
(***************************************************************************)
(* What an installer of whole file sets promises to its callers: a project   *)
(* is replaced by another complete project in one indivisible step, or      *)
(* nothing happens; a crash is an abandoned request.  It is the promise of   *)
(* the generator (src/internal/generator/transaction.go:126-128), which      *)
(* ProjectTransaction is shown to implement.  The restore of a backup keeps  *)
(* it until its recovery gets stuck: InterruptibleInstall.                  *)
(***************************************************************************)
CONSTANTS
    Projects,   \* every complete state the managed files can be in
    NoRequest   \* a value outside Projects: no generation is under way

VARIABLES
    value,      \* the project the operator has
    request,    \* the project being generated, or NoRequest
    reply       \* the last answer: "none" (none yet, or the caller crashed),
                \* "ok" or "error"

vars == <<value, request, reply>>

\* The project is always a complete one.
TypeOK ==
    /\ value \in Projects
    /\ request \in Projects \cup {NoRequest}
    /\ reply \in {"none", "ok", "error"}

Init ==
    /\ value \in Projects
    /\ request = NoRequest
    /\ reply = "none"

Request(p) ==
    /\ request = NoRequest
    /\ request' = p
    /\ UNCHANGED <<value, reply>>

\* The one point at which the project changes.  The caller is told "ok", or
\* "error" when the commit itself could not be confirmed.
Commit ==
    /\ request # NoRequest
    /\ value' = request
    /\ request' = NoRequest
    /\ reply' \in {"ok", "error"}

\* A failed or crashed generation, a command that does not generate, or a
\* refusal: the project stays what it was and nobody is told "ok".
Abandon ==
    /\ request' = NoRequest
    /\ reply' \in {"none", "error"}
    /\ UNCHANGED value

Next ==
    \/ \E p \in Projects : Request(p)
    \/ Commit
    \/ Abandon

Spec == Init /\ [][Next]_vars
=============================================================================
