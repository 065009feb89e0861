----------------------------- MODULE ImageUpdate -----------------------------
(***************************************************************************)
(* sdbx update (src/cmd/sdbx/cmd/update.go): new digests are resolved for   *)
(* the image references of all services, or of the selected ones; with      *)
(* --apply the new lock and runtime are committed, the images pulled, the   *)
(* stack converged and every service waited for.  A stage that fails is     *)
(* answered with a rollback: the previous lock and runtime are committed,   *)
(* and the stack is taken down, pulled, converged and waited for again.     *)
(*                                                                         *)
(* Around the command, sdbx up and sdbx down run while no update does, tags  *)
(* move upstream (the registry may answer anything, any time), the user      *)
(* cancels, and the process may be killed.  The lock and the generated      *)
(* runtime are one value: ProjectTransaction shows that they change as one. *)
(* Docker and its registries are external: a Compose command acts on the    *)
(* lock's digests and may fail half done, and a container may or may not    *)
(* become healthy before its deadline.                                      *)
(***************************************************************************)
EXTENDS Naturals, FiniteSets

CONSTANTS
    Services,   \* the active services
    Image,      \* the image reference (repository:tag) of each
    Digest,     \* what a reference can resolve to
    None        \* no container; nothing resolved

Locks == [Services -> Digest]

\* An image reference has one digest in a lock.
Consistent(l) == \A s, t \in Services : Image[s] = Image[t] => l[s] = l[t]

ASSUME UpdateAssumption ==
    /\ Services # {}
    /\ Digest # {}
    /\ None \notin Digest

VARIABLES
    lock,       \* the digests in .sdbx.lock and in the generated compose.yaml
    running,    \* the digest each service's container was created from
    pc,         \* the stage the update is at; "idle" when none runs
    selected,   \* the --service names; none selects all
    apply,      \* --apply, with the exact confirmation
    previous,   \* the verified lock the update started from
    next,       \* the lock it resolves, None where not resolved yet
    todo,       \* the services still to be resolved or to be waited for
    reset,      \* the rollback must take the containers down
    restoring,  \* the previous lock is being converged, not the next one
    cancelled,  \* the command's context is cancelled
    faulty,     \* history: Docker or the project transaction failed the last update
    reply       \* the answer of the last update

plan == <<selected, apply, previous, next>>
vars == <<lock, running, pc, plan, todo, reset, restoring, cancelled, faulty, reply>>

Stages == {"idle", "resolve", "compare", "write", "restore", "down", "pull", "up", "wait"}
Partial == [Services -> Digest \cup {None}]
Nothing == [s \in Services |-> None]

\* No lock with an image that is not resolved is on disk, at whatever stage an update
\* ends or dies (ValidateLockFile with requireImageDigests).
TypeOK ==
    /\ lock \in Locks
    /\ running \in Partial
    /\ pc \in Stages
    /\ selected \subseteq Services
    /\ apply \in BOOLEAN
    /\ previous \in Partial
    /\ next \in Partial
    /\ todo \subseteq Services
    /\ reset \in BOOLEAN /\ restoring \in BOOLEAN
    /\ cancelled \in BOOLEAN /\ faulty \in BOOLEAN
    /\ reply \in {"none", "refused", "error", "current", "preview",
                  "applied", "restored", "unrestored"}

Init ==
    /\ lock \in {l \in Locks : Consistent(l)}
    /\ running = Nothing
    /\ pc = "idle"
    /\ selected = {} /\ apply = FALSE
    /\ previous = Nothing /\ next = Nothing
    /\ todo = {} /\ reset = FALSE /\ restoring = FALSE
    /\ cancelled = FALSE /\ faulty = FALSE
    /\ reply = "none"

\* The update returns, and its variables are gone.
End(answer) ==
    /\ pc' = "idle"
    /\ selected' = {} /\ apply' = FALSE
    /\ previous' = Nothing /\ next' = Nothing
    /\ todo' = {} /\ reset' = FALSE /\ restoring' = FALSE
    /\ cancelled' = FALSE
    /\ reply' = answer

---------------------------------------------------------------------------
(* docker compose, as internal/docker/compose.go calls it.                  *)

\* up -d --remove-orphans: containers of another digest are recreated.
ComposeUp == running' = lock

\* It stops half way: a container may be old, gone or new.
ComposeUpPartly ==
    \E old, new \in SUBSET Services :
        running' = [s \in Services |->
            IF s \in new THEN lock[s] ELSE IF s \in old THEN running[s] ELSE None]

ComposeDown == running' = Nothing

ComposeDownPartly ==
    \E kept \in SUBSET Services :
        running' = [s \in Services |-> IF s \in kept THEN running[s] ELSE None]

\* runUp and runDown, while no update runs.
UpCommand ==
    /\ pc = "idle"
    /\ ComposeUp \/ ComposeUpPartly
    /\ UNCHANGED <<lock, pc, plan, todo, reset, restoring, cancelled, faulty, reply>>

DownCommand ==
    /\ pc = "idle"
    /\ ComposeDown \/ ComposeDownPartly
    /\ UNCHANGED <<lock, pc, plan, todo, reset, restoring, cancelled, faulty, reply>>

---------------------------------------------------------------------------
(* runUpdate: from a verified lock to the candidate.                        *)

\* Mutated form: services that share an image can be updated one by one.
SplitsNone(sel) == FALSE

\* updateImageResolver: an image is refreshed for all its services or none.
Splits(sel) ==
    \E s \in sel : \E t \in Services \ sel : Image[s] = Image[t]

Begin(sel, app) ==
    /\ pc = "idle"
    /\ ~Splits(sel)
    /\ pc' = "resolve"
    /\ selected' = sel /\ apply' = app
    /\ previous' = lock /\ next' = Nothing
    /\ todo' = Services
    /\ faulty' = FALSE
    /\ reply' = "none"
    /\ UNCHANGED <<lock, running, reset, restoring, cancelled>>

Refuse(sel) ==
    /\ pc = "idle"
    /\ Splits(sel)
    /\ reply' = "refused"
    /\ UNCHANGED <<lock, running, pc, plan, todo, reset, restoring, cancelled, faulty>>

Refreshed(s) == selected = {} \/ \E t \in selected : Image[t] = Image[s]

\* Mutated form: every resolution asks the registry.
AnswersFresh(s) == IF Refreshed(s) THEN Digest ELSE {previous[s]}

\* The registry is asked once for a reference, and its tag may have moved since
\* the last one; a reference that is not refreshed keeps its pin.
Answers(s) ==
    LET asked == {t \in Services \ todo : Image[t] = Image[s]}
    IN IF ~Refreshed(s) THEN {previous[s]}
       ELSE IF asked = {} THEN Digest ELSE {next[t] : t \in asked}

\* GenerateLockFileWithOptions resolves service after service.
Resolve ==
    /\ pc = "resolve"
    /\ \E s \in todo : \E d \in Answers(s) :
        /\ next' = [next EXCEPT ![s] = d]
        /\ todo' = todo \ {s}
        /\ pc' = IF todo = {s} THEN "compare" ELSE "resolve"
    /\ UNCHANGED <<lock, running, selected, apply, previous, reset, restoring,
                   cancelled, faulty, reply>>

\* The registry does not answer, or the command is cancelled.
ResolveFails ==
    /\ pc = "resolve"
    /\ End("error")
    /\ UNCHANGED <<lock, running, faulty>>

AlreadyCurrent ==
    /\ pc = "compare"
    /\ next = previous
    /\ End("current")
    /\ UNCHANGED <<lock, running, faulty>>

Preview ==
    /\ pc = "compare"
    /\ next # previous
    /\ ~apply
    /\ End("preview")
    /\ UNCHANGED <<lock, running, faulty>>

Apply ==
    /\ pc = "compare"
    /\ next # previous
    /\ apply
    /\ pc' = "write"
    /\ UNCHANGED <<lock, running, plan, todo, reset, restoring, cancelled, faulty, reply>>

\* The confirmation is not the exact one, or the health policy is not readable.
ApplyRefused ==
    /\ pc = "compare"
    /\ next # previous
    /\ End("error")
    /\ UNCHANGED <<lock, running, faulty>>

---------------------------------------------------------------------------
(* Apply, and rollbackUpdate.  Pull, up and wait serve both: restoring says  *)
(* which.                                                                   *)

Write ==
    /\ pc = "write"
    /\ lock' = next
    /\ pc' = "pull"
    /\ UNCHANGED <<running, plan, todo, reset, restoring, cancelled, faulty, reply>>

\* Mutated form: a failed stage is reported without a rollback.
StopAt(containers, fault) == End("unrestored") /\ faulty' = (faulty \/ fault)

\* Mutated form: a rollback that fails is started again.
RetryAt(containers, fault) ==
    /\ pc' = "restore"
    /\ reset' = containers
    /\ restoring' = TRUE
    /\ faulty' = (faulty \/ fault)
    /\ UNCHANGED <<plan, todo, cancelled, reply>>

\* A failed stage of the update leads to the rollback; one of the rollback ends it.
FailAt(containers, fault) ==
    /\ faulty' = (faulty \/ fault)
    /\ \/ restoring /\ End("unrestored")
       \/ /\ ~restoring
          /\ pc' = "restore"
          /\ reset' = containers
          /\ restoring' = TRUE
          /\ UNCHANGED <<plan, todo, cancelled, reply>>

\* A transaction that fails has left the old state, or committed the new one.
WriteFails ==
    /\ pc = "write"
    /\ lock' \in {lock, next}
    /\ FailAt(FALSE, TRUE)
    /\ UNCHANGED running

RestoreLock ==
    /\ pc = "restore"
    /\ lock' = previous
    /\ pc' = IF reset THEN "down" ELSE "pull"
    /\ UNCHANGED <<running, plan, todo, reset, restoring, cancelled, faulty, reply>>

RestoreLockFails ==
    /\ pc = "restore"
    /\ lock' \in {lock, previous}
    /\ FailAt(FALSE, TRUE)
    /\ UNCHANGED running

TakeDown ==
    /\ pc = "down"
    /\ ~cancelled
    /\ ComposeDown
    /\ pc' = "pull"
    /\ UNCHANGED <<lock, plan, todo, reset, restoring, cancelled, faulty, reply>>

Pull ==
    /\ pc = "pull"
    /\ ~cancelled
    /\ pc' = "up"
    /\ UNCHANGED <<lock, running, plan, todo, reset, restoring, cancelled, faulty, reply>>

Up ==
    /\ pc = "up"
    /\ ~cancelled
    /\ ComposeUp
    /\ todo' = Services
    /\ pc' = "wait"
    /\ UNCHANGED <<lock, plan, reset, restoring, cancelled, faulty, reply>>

\* Each of them fails: Docker reports an error, or is not run or is interrupted
\* because the command is cancelled.
DownFails ==
    /\ pc = "down"
    /\ ComposeDownPartly
    /\ FailAt(TRUE, ~cancelled)
    /\ UNCHANGED lock

PullFails ==
    /\ pc = "pull"
    /\ FailAt(FALSE, ~cancelled)
    /\ UNCHANGED <<lock, running>>

\* Mutated form: an error of compose up is left to the health checks to find.
UpFailsUnnoticed ==
    /\ pc = "up"
    /\ ComposeUpPartly
    /\ todo' = Services
    /\ pc' = "wait"
    /\ UNCHANGED <<lock, plan, reset, restoring, cancelled, faulty, reply>>

UpFails ==
    /\ pc = "up"
    /\ ComposeUpPartly
    /\ FailAt(TRUE, ~cancelled)
    /\ UNCHANGED lock

\* waitForUpdateHealth: WaitHealthy(s) sees it healthy before its deadline ...
WaitHealthy ==
    /\ pc = "wait"
    /\ ~cancelled
    /\ \E s \in todo : todo' = todo \ {s}
    /\ UNCHANGED <<lock, running, pc, plan, reset, restoring, cancelled, faulty, reply>>

\* ... or never does.
WaitFails ==
    /\ pc = "wait"
    /\ todo # {}
    /\ FailAt(TRUE, FALSE)
    /\ UNCHANGED <<lock, running>>

Finish ==
    /\ pc = "wait"
    /\ todo = {}
    /\ End(IF restoring THEN "restored" ELSE "applied")
    /\ UNCHANGED <<lock, running, faulty>>

---------------------------------------------------------------------------

\* SIGINT or SIGTERM cancels the context; what runs goes on until it looks.
Cancel ==
    /\ pc # "idle"
    /\ ~cancelled
    /\ cancelled' = TRUE
    /\ UNCHANGED <<lock, running, pc, plan, todo, reset, restoring, faulty, reply>>

\* The process is killed, and with it the Compose command it runs.
Crash ==
    /\ pc # "idle"
    /\ \/ pc = "write" /\ lock' \in {lock, next} /\ UNCHANGED running
       \/ pc = "restore" /\ lock' \in {lock, previous} /\ UNCHANGED running
       \/ pc = "down" /\ ComposeDownPartly /\ UNCHANGED lock
       \/ pc = "up" /\ ComposeUpPartly /\ UNCHANGED lock
       \/ pc \notin {"write", "restore", "down", "up"} /\ UNCHANGED <<lock, running>>
    /\ End("none")
    /\ UNCHANGED faulty

Command ==
    \/ \E sel \in SUBSET Services, app \in BOOLEAN : Begin(sel, app)
    \/ \E sel \in SUBSET Services : Refuse(sel)

Progress ==
    \/ Resolve
    \/ AlreadyCurrent
    \/ Preview
    \/ Apply
    \/ Write
    \/ RestoreLock
    \/ TakeDown
    \/ Pull
    \/ Up
    \/ WaitHealthy
    \/ WaitFails
    \/ Finish

Failure ==
    \/ ResolveFails
    \/ ApplyRefused
    \/ WriteFails
    \/ RestoreLockFails
    \/ DownFails
    \/ PullFails
    \/ UpFails

Next ==
    \/ UpCommand
    \/ DownCommand
    \/ Command
    \/ Progress
    \/ Failure
    \/ Cancel
    \/ Crash

Spec == Init /\ [][Next]_vars

\* A running update goes on: every Compose command ends, and every wait has a
\* deadline.
FairSpec == Spec /\ WF_vars(Progress \/ Failure)

---------------------------------------------------------------------------
(* Properties *)

\* A lock on disk never holds two digests for one image reference, although the
\* services are resolved one after the other while tags move, some of them are
\* not refreshed, and updates follow each other, fail and die.
LockConsistent == Consistent(lock)

\* update --service (updateImageResolver): whatever the registry answers, what is
\* resolved for the services that were not named is the digest they had.
UnselectedKept ==
    selected # {} =>
        \A s \in Services \ (selected \cup todo) :
            pc \in {"resolve", "compare", "write"} => next[s] = previous[s]

\* What an answer says of the disk and of Docker (update.go, Applied and
\* RolledBack): "applied" is said when what runs is what is locked and is the
\* candidate, "restored" when it is what is locked and is the baseline.
AnswerIsTrue ==
    [][/\ pc # "idle" /\ reply' = "applied" =>
            running' = lock' /\ lock' = next /\ next # previous
       /\ pc # "idle" /\ reply' = "restored" =>
            running' = lock' /\ lock' = previous]_vars

\* update.go, rollbackUpdate: an update that is answered with a failure, at
\* whatever stage of itself or of its rollback, cancelled or not, has the baseline
\* lock and runtime on disk, unless the transaction that restores them failed.
FailureKeepsBaseline ==
    [][pc \notin {"idle", "restore"} /\ reply' \in {"error", "unrestored"}
            => lock' = previous]_vars

\* Without --apply an update changes neither the disk nor the containers, through
\* whatever stages it goes.
PreviewChangesNothing ==
    [][pc # "idle" /\ ~apply => UNCHANGED <<lock, running>>]_vars

\* Every update is answered, or dies: a rollback is tried once.
UpdateEnds == pc # "idle" ~> pc = "idle"

\* docs/upgrade.md:62-65 "[...] converges services in dependency order, and checks
\* their health. If that sequence fails, it restores the previous lock and runtime
\* and reconverges the previous digests": an update that failed, with neither
\* Docker nor the file system at fault, leaves no container of the candidate.
FailureReconverges ==
    [][pc # "idle" /\ reply' = "unrestored" /\ ~faulty'
            => \A s \in Services : running'[s] = next[s] => next[s] = previous[s]]_vars
=============================================================================
