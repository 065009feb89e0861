-------------------------- MODULE RestoreTransaction --------------------------
(***************************************************************************)
(* The restore transaction of src/internal/backup/transaction.go: an       *)
(* archive is staged beside the managed files; then, one operation per      *)
(* file, the original is renamed into a rollback area and the staged file  *)
(* renamed into its place.  Each step is announced or recorded in an        *)
(* append-only journal of JSON lines, from which a failure or the next      *)
(* restore or daemon start undoes the operations in reverse.               *)
(*                                                                         *)
(* One process works on the journal at a time; it may be killed between    *)
(* any two steps, the host may stop while a record is written, and every   *)
(* step may report an error.  The three roots (project, configuration,     *)
(* secrets) are one: an operation is numbered in archive order, and         *)
(* transaction directories are created and removed as one.  A file's path  *)
(* is at most one directory deep that the restore may have to create.      *)
(***************************************************************************)
EXTENDS Integers, FiniteSets

CONSTANTS
    N,         \* number of staged files
    Dirs,      \* the directories a restore may have to create
    DirOf,     \* the directory of each operation's target
    TopDir,    \* the directory that always exists: a restore root
    Content,   \* what a file can contain
    Absent     \* no file

Ops == 1..N
Value == Content \cup {Absent}
Projects == [files : [Ops -> Value], dirs : SUBSET Dirs]

ASSUME RestoreAssumption ==
    /\ N \in Nat \ {0}
    /\ DirOf \in [Ops -> Dirs \cup {TopDir}]
    /\ TopDir \notin Dirs
    /\ Content # {}
    /\ Absent \notin Content
    /\ Absent \notin Projects

VARIABLES
    files,     \* what each target holds
    dirs,      \* the directories that exist, of Dirs
    stage,     \* the operations whose file waits in the stage area
    saved,     \* what the rollback area holds for each operation
    jstate,    \* .sdbx-restore-transaction.jsonl: "none", "torn" (empty, or its
               \* last record is cut), "open" or "committed"
    begun,     \* the operations 1..begun have a begin record, which says
    existed,   \*   that its target existed
    made,      \*   that its directory was missing
    backed,    \* the operations with a backed_up record
    promoted,  \* the operations with a promoted record
    archive,   \* what the archive holds for each operation
    prior,     \* history: the project before the transaction
    pc,        \* where the process is; "idle" when none runs
    cur,       \* the operation it is at
    mode,      \* why the journal is loaded or removed: "recover" or "restore"
    failed,    \* the running command met an error of the file system
    reply      \* the last answer

tree == <<files, dirs, stage, saved>>
records == <<begun, existed, made, backed, promoted>>
vars == <<tree, jstate, records, archive, prior, pc, cur, mode, failed, reply>>

Steps == {"idle", "loading", "rollback", "undir", "cleanup", "unjournal", "ready",
          "header", "staging", "begin", "mkdir", "backup", "recordbackup",
          "promote", "recordpromote", "validate", "commit"}

\* The records speak of operations of this restore, and no more have begun than it has.
TypeOK ==
    /\ files \in [Ops -> Value]
    /\ dirs \subseteq Dirs
    /\ stage \subseteq Ops
    /\ saved \in [Ops -> Value]
    /\ jstate \in {"none", "torn", "open", "committed"}
    /\ begun \in 0..N
    /\ existed \subseteq Ops /\ made \subseteq Ops
    /\ backed \subseteq Ops /\ promoted \subseteq Ops
    /\ archive \in [Ops -> Value]
    /\ prior \in Projects
    /\ pc \in Steps
    /\ cur \in 0..(N + 1)
    /\ mode \in {"recover", "restore"}
    /\ failed \in BOOLEAN
    /\ reply \in {"none", "ok", "error", "refused"}

NoFiles == [i \in Ops |-> Absent]
HasDir(i) == DirOf[i] = TopDir \/ DirOf[i] \in dirs
Current == [files |-> files, dirs |-> dirs]

Init ==
    /\ files \in [Ops -> Value]
    /\ dirs \in SUBSET Dirs
    /\ \A i \in Ops : files[i] # Absent => HasDir(i)
    /\ stage = {}
    /\ saved = NoFiles
    /\ jstate = "none"
    /\ begun = 0 /\ existed = {} /\ made = {} /\ backed = {} /\ promoted = {}
    /\ archive = NoFiles
    /\ prior = Current
    /\ pc = "idle"
    /\ cur = 0
    /\ mode = "recover"
    /\ failed = FALSE
    /\ reply = "none"

---------------------------------------------------------------------------
(* RestoreWithHooks and NewProjectOperator first recover.                  *)

Start ==
    /\ pc = "idle"
    /\ pc' = "loading"
    /\ mode' = "recover"
    /\ failed' = FALSE
    /\ reply' = "none"
    /\ UNCHANGED <<tree, jstate, records, archive, prior, cur>>

\* The process gives up, and the journal stays.
Refuse ==
    /\ pc' = "idle"
    /\ reply' = "refused"
    /\ UNCHANGED <<tree, jstate, records, archive, prior, cur, mode>>

LoadNothing ==
    /\ pc = "loading"
    /\ jstate = "none"
    /\ pc' = IF mode = "recover" THEN "ready" ELSE "idle"
    /\ UNCHANGED <<tree, jstate, records, archive, prior, cur, mode, failed, reply>>

\* Mutated form: records are read up to the one that cannot be decoded, and a
\* journal without operations is cleaned up.
LoadPrefix ==
    /\ pc = "loading"
    /\ jstate = "torn"
    /\ pc' = "cleanup"
    /\ UNCHANGED <<tree, jstate, records, archive, prior, cur, mode, failed, reply>>

\* loadRestoreJournal rejects an empty journal and a record it cannot decode.
LoadTorn ==
    /\ pc = "loading"
    /\ jstate = "torn"
    /\ Refuse
    /\ UNCHANGED failed

LoadOpen ==
    /\ pc = "loading"
    /\ jstate = "open"
    /\ pc' = "rollback"
    /\ cur' = begun
    /\ UNCHANGED <<tree, jstate, records, archive, prior, mode, failed, reply>>

LoadCommitted ==
    /\ pc = "loading"
    /\ jstate = "committed"
    /\ pc' = "cleanup"
    /\ UNCHANGED <<tree, jstate, records, archive, prior, cur, mode, failed, reply>>

LoadFails ==
    /\ pc = "loading"
    /\ jstate # "none"
    /\ failed' = TRUE
    /\ Refuse

---------------------------------------------------------------------------
(* rollbackRestoreOperation undoes operation cur.  recoverRestoreTransaction *)
(* goes from the last operation to the first and stops at the first error.  *)

\* What it cannot undo: the journal says that the original was set aside, and it
\* is not; the original is neither here nor there; the target's parent is gone.
Unrollable(i) ==
    IF i \in existed
    THEN IF saved[i] # Absent
         THEN ~HasDir(i)
         ELSE i \in backed \cup promoted \/ files[i] = Absent
    ELSE (i \in promoted \/ i \notin stage) /\ ~HasDir(i)

RollbackRefused ==
    /\ pc = "rollback"
    /\ cur > 0
    /\ Unrollable(cur)
    /\ Refuse
    /\ UNCHANGED failed

\* removeRegularTargetIfPresent, before the original is moved back.
RollbackRemoveTarget ==
    /\ pc = "rollback"
    /\ cur > 0
    /\ ~Unrollable(cur)
    /\ cur \in existed /\ saved[cur] # Absent /\ files[cur] # Absent
    /\ files' = [files EXCEPT ![cur] = Absent]
    /\ UNCHANGED <<dirs, stage, saved, jstate, records, archive, prior,
                   pc, cur, mode, failed, reply>>

RollbackMoveBack ==
    /\ pc = "rollback"
    /\ cur > 0
    /\ ~Unrollable(cur)
    /\ cur \in existed /\ saved[cur] # Absent /\ files[cur] = Absent
    /\ files' = [files EXCEPT ![cur] = saved[cur]]
    /\ saved' = [saved EXCEPT ![cur] = Absent]
    /\ pc' = "undir"
    /\ UNCHANGED <<dirs, stage, jstate, records, archive, prior, cur, mode, failed, reply>>

\* An original that was not set aside stays; a new file is removed, unless it
\* still waits in the stage.
RollbackInPlace ==
    /\ pc = "rollback"
    /\ cur > 0
    /\ ~Unrollable(cur)
    /\ cur \in existed => saved[cur] = Absent
    /\ files' = IF cur \notin existed /\ (cur \in promoted \/ cur \notin stage)
                THEN [files EXCEPT ![cur] = Absent]
                ELSE files
    /\ pc' = "undir"
    /\ UNCHANGED <<dirs, stage, saved, jstate, records, archive, prior,
                   cur, mode, failed, reply>>

InUse(d) == \E i \in Ops : DirOf[i] = d /\ files[i] # Absent

\* Mutated form: the target's directory is removed whether or not the journal says
\* that this operation made it.
RollbackAnyDirectory ==
    /\ pc = "undir"
    /\ dirs' = IF InUse(DirOf[cur]) THEN dirs ELSE dirs \ {DirOf[cur]}
    /\ pc' = "rollback"
    /\ cur' = cur - 1
    /\ UNCHANGED <<files, stage, saved, jstate, records, archive, prior,
                   mode, failed, reply>>

\* The directory is empty by then: what else was put there is already undone.
RollbackDirectory ==
    /\ pc = "undir"
    /\ cur \in made => ~InUse(DirOf[cur])
    /\ dirs' = IF cur \in made THEN dirs \ {DirOf[cur]} ELSE dirs
    /\ pc' = "rollback"
    /\ cur' = cur - 1
    /\ UNCHANGED <<files, stage, saved, jstate, records, archive, prior,
                   mode, failed, reply>>

RollbackDone ==
    /\ pc = "rollback"
    /\ cur = 0
    /\ pc' = "cleanup"
    /\ UNCHANGED <<tree, jstate, records, archive, prior, cur, mode, failed, reply>>

RollbackFails ==
    /\ pc \in {"rollback", "undir"}
    /\ cur > 0
    /\ failed' = TRUE
    /\ Refuse

---------------------------------------------------------------------------
(* cleanupRestoreTransaction removes the transaction directories, then      *)
(* removeRestoreJournal the journal.                                        *)

CleanupFile ==
    /\ pc = "cleanup"
    /\ \E i \in Ops :
        \/ i \in stage /\ stage' = stage \ {i} /\ UNCHANGED saved
        \/ saved[i] # Absent /\ saved' = [saved EXCEPT ![i] = Absent] /\ UNCHANGED stage
    /\ UNCHANGED <<files, dirs, jstate, records, archive, prior,
                   pc, cur, mode, failed, reply>>

CleanupDone ==
    /\ pc = "cleanup"
    /\ stage = {} /\ saved = NoFiles
    /\ pc' = "unjournal"
    /\ UNCHANGED <<tree, jstate, records, archive, prior, cur, mode, failed, reply>>

\* Mutated form: a recovery leaves the journal to the restore that follows.
RemoveOwnJournal ==
    /\ pc = "unjournal"
    /\ IF mode = "restore"
       THEN /\ jstate' = "none"
            /\ begun' = 0 /\ existed' = {} /\ made' = {} /\ backed' = {} /\ promoted' = {}
            /\ archive' = NoFiles
       ELSE UNCHANGED <<jstate, records, archive>>
    /\ pc' = IF mode = "recover" THEN "ready" ELSE "idle"
    /\ UNCHANGED <<tree, prior, cur, mode, failed, reply>>

RemoveJournal ==
    /\ pc = "unjournal"
    /\ jstate' = "none"
    /\ begun' = 0 /\ existed' = {} /\ made' = {} /\ backed' = {} /\ promoted' = {}
    /\ archive' = NoFiles
    /\ pc' = IF mode = "recover" THEN "ready" ELSE "idle"
    /\ UNCHANGED <<tree, prior, cur, mode, failed, reply>>

\* After a commit the caller is told that the cleanup failed.
CleanupFails ==
    /\ pc \in {"cleanup", "unjournal"}
    /\ failed' = TRUE
    /\ IF reply = "ok"
       THEN /\ pc' = "idle"
            /\ reply' = "error"
            /\ UNCHANGED <<tree, jstate, records, archive, prior, cur, mode>>
       ELSE Refuse

---------------------------------------------------------------------------
(* applyArchiveTransactional.                                               *)

\* The daemon goes on to serve, or the archive is refused before it is staged.
EndCommand ==
    /\ pc = "ready"
    /\ pc' = "idle"
    /\ UNCHANGED <<tree, jstate, records, archive, prior, cur, mode, failed, reply>>

\* createRestoreJournal makes an empty file ...
CreateJournal ==
    /\ pc = "ready"
    /\ jstate = "none"
    /\ jstate' = "torn"
    /\ prior' = Current
    /\ mode' = "restore"
    /\ pc' = "header"
    /\ UNCHANGED <<tree, records, archive, cur, failed, reply>>

\* ... and appends the header.
WriteHeader ==
    /\ pc = "header"
    /\ jstate' = "open"
    /\ pc' = "staging"
    /\ UNCHANGED <<tree, records, archive, prior, cur, mode, failed, reply>>

WriteHeaderFails ==
    /\ pc = "header"
    /\ jstate' = "none"
    /\ pc' = "idle"
    /\ failed' = TRUE
    /\ reply' = "error"
    /\ UNCHANGED <<tree, records, archive, prior, cur, mode>>

\* The transaction directories are made and the archive is staged and validated.
Stage ==
    /\ pc = "staging"
    /\ archive' \in [Ops -> Content]
    /\ stage' = Ops
    /\ cur' = 1
    /\ pc' = "begin"
    /\ UNCHANGED <<files, dirs, saved, jstate, records, prior, mode, failed, reply>>

\* promoteStagedRestoreFile, for operation cur.

\* Mutated form: the announcement of an operation stands for its backup as well.
RecordBeginBackedUp ==
    /\ begun' = cur
    /\ existed' = IF files[cur] # Absent THEN existed \cup {cur} ELSE existed
    /\ made' = IF HasDir(cur) THEN made ELSE made \cup {cur}
    /\ backed' = backed \cup {cur}
    /\ UNCHANGED promoted

RecordBegin ==
    /\ begun' = cur
    /\ existed' = IF files[cur] # Absent THEN existed \cup {cur} ELSE existed
    /\ made' = IF HasDir(cur) THEN made ELSE made \cup {cur}
    /\ UNCHANGED <<backed, promoted>>

RecordBackedUp ==
    /\ backed' = backed \cup {cur}
    /\ UNCHANGED <<begun, existed, made, promoted>>

RecordPromoted ==
    /\ promoted' = promoted \cup {cur}
    /\ UNCHANGED <<begun, existed, made, backed>>

Begin ==
    /\ pc = "begin"
    /\ cur <= N
    /\ RecordBegin
    /\ pc' = "mkdir"
    /\ UNCHANGED <<tree, jstate, archive, prior, cur, mode, failed, reply>>

MakeDirectory ==
    /\ pc = "mkdir"
    /\ dirs' = IF cur \in made THEN dirs \cup {DirOf[cur]} ELSE dirs
    /\ pc' = IF cur \in existed THEN "backup" ELSE "promote"
    /\ UNCHANGED <<files, stage, saved, jstate, records, archive, prior,
                   cur, mode, failed, reply>>

\* Mutated form: the original is removed instead of set aside.
DropOriginal ==
    /\ pc = "backup"
    /\ files' = [files EXCEPT ![cur] = Absent]
    /\ pc' = "recordbackup"
    /\ UNCHANGED <<dirs, stage, saved, jstate, records, archive, prior,
                   cur, mode, failed, reply>>

BackUp ==
    /\ pc = "backup"
    /\ saved' = [saved EXCEPT ![cur] = files[cur]]
    /\ files' = [files EXCEPT ![cur] = Absent]
    /\ pc' = "recordbackup"
    /\ UNCHANGED <<dirs, stage, jstate, records, archive, prior,
                   cur, mode, failed, reply>>

AppendBackedUp ==
    /\ pc = "recordbackup"
    /\ RecordBackedUp
    /\ pc' = "promote"
    /\ UNCHANGED <<tree, jstate, archive, prior, cur, mode, failed, reply>>

Promote ==
    /\ pc = "promote"
    /\ files' = [files EXCEPT ![cur] = archive[cur]]
    /\ stage' = stage \ {cur}
    /\ pc' = "recordpromote"
    /\ UNCHANGED <<dirs, saved, jstate, records, archive, prior,
                   cur, mode, failed, reply>>

AppendPromoted ==
    /\ pc = "recordpromote"
    /\ RecordPromoted
    /\ cur' = cur + 1
    /\ pc' = IF cur = N THEN "validate" ELSE "begin"
    /\ UNCHANGED <<tree, jstate, archive, prior, mode, failed, reply>>

\* hooks.Validate verifies the restored project.
Validate ==
    /\ pc = "validate"
    /\ pc' = "commit"
    /\ UNCHANGED <<tree, jstate, records, archive, prior, cur, mode, failed, reply>>

Commit ==
    /\ pc = "commit"
    /\ jstate' = "committed"
    /\ pc' = "cleanup"
    /\ reply' = "ok"
    /\ UNCHANGED <<tree, records, archive, prior, cur, mode, failed>>

---------------------------------------------------------------------------
(* fail(): the journal is closed, read again and recovered from.            *)

Fail ==
    /\ pc' = "loading"
    /\ reply' = "error"
    /\ UNCHANGED <<prior, cur, mode>>

\* Staging or a validation fails, or the caller cancels: no fault of the disk.
OperationFails ==
    /\ \/ pc = "staging" /\ stage' \in SUBSET Ops
       \/ pc = "validate" /\ UNCHANGED stage
    /\ Fail
    /\ UNCHANGED <<files, dirs, saved, jstate, records, archive, failed>>

\* A directory cannot be made, or a rename (or its fsync) fails.  What a failed
\* fsync leaves is the state one step on, where AppendFails starts.
MoveFails ==
    /\ pc \in {"mkdir", "backup", "promote"}
    /\ failed' = TRUE
    /\ Fail
    /\ UNCHANGED <<tree, jstate, records, archive>>

\* A record is not written, cut short, or written and not synced.
AppendFails ==
    /\ \/ /\ pc \in {"begin", "recordbackup", "recordpromote", "commit"}
          /\ jstate' \in {"open", "torn"}
          /\ UNCHANGED records
       \/ /\ pc = "begin" /\ RecordBegin
          /\ UNCHANGED jstate
       \/ /\ pc = "recordbackup" /\ RecordBackedUp
          /\ UNCHANGED jstate
       \/ /\ pc = "recordpromote" /\ RecordPromoted
          /\ UNCHANGED jstate
       \/ /\ pc = "commit" /\ jstate' = "committed"
          /\ UNCHANGED records
    /\ failed' = TRUE
    /\ Fail
    /\ UNCHANGED <<tree, archive>>

---------------------------------------------------------------------------
(* The process is killed, or the host stops.                                *)

Die ==
    /\ pc # "idle"
    /\ pc' = "idle"
    /\ cur' = 0
    /\ mode' = "recover"
    /\ failed' = FALSE
    /\ reply' = "none"
    /\ UNCHANGED <<tree, records, archive, prior>>

Kill == Die /\ UNCHANGED jstate

\* The record being written is cut short.
HostStop ==
    /\ pc \in {"begin", "recordbackup", "recordpromote", "commit"}
    /\ jstate' = "torn"
    /\ Die

---------------------------------------------------------------------------

Recovery ==
    \/ LoadNothing
    \/ LoadTorn
    \/ LoadOpen
    \/ LoadCommitted
    \/ RollbackRefused
    \/ RollbackRemoveTarget
    \/ RollbackMoveBack
    \/ RollbackInPlace
    \/ RollbackDirectory
    \/ RollbackDone
    \/ CleanupFile
    \/ CleanupDone
    \/ RemoveJournal

Restore ==
    \/ CreateJournal
    \/ WriteHeader
    \/ Stage
    \/ Begin
    \/ MakeDirectory
    \/ BackUp
    \/ AppendBackedUp
    \/ Promote
    \/ AppendPromoted
    \/ Validate
    \/ Commit

\* What a process does next when nothing goes wrong.
Step == Recovery \/ Restore \/ EndCommand

IOError ==
    \/ LoadFails
    \/ RollbackFails
    \/ CleanupFails
    \/ WriteHeaderFails
    \/ MoveFails
    \/ AppendFails

Next == Start \/ Step \/ OperationFails \/ IOError \/ Kill \/ HostStop

Spec == Init /\ [][Next]_vars

\* A running process takes its next step, and a restore or the daemon is started
\* again some day.
FairSpec == Spec /\ WF_vars(Step) /\ WF_vars(Start)

\* Nothing goes wrong except that the process is killed ...
KillSpec == Init /\ [][Start \/ Step \/ Kill]_vars

\* ... or that the host stops while a record is written.
HostStopSpec == Init /\ [][Start \/ Step \/ HostStop]_vars

---------------------------------------------------------------------------
(* Properties *)

\* Until the commit record is written, each original file exists somewhere: at
\* its target or in the rollback area.
OriginalsSurvive ==
    jstate \in {"torn", "open"} =>
        \A i \in Ops : prior.files[i] # Absent => prior.files[i] \in {files[i], saved[i]}

\* A recovery that no file system error stops, stops only at a torn journal or at
\* an operation that an earlier, interrupted recovery has undone already: never
\* at one that would still need it.
RefusedWhereUndone ==
    reply = "refused" /\ ~failed /\ jstate = "open" =>
        files[cur] = prior.files[cur] /\ saved[cur] = Absent

\* The operations the journal still has to undo.
Remaining ==
    CASE pc = "rollback" -> 1..cur
      [] pc = "undir" -> 1..(cur - 1)
      [] pc \in {"cleanup", "unjournal"} -> {}
      [] OTHER -> 1..begun

\* What every recovery from here on refuses, whatever the files hold.
Stuck ==
    \/ jstate = "torn" /\ pc # "header"
    \/ jstate = "open" /\ \E i \in Remaining : Unrollable(i)

\* The managed files an operator has, as an undisturbed recovery would leave them.
Effective == IF jstate \in {"torn", "open"} /\ ~Stuck THEN prior ELSE Current

Requested ==
    IF pc \in {"begin", "mkdir", "backup", "recordbackup", "promote", "recordpromote",
              "validate", "commit"}
    THEN [files |-> archive, dirs |-> prior.dirs \cup ({DirOf[i] : i \in Ops} \ {TopDir})]
    ELSE Absent

Promise == INSTANCE InterruptibleInstall WITH
    Projects <- Projects,
    NoRequest <- Absent,
    value <- Effective,
    request <- Requested,
    reply <- IF reply = "refused" THEN "error" ELSE reply,
    stuck <- Stuck

\* A restore replaces the complete managed set, or nothing of it, unless recovery
\* gets stuck; a stuck one changes no file again, and never reports success.
ImplementsInterruptibleInstall == Promise!InterruptibleSpec

\* What makes a restore unrecoverable is a record that is cut short, or an undo or
\* a cleanup that does not run to its end: a restore that is killed or fails while
\* it stages, promotes or validates can be undone.
StuckOnlyInUndo ==
    [][~Stuck /\ Stuck' =>
         jstate' = "torn" \/ pc \in {"rollback", "undir", "cleanup", "unjournal"}]_vars

\* Once faults stop, a leftover journal is dealt with or refused.
LeftoverIsResolved ==
    <>[][~(Kill \/ HostStop \/ IOError \/ OperationFails)]_vars
        => [](jstate # "none" => <>(jstate = "none" \/ reply = "refused"))

\* docs/backup-restore.md:172-176 "A normal failure, cancellation, or
\* restored-project verification error rolls back the complete managed set. If the
\* process or host stops mid-restore, the next restore recovers the interrupted
\* transaction": a process that has given up its recovery has not left a mixture.
RefusalLeavesPrior ==
    reply = "refused" /\ jstate \in {"torn", "open"} => files = prior.files
=============================================================================
