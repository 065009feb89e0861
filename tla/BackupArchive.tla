---------------------------- MODULE BackupArchive ----------------------------
(***************************************************************************)
(* Encrypted archives: `sdbx backup`, `backup restore` and `backup delete`, *)
(* while applications go on writing under configs/ and another process      *)
(* regenerates the project.                                                 *)
(*                                                                         *)
(* A creation walks the managed roots twice, to learn what it will omit and *)
(* to archive the rest, and gives the archive its name last.  A restore     *)
(* compares the archived intent and lock with the verified target, and      *)
(* leaves both, and every generated file, as they are.  One operation of    *)
(* its journal is one step here, and so is a recovery: RestoreTransaction   *)
(* has their parts.  One command creates or restores at a time.             *)
(***************************************************************************)
EXTENDS Naturals

CONSTANTS Nodes,        \* what applications keep under configs/ and secrets/
          Contents,     \* what a regular file may hold
          Refused,      \* contents of files whose mode or name a restore refuses
          Names,        \* of archives
          Link,         \* a relative link to a file of its root, or a socket
          Absent,
          Torn,         \* read while it was overwritten
          None,
          MaxGenerations,
          MaxChanges,   \* by applications
          MaxFaults     \* failures, interrupts and kills

Files == Contents \cup {Torn}
Values == Files \cup {Link, Absent}
Generations == 0..MaxGenerations
Controls == [intent : Generations, lock : Generations, generated : Generations]

\* What an archive holds of each node; None: nothing.
Archived == [Nodes -> Files \cup {None}]
Archives == [control : Controls, files : Archived, omissions : SUBSET Nodes]

\* undo: the original of a file that was replaced; None: it was not replaced.
\* written: replaced files that an application has written since.  stuck:
\* a recovery was stopped.
Journals ==
    [files : Archived, undo : [Nodes -> Values \cup {None}], written : SUBSET Nodes,
     committed : BOOLEAN, stuck : BOOLEAN]

ASSUME Kinds ==
    /\ Refused \subseteq Contents
    /\ Link \notin {Absent, Torn, None} /\ Absent \notin {Torn, None} /\ Torn # None
    /\ {Link, Absent, Torn, None} \cap Contents = {}
    /\ None \notin Journals
    /\ {MaxGenerations, MaxChanges, MaxFaults} \subseteq Nat

VARIABLES
    control,   \* .sdbx.yaml, .sdbx.lock and the generated files on disk
    node,      \* the files of the applications
    archive,   \* the archives that have a name
    journal,   \* of the restore that is going on or was interrupted
    cmd,
    had,       \* history: the values of each node since a creation began
    kept,      \* history: the nodes as applications and whole restores left them
    changes,
    faults

vars == <<control, node, archive, journal, cmd, had, kept, changes, faults>>
disk == <<control, node, archive, journal>>
bounds == <<changes, faults>>

Points == {"idle", "inspect", "intent", "lock", "generated", "list", "walk", "copy",
           "close", "link", "unlink", "verify", "recover", "open", "stage", "promote",
           "validate", "commit", "rollback", "clean"}

NothingOf == [x \in Nodes |-> None]
FirstControl == [intent |-> 0, lock |-> 0, generated |-> 0]
Resting ==
    [at |-> "idle", name |-> None, target |-> FirstControl, todo |-> {}, expected |-> {},
     consumed |-> {}, read |-> None, value |-> None, dirty |-> "no",
     made |-> [control |-> FirstControl, files |-> NothingOf, omissions |-> {}]]

Opened(files) ==
    [files |-> files, undo |-> NothingOf, written |-> {}, committed |-> FALSE,
     stuck |-> FALSE]

Init ==
    /\ control = FirstControl
    /\ node \in [Nodes -> Contents \cup {Link, Absent}]
    /\ archive = [n \in Names |-> None]
    /\ journal = None
    /\ cmd = Resting
    /\ had = [x \in Nodes |-> {}]
    /\ kept = node
    /\ changes = 0 /\ faults = 0

Commands ==
    [at : Points, name : Names \cup {None}, target : Controls, todo : SUBSET Nodes,
     expected : SUBSET Nodes, consumed : SUBSET Nodes, read : Nodes \cup {None},
     value : Files \cup {None}, dirty : {"no", "same", "size"}, made : Archives]

TypeOK ==
    /\ control \in Controls
    /\ node \in [Nodes -> Values]
    /\ archive \in [Names -> Archives \cup {None}]
    /\ journal \in Journals \cup {None}
    /\ cmd \in Commands
    /\ had \in [Nodes -> SUBSET Values]
    /\ kept \in [Nodes -> Values]
    /\ changes \in 0..MaxChanges
    /\ faults \in 0..MaxFaults

-----------------------------------------------------------------------------
(* Helpers.                                                                  *)

At(point) == cmd.at = point
Goes(state) == cmd' = state
Goto(point) == Goes([cmd EXCEPT !.at = point])

\* The command returns; its temporary file is removed with it.
Returns ==
    /\ Goes(Resting)
    /\ had' = [x \in Nodes |-> {}]

\* A read or a write fails, or the command is interrupted.
Fault == faults < MaxFaults /\ faults' = faults + 1

\* VerifyGeneratedRuntime: intent, lock and generated files agree.
VerifyGeneratedRuntime ==
    control.intent = control.lock /\ control.generated = control.lock

-----------------------------------------------------------------------------
(* Creating.                                                                 *)

Creating == cmd.at \in {"inspect", "intent", "lock", "generated", "list", "walk", "copy",
                        "close", "link"}

runBackupCreate(n) ==
    /\ At("idle")
    /\ VerifyGeneratedRuntime
    /\ Goes([Resting EXCEPT !.at = "inspect", !.name = n, !.todo = Nodes])
    /\ had' = [x \in Nodes |-> {node[x]}]
    /\ UNCHANGED <<disk, kept, bounds>>

\* The first walk learns what is no regular file.
inspectBackupSources ==
    /\ At("inspect")
    /\ IF cmd.todo = {} THEN Goto("intent")
       ELSE \E x \in cmd.todo :
              Goes([cmd EXCEPT
                         !.todo = @ \ {x},
                         !.expected = IF node[x] = Link THEN @ \cup {x} ELSE @])
    /\ UNCHANGED <<disk, had, kept, bounds>>

\* The files of the project come first, one after the other.
addToArchive ==
    /\ \E file \in {"intent", "lock", "generated"} :
         /\ At(file)
         /\ Goes([cmd EXCEPT
                       !.made.control[file] = control[file],
                       !.at = CASE file = "intent" -> "lock"
                                [] file = "lock" -> "generated"
                                [] file = "generated" -> "list"])
    /\ UNCHANGED <<disk, had, kept, bounds>>

\* The names of a directory are read, and then each of them is looked at.
Readdir ==
    /\ At("list")
    /\ Goes([cmd EXCEPT !.at = "walk", !.todo = {x \in Nodes : node[x] # Absent}])
    /\ UNCHANGED <<disk, had, kept, bounds>>

walkBackupRoot ==
    /\ At("walk")
    /\ IF cmd.todo = {} THEN Goto("close") /\ UNCHANGED had
       ELSE \E x \in cmd.todo :
              \/ node[x] = Absent /\ Returns
              \/ node[x] = Link /\ x \notin cmd.expected /\ Returns
              \/ /\ node[x] = Link /\ x \in cmd.expected
                 /\ Goes([cmd EXCEPT !.todo = @ \ {x}, !.consumed = @ \cup {x}])
                 /\ UNCHANGED had
              \/ /\ node[x] \in Files
                 /\ Goes([cmd EXCEPT !.todo = @ \ {x}, !.at = "copy",
                                     !.read = x, !.value = node[x]])
                 /\ UNCHANGED had
    /\ UNCHANGED <<disk, kept, bounds>>

\* A file whose size changed while it was copied is refused; one that was
\* overwritten with as many bytes is not noticed.
writeOpenFileToArchive ==
    /\ At("copy")
    /\ IF cmd.dirty = "size" THEN Returns
       ELSE LET taken == IF cmd.dirty = "same" THEN Torn ELSE cmd.value IN
            /\ Goes([cmd EXCEPT !.at = "walk", !.made.files[cmd.read] = taken,
                                !.read = None, !.value = None, !.dirty = "no"])
            /\ UNCHANGED had
    /\ UNCHANGED <<disk, kept, bounds>>

\* Mutant: what was expected and not met is not asked for.
CloseUncounted ==
    /\ At("close")
    /\ Goes([cmd EXCEPT !.at = "link", !.made.omissions = cmd.expected])
    /\ UNCHANGED <<disk, had, kept, bounds>>

\* Everything that was to be omitted has been met again.
closeWriters ==
    /\ At("close")
    /\ IF cmd.consumed = cmd.expected
       THEN /\ Goes([cmd EXCEPT !.at = "link", !.made.omissions = cmd.expected])
            /\ UNCHANGED had
       ELSE Returns
    /\ UNCHANGED <<disk, kept, bounds>>

\* The name, which no archive may have; then the temporary name goes.  If it
\* does not, the archive goes, and a failed sync leaves it.
LinkArchive ==
    /\ At("link")
    /\ IF archive[cmd.name] = None
       THEN /\ archive' = [archive EXCEPT ![cmd.name] = cmd.made]
            /\ Goto("unlink") /\ UNCHANGED had
       ELSE Returns /\ UNCHANGED archive
    /\ UNCHANGED <<control, node, journal, kept, bounds>>

RemoveTemp ==
    /\ At("unlink")
    /\ Returns
    /\ \/ UNCHANGED <<archive, faults>>
       \/ Fault /\ archive' \in {archive, [archive EXCEPT ![cmd.name] = None]}
    /\ UNCHANGED <<control, node, journal, kept, changes>>

Delete(n) ==
    /\ archive[n] # None
    /\ archive' = [archive EXCEPT ![n] = None]
    /\ UNCHANGED <<control, node, journal, cmd, had, kept, bounds>>

-----------------------------------------------------------------------------
(* Restoring.                                                                *)

runBackupRestore(n) ==
    /\ At("idle")
    /\ Goes([Resting EXCEPT !.at = "verify", !.name = n])
    /\ UNCHANGED <<disk, had, kept, bounds>>

\* The target is verified before anything else is done.
RestoreHooks ==
    /\ At("verify")
    /\ IF VerifyGeneratedRuntime
       THEN Goes([cmd EXCEPT !.at = "recover", !.target = control]) /\ UNCHANGED had
       ELSE Returns
    /\ UNCHANGED <<disk, kept, bounds>>

\* What an application wrote over a restored file is lost when it is undone.
Undo(S) ==
    /\ node' = [x \in Nodes |-> IF x \in S THEN journal.undo[x] ELSE node[x]]
    /\ kept' = [x \in Nodes |-> IF x \in S \cap journal.written THEN journal.undo[x] ELSE kept[x]]

Done == {x \in Nodes : journal.undo[x] # None}

\* A restored file that has become a link is not removed.
Removable == \A x \in Done : node[x] # Link

\* Mutant: the journal is removed and the originals stay where they are.
DropJournal ==
    /\ journal' = None
    /\ UNCHANGED <<node, kept, faults>>

\* recoverRestoreTransaction, when it succeeds: the originals are put back
\* unless the restore was committed, and the journal is removed.
Recovers ==
    /\ journal.committed \/ (Removable /\ ~journal.stuck)
    /\ journal' = None
    /\ IF journal.committed THEN UNCHANGED <<node, kept>> ELSE Undo(Done)
    /\ UNCHANGED faults

\* When it stops half-way, or is killed there, what is undone already cannot
\* be undone again, unless it had no original.
RecoveryStops ==
    /\ IF ~journal.committed /\ (~Removable \/ journal.stuck) THEN UNCHANGED faults ELSE Fault
    /\ IF journal.committed \/ journal.stuck
       THEN UNCHANGED <<node, kept, journal>>
       ELSE \E S \in SUBSET {x \in Done : node[x] # Link} :
              /\ Undo(S)
              /\ journal' = [journal EXCEPT
                               !.undo = [x \in Nodes |-> IF x \in S THEN None ELSE @[x]],
                               !.written = @ \ S,
                               !.stuck = \E x \in S : journal.undo[x] # Absent]

\* An interrupted restore is undone before the archive is looked for.
recoverRestoreTransaction ==
    /\ At("recover")
    /\ IF journal = None
       THEN Goto("open") /\ UNCHANGED <<node, journal, had, kept, faults>>
       ELSE \/ Goto("open") /\ Recovers /\ UNCHANGED had
            \/ Returns /\ RecoveryStops
    /\ UNCHANGED <<control, archive, changes>>

\* The daemon does the same when it starts.
RecoverInterruptedRestore ==
    /\ At("idle")
    /\ journal # None
    /\ Recovers \/ RecoveryStops
    /\ UNCHANGED <<control, archive, cmd, had, changes>>

\* The archive is opened once, decoded whole, and refused for a single entry.
validateArchive ==
    LET found == archive[cmd.name] IN
    /\ At("open")
    /\ IF found # None /\ \A x \in Nodes : found.files[x] \notin Refused
       THEN Goes([cmd EXCEPT !.at = "stage", !.made = found]) /\ UNCHANGED had
       ELSE Returns
    /\ UNCHANGED <<disk, kept, bounds>>

\* Mutant: a generated file is restored with the others.
RestoreGenerated(at) == [at EXCEPT !.generated = cmd.made.control.generated]

\* shouldSkip: the generated files below configs/, like the project's own,
\* stay those of the target.
KeepGenerated(at) == at

\* Mutant: only the lock is compared.
SameLock(made) == made.control.lock = cmd.target.lock

\* verifyProject, of the staged files.
validateArchivedProject(made) ==
    /\ made.control.intent = cmd.target.intent
    /\ made.control.lock = cmd.target.lock

\* The journal is created, the entries are staged, and the archived intent
\* and lock are compared with the target's.
stageRestoreArchive ==
    LET made == cmd.made IN
    /\ At("stage")
    /\ journal' = Opened(made.files)
    /\ Goes([cmd EXCEPT
                     !.at = IF validateArchivedProject(made) THEN "promote" ELSE "rollback",
                     !.todo = {x \in Nodes : made.files[x] # None}])
    /\ UNCHANGED <<control, node, archive, had, kept, bounds>>

\* One file after the other; one that has become a link is refused.
promoteStagedRestoreFile ==
    /\ At("promote")
    /\ control' = KeepGenerated(control)
    /\ IF cmd.todo = {}
       THEN Goto("validate") /\ UNCHANGED <<node, journal>>
       ELSE \E x \in cmd.todo :
              IF node[x] = Link
              THEN Goto("rollback") /\ UNCHANGED <<node, journal>>
              ELSE /\ Goes([cmd EXCEPT !.todo = @ \ {x}])
                   /\ journal' = [journal EXCEPT !.undo[x] = node[x]]
                   /\ node' = [node EXCEPT ![x] = journal.files[x]]
    /\ UNCHANGED <<archive, had, kept, bounds>>

\* The project that is there now is verified once more.
ValidateRestored ==
    /\ At("validate")
    /\ Goto(IF VerifyGeneratedRuntime THEN "commit" ELSE "rollback")
    /\ UNCHANGED <<disk, had, kept, bounds>>

Commit ==
    /\ At("commit")
    /\ journal' = [journal EXCEPT !.committed = TRUE]
    /\ kept' = [x \in Nodes |-> IF x \in Done \ journal.written
                                THEN journal.files[x] ELSE kept[x]]
    /\ Goto("clean")
    /\ UNCHANGED <<control, node, archive, had, bounds>>

RestoreFails ==
    /\ \/ At("stage") /\ journal' = Opened(cmd.made.files)
       \/ (At("promote") \/ At("validate") \/ At("commit"))
          /\ UNCHANGED journal
    /\ Fault
    /\ Goto("rollback")
    /\ UNCHANGED <<control, node, archive, had, kept, changes>>

Rollback ==
    /\ At("rollback")
    /\ Returns
    /\ Recovers \/ RecoveryStops
    /\ UNCHANGED <<control, archive, changes>>

removeRestoreJournal ==
    /\ At("clean")
    /\ Returns
    /\ \/ journal' = None /\ UNCHANGED faults
       \/ Fault /\ UNCHANGED journal
    /\ UNCHANGED <<control, node, archive, kept, changes>>

-----------------------------------------------------------------------------
(* What goes on around a command.                                            *)

Changes == changes < MaxChanges /\ changes' = changes + 1

\* The project is regenerated by another process, whole: ProjectTransaction.
Regenerate(g) ==
    /\ Changes
    /\ g # control.intent
    /\ control' = [intent |-> g, lock |-> g, generated |-> g]
    /\ UNCHANGED <<node, archive, journal, cmd, had, kept, faults>>

\* An application replaces or removes what it keeps ...
Writes(x, v) ==
    /\ Changes
    /\ v # node[x]
    /\ node' = [node EXCEPT ![x] = v]
    /\ kept' = [kept EXCEPT ![x] = v]
    /\ journal' = IF journal # None /\ journal.undo[x] # None
                  THEN [journal EXCEPT !.written = @ \cup {x}] ELSE journal
    /\ had' = IF Creating THEN [had EXCEPT ![x] = @ \cup {v}] ELSE had
    /\ UNCHANGED <<control, archive, faults>>

Replace(x) == \E v \in Contents \cup {Link, Absent} : Writes(x, v) /\ UNCHANGED cmd

\* ... or overwrites it in place, while somebody may be reading it.
Overwrite(x) ==
    \E v \in Contents, size \in {"same", "size"} :
        /\ node[x] \in Files
        /\ Writes(x, v)
        /\ cmd' = IF cmd.read = x /\ cmd.dirty # "size"
                  THEN [cmd EXCEPT !.dirty = size] ELSE cmd

CreateFails ==
    /\ Creating
    /\ Fault
    /\ Returns
    /\ UNCHANGED <<disk, kept, changes>>

\* A kill leaves a restore's journal, and of a creation only a temporary name,
\* which no list shows.
Crash ==
    /\ ~At("idle")
    /\ Fault
    /\ Returns
    /\ UNCHANGED <<disk, kept, changes>>

-----------------------------------------------------------------------------

CreateStep ==
    \/ inspectBackupSources \/ addToArchive \/ Readdir \/ walkBackupRoot
    \/ writeOpenFileToArchive \/ closeWriters \/ LinkArchive \/ RemoveTemp

RestoreStep ==
    \/ RestoreHooks \/ recoverRestoreTransaction \/ validateArchive \/ stageRestoreArchive
    \/ promoteStagedRestoreFile \/ ValidateRestored \/ Commit \/ RestoreFails
    \/ Rollback \/ removeRestoreJournal

Next ==
    \/ CreateStep \/ CreateFails \/ RestoreStep \/ Crash
    \/ \E n \in Names : runBackupCreate(n) \/ runBackupRestore(n) \/ Delete(n)
    \/ RecoverInterruptedRestore
    \/ \E g \in Generations : Regenerate(g)
    \/ \E x \in Nodes : Replace(x) \/ Overwrite(x)

\* A command goes on until it returns, and the operator restores again after
\* a restore that was interrupted.
Spec ==
    /\ Init /\ [][Next]_vars
    /\ WF_vars(RestoreStep)
    /\ WF_vars(CreateStep)
    /\ SF_vars(\E n \in Names : runBackupRestore(n))

-----------------------------------------------------------------------------
(* Properties.                                                               *)

\* What an archive says is so: each file in it was there with that content
\* while the archive was made, what its metadata calls omitted was a link or
\* a socket then, and is not in it as well, and what is neither was absent at
\* some moment, however often applications replaced, removed and created
\* files between the two walks.  A file overwritten in place with as many
\* bytes may be torn (internal/backup/backup.go:293-352, 546-679, 754-969).
ArchiveAccountsForAll ==
    At("link") =>
        LET made == cmd.made IN
        \A x \in Nodes :
            CASE made.files[x] # None -> made.files[x] \in had[x] \cup {Torn}
                                         /\ x \notin made.omissions
              [] x \in made.omissions -> Link \in had[x]
              [] OTHER -> Absent \in had[x]

\* Outside a restore, and after an interrupted one is recovered, every file is
\* what an application or a whole restore last made of it, whatever failed or
\* was killed before (internal/backup/backup.go:1048-1110,
\* transaction.go:99-217, 981-1031).
NothingHalfRestored == journal = None \/ journal.committed => node = kept

\* An archive whose intent and lock were read on two sides of a regeneration
\* is never promoted (internal/recovery/restore.go:131-180).
OneGenerationRestored ==
    cmd.at \in {"promote", "validate", "commit"} =>
        cmd.made.control.intent = cmd.made.control.lock

\* An interrupted restore is undone by the next one, which verifies its
\* target first: what a restore leaves behind never keeps it from that.
\* Excepted is a recovery that was itself stopped, or that meets a link where
\* the restore had put a file (internal/recovery/restore.go:27-85,
\* internal/backup/transaction.go:394-406).
InterruptedRestoreIsUndone ==
    journal # None ~> journal = None \/ journal.stuck \/ ~Removable
=============================================================================
