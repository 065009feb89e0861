------------------------- MODULE ProjectTransaction -------------------------
(***************************************************************************)
(* The project transaction of src/internal/generator/transaction.go:       *)
(* GenerateProjectTransactional stages a complete project, backs up every  *)
(* destination it will touch, writes a manifest (the journal) and promotes *)
(* the entries one by one.  An error rolls the destinations back; after a   *)
(* crash the next command recovers them from the journal.                  *)
(*                                                                         *)
(* One command runs at a time here.  Between any two steps the process may *)
(* die (Crash), and every step that touches the file system may report an  *)
(* I/O error (the actions named ...Fails).  The contents of a file and the *)
(* mode of a directory are both an element of Content.  Entries are        *)
(* numbered in the order of manifest.Entries: directories before files,    *)
(* a directory before what it contains (prepareTransactionEntries).        *)
(***************************************************************************)
EXTENDS Integers, FiniteSets

CONSTANTS
    N,         \* number of manifest entries
    Dirs,      \* the entries that are directories; the others are files
    Parent,    \* the directory entry that holds an entry; 0 when its parent
               \* is not an entry (the project root, or an external root's parent)
    Content,   \* what a file can contain, or the mode a directory can have
    Absent     \* nothing exists at a target

Entries == 1..N
Files == Entries \ Dirs
Value == Content \cup {Absent}

ASSUME ProjectAssumption ==
    /\ N \in Nat \ {0}
    /\ Dirs \subseteq Entries
    /\ Parent \in [Entries -> Dirs \cup {0}]
    /\ \A i \in Entries : Parent[i] < i
    /\ Content # {}
    /\ Absent \notin Content
    /\ Absent \notin [Entries -> Value]

VARIABLES
    disk,      \* what each destination holds
    litter,    \* the directories (0: outside every entry) that hold a
               \* temporary file a crash left behind
    jdir,      \* .sdbx-init-transaction exists
    manifest,  \* its manifest.json: "none" when there is none, or its state
    desired,   \* the staged value of each entry
    orig,      \* the value recorded for each entry before promotion
    backups,   \* the entries whose backup file is in the journal
    pc,        \* where the running command is; "idle" when none runs
    pos,       \* the entry that promotion or rollback handles next
    errs,      \* the kinds of error rollbackTransaction has collected
    mode,      \* who rolls back or removes the journal: "recover", "install"
    reply      \* the last command's answer

journal == <<jdir, manifest, desired, orig, backups>>
vars == <<disk, litter, journal, pc, pos, errs, mode, reply>>

Blank == [i \in Entries |-> Absent]
Existed == {i \in Entries : orig[i] # Absent}

Steps == {"idle", "recovering", "ready", "staging", "staged", "prepared",
          "applying", "owning", "committing", "rollback", "removing"}

\* The journal, the destinations and the command are in states the generator knows: a
\* temporary file is beside a target, never in one, and only files have backups.
TypeOK ==
    /\ disk \in [Entries -> Value]
    /\ litter \subseteq Dirs \cup {0}
    /\ jdir \in BOOLEAN
    /\ manifest \in {"none", "prepared", "promoting", "committed"}
    /\ desired \in [Entries -> Value]
    /\ orig \in [Entries -> Value]
    /\ backups \subseteq Files
    /\ pc \in Steps
    /\ pos \in 0..(N + 1)
    /\ errs \subseteq {"io", "backup", "notempty"}
    /\ mode \in {"recover", "install"}
    /\ reply \in {"none", "ok", "error", "refused"}

\* A tree: nothing exists below a directory that does not.
Tree(d) == \A i \in Entries : Parent[i] # 0 /\ d[Parent[i]] = Absent => d[i] = Absent

Init ==
    /\ disk \in [Entries -> Value] /\ Tree(disk)
    /\ litter = {}
    /\ jdir = FALSE
    /\ manifest = "none"
    /\ desired = Blank
    /\ orig = Blank
    /\ backups = {}
    /\ pc = "idle"
    /\ pos = 0
    /\ errs = {}
    /\ mode = "recover"
    /\ reply = "none"

---------------------------------------------------------------------------
(* A command starts: prepareCommand and newProjectContext recover an       *)
(* interrupted transaction before anything of the project is read.         *)

Start ==
    /\ pc = "idle"
    /\ pc' = "recovering"
    /\ mode' = "recover"
    /\ errs' = {}
    /\ reply' = "none"
    /\ UNCHANGED <<disk, litter, journal, pos>>

RecoverNothing ==
    /\ pc = "recovering"
    /\ ~jdir
    /\ pc' = "ready"
    /\ UNCHANGED <<disk, litter, journal, pos, errs, mode, reply>>

\* Mutated form: a journal that has no manifest yet is not handled.
RecoverCommittedOnly ==
    /\ pc = "recovering"
    /\ jdir
    /\ manifest = "committed"
    /\ pc' = "removing"
    /\ UNCHANGED <<disk, litter, journal, pos, errs, mode, reply>>

\* Without a manifest nothing was promoted; a committed one needs cleanup only.
RecoverByRemoving ==
    /\ pc = "recovering"
    /\ jdir
    /\ manifest \in {"none", "committed"}
    /\ pc' = "removing"
    /\ UNCHANGED <<disk, litter, journal, pos, errs, mode, reply>>

RecoverByRollback ==
    /\ pc = "recovering"
    /\ jdir
    /\ manifest \in {"prepared", "promoting"}
    /\ pc' = "rollback"
    /\ pos' = N
    /\ UNCHANGED <<disk, litter, journal, errs, mode, reply>>

\* The journal cannot be inspected, read, parsed or validated.
RecoverReadFails ==
    /\ pc = "recovering"
    /\ jdir
    /\ pc' = "idle"
    /\ errs' = {"io"}
    /\ reply' = "refused"
    /\ UNCHANGED <<disk, litter, journal, pos, mode>>

---------------------------------------------------------------------------
(* rollbackTransaction handles the entries in reverse order, and goes on    *)
(* after an error.                                                          *)

\* What keeps os.Remove from removing directory entry i.
Holds(i) == i \in litter \/ \E j \in Entries : Parent[j] = i /\ disk[j] # Absent

\* An existing file whose backup is gone fails its digest check and is left
\* alone; a directory that did not exist is removed only when it is empty.
RollbackError(i) ==
    IF i \in Files
    THEN IF i \in Existed /\ i \notin backups THEN {"backup"} ELSE {}
    ELSE IF i \notin Existed /\ disk[i] # Absent /\ Holds(i) THEN {"notempty"} ELSE {}

\* Mutated form: files that did not exist before are left in place.
RollbackExistedOnly ==
    /\ pc = "rollback"
    /\ pos > 0
    /\ errs' = errs \cup RollbackError(pos)
    /\ disk' = IF RollbackError(pos) = {} /\ ~(pos \in Files \ Existed)
               THEN [disk EXCEPT ![pos] = orig[pos]]
               ELSE disk
    /\ pos' = pos - 1
    /\ UNCHANGED <<litter, journal, pc, mode, reply>>

RollbackEntry ==
    /\ pc = "rollback"
    /\ pos > 0
    /\ errs' = errs \cup RollbackError(pos)
    /\ disk' = IF RollbackError(pos) = {}
               THEN [disk EXCEPT ![pos] = orig[pos]]
               ELSE disk
    /\ pos' = pos - 1
    /\ UNCHANGED <<litter, journal, pc, mode, reply>>

\* The entry's read, write, chmod or removal reports an error.  A write that
\* fails after its rename (the parent's fsync) has restored the file.
RollbackEntryFails ==
    /\ pc = "rollback"
    /\ pos > 0
    /\ RollbackError(pos) = {}
    /\ errs' = errs \cup {"io"}
    /\ disk' \in {disk, [disk EXCEPT ![pos] = orig[pos]]}
    /\ pos' = pos - 1
    /\ UNCHANGED <<litter, journal, pc, mode, reply>>

\* Mutated form: the collected errors are logged and the journal removed.
RollbackDoneAnyway ==
    /\ pc = "rollback"
    /\ pos = 0
    /\ pc' = "removing"
    /\ UNCHANGED <<disk, litter, journal, pos, errs, mode, reply>>

RollbackDone ==
    /\ pc = "rollback"
    /\ pos = 0
    /\ errs = {}
    /\ pc' = "removing"
    /\ UNCHANGED <<disk, litter, journal, pos, errs, mode, reply>>

\* The journal stays for another attempt.
RollbackIncomplete ==
    /\ pc = "rollback"
    /\ pos = 0
    /\ errs # {}
    /\ pc' = "idle"
    /\ reply' = IF mode = "recover" THEN "refused" ELSE reply
    /\ UNCHANGED <<disk, litter, journal, pos, errs, mode>>

---------------------------------------------------------------------------
(* removeTransactionDir: os.RemoveAll deletes what the directory holds in   *)
(* the order the file system lists it, then the directory.  (One backup    *)
(* more or less before the manifest is the only freedom added.)             *)

RemoveBackup ==
    /\ pc = "removing"
    /\ \E i \in backups : backups' = backups \ {i}
    /\ UNCHANGED <<disk, litter, jdir, manifest, desired, orig,
                   pc, pos, errs, mode, reply>>

RemoveManifest ==
    /\ pc = "removing"
    /\ manifest # "none"
    /\ manifest' = "none"
    /\ UNCHANGED <<disk, litter, jdir, desired, orig, backups,
                   pc, pos, errs, mode, reply>>

RemoveDir ==
    /\ pc = "removing"
    /\ manifest = "none"
    /\ backups = {}
    /\ jdir' = FALSE
    /\ desired' = Blank
    /\ orig' = Blank
    /\ pc' = IF mode = "recover" THEN "ready" ELSE "idle"
    /\ UNCHANGED <<disk, litter, manifest, backups, pos, errs, mode, reply>>

\* Recovery reports the error; the deferred cleanup of a generation ignores it.
RemoveFails ==
    /\ pc = "removing"
    /\ pc' = "idle"
    /\ IF mode = "recover"
       THEN reply' = "refused" /\ errs' = {"io"}
       ELSE UNCHANGED <<reply, errs>>
    /\ UNCHANGED <<disk, litter, journal, pos, mode>>

---------------------------------------------------------------------------
(* GenerateProjectTransactional, after its own call of recovery found      *)
(* nothing more to do.                                                      *)

\* The command only read the project.
EndCommand ==
    /\ pc = "ready"
    /\ pc' = "idle"
    /\ UNCHANGED <<disk, litter, journal, pos, errs, mode, reply>>

MakeJournal ==
    /\ pc = "ready"
    /\ jdir' = TRUE
    /\ pc' = "staging"
    /\ mode' = "install"
    /\ UNCHANGED <<disk, litter, manifest, desired, orig, backups, pos, errs, reply>>

\* Mutated form: the destinations are recorded, their files are not copied.
StageUncopied ==
    /\ pc = "staging"
    /\ desired' \in [Entries -> Content]
    /\ orig' = disk
    /\ backups' = {}
    /\ pc' = "staged"
    /\ UNCHANGED <<disk, litter, jdir, manifest, pos, errs, mode, reply>>

\* The stage is seeded, generated and validated; then every destination that
\* exists is recorded and every file among them copied under rollback/.  No
\* destination is touched and there is no manifest: one step.
Stage ==
    /\ pc = "staging"
    /\ desired' \in [Entries -> Content]
    /\ orig' = disk
    /\ backups' = {i \in Files : disk[i] # Absent}
    /\ pc' = "staged"
    /\ UNCHANGED <<disk, litter, jdir, manifest, pos, errs, mode, reply>>

StageFails ==
    /\ pc = "staging"
    /\ pc' = "removing"
    /\ reply' = "error"
    /\ UNCHANGED <<disk, litter, journal, pos, errs, mode>>

WritePrepared ==
    /\ pc = "staged"
    /\ manifest' = "prepared"
    /\ pc' = "prepared"
    /\ UNCHANGED <<disk, litter, jdir, desired, orig, backups, pos, errs, mode, reply>>

WritePromoting ==
    /\ pc = "prepared"
    /\ manifest' = "promoting"
    /\ pc' = "applying"
    /\ pos' = 1
    /\ UNCHANGED <<disk, litter, jdir, desired, orig, backups, errs, mode, reply>>

\* Either manifest write reports an error, before or after its rename.
WriteManifestFails ==
    /\ \/ pc = "staged" /\ manifest' \in {"none", "prepared"}
       \/ pc = "prepared" /\ manifest' \in {"prepared", "promoting"}
    /\ pc' = "removing"
    /\ reply' = "error"
    /\ UNCHANGED <<disk, litter, jdir, desired, orig, backups, pos, errs, mode>>

\* Mutated form: an entry whose destination did not exist before is skipped.
PromoteExistingOnly ==
    /\ pc = "applying"
    /\ pos <= N
    /\ disk' = IF pos \in Existed THEN [disk EXCEPT ![pos] = desired[pos]] ELSE disk
    /\ pos' = pos + 1
    /\ UNCHANGED <<litter, journal, pc, errs, mode, reply>>

\* EnsureDir, or the verified staged file written over its destination.
PromoteEntry ==
    /\ pc = "applying"
    /\ pos <= N
    /\ disk' = [disk EXCEPT ![pos] = desired[pos]]
    /\ pos' = pos + 1
    /\ UNCHANGED <<litter, journal, pc, errs, mode, reply>>

PromoteFails ==
    /\ pc = "applying"
    /\ pos <= N
    /\ disk' \in {disk, [disk EXCEPT ![pos] = desired[pos]]}
    /\ pc' = "rollback"
    /\ pos' = N
    /\ reply' = "error"
    /\ UNCHANGED <<litter, journal, errs, mode>>

PromoteDone ==
    /\ pc = "applying"
    /\ pos = N + 1
    /\ pc' = "owning"
    /\ UNCHANGED <<disk, litter, journal, pos, errs, mode, reply>>

\* repairTransactionManagedFileOwnership, then applyVolumeOwnership: neither
\* changes a content or a mode that the manifest records.
FixOwnership ==
    /\ pc = "owning"
    /\ pc' = "committing"
    /\ UNCHANGED <<disk, litter, journal, pos, errs, mode, reply>>

FixOwnershipFails ==
    /\ pc = "owning"
    /\ pc' = "rollback"
    /\ pos' = N
    /\ reply' = "error"
    /\ UNCHANGED <<disk, litter, journal, errs, mode>>

WriteCommitted ==
    /\ pc = "committing"
    /\ manifest' = "committed"
    /\ pc' = "removing"
    /\ reply' = "ok"
    /\ UNCHANGED <<disk, litter, jdir, desired, orig, backups, pos, errs, mode>>

\* No rollback, and the journal is kept: the next command decides.
WriteCommittedFails ==
    /\ pc = "committing"
    /\ manifest' \in {"promoting", "committed"}
    /\ pc' = "idle"
    /\ reply' = "error"
    /\ UNCHANGED <<disk, litter, jdir, desired, orig, backups, pos, errs, mode>>

---------------------------------------------------------------------------
(* The process dies.  Inside an atomic write (os.CreateTemp beside the      *)
(* target, then rename) it leaves the temporary file behind.                *)

WritingIn ==
    IF \/ pc = "applying" /\ pos \in Files
       \/ pc = "rollback" /\ pos \in Files \cap Existed \cap backups
    THEN {Parent[pos]}
    ELSE {}

Crash ==
    /\ pc # "idle"
    /\ litter' \in {litter, litter \cup WritingIn}
    /\ pc' = "idle"
    /\ pos' = 0
    /\ errs' = {}
    /\ reply' = "none"
    /\ UNCHANGED <<disk, journal, mode>>

---------------------------------------------------------------------------

Recovery ==
    \/ RecoverNothing
    \/ RecoverByRemoving
    \/ RecoverByRollback

Rollback ==
    \/ RollbackEntry
    \/ RollbackDone
    \/ RollbackIncomplete

Removal ==
    \/ RemoveBackup
    \/ RemoveManifest
    \/ RemoveDir

Generation ==
    \/ MakeJournal
    \/ Stage
    \/ WritePrepared
    \/ WritePromoting
    \/ PromoteEntry
    \/ PromoteDone
    \/ FixOwnership
    \/ WriteCommitted

IOError ==
    \/ RecoverReadFails
    \/ RollbackEntryFails
    \/ RemoveFails
    \/ StageFails
    \/ WriteManifestFails
    \/ PromoteFails
    \/ FixOwnershipFails
    \/ WriteCommittedFails

\* What a running command does next when nothing goes wrong.
Step == Recovery \/ Rollback \/ Removal \/ Generation \/ EndCommand

Next == Start \/ Step \/ IOError \/ Crash

Spec == Init /\ [][Next]_vars

\* The process may die at any step, and nothing else goes wrong.
CrashSpec == Init /\ [][Start \/ Step \/ Crash]_vars

\* A running command takes its next step, and another command is run some day.
FairSpec == Spec /\ WF_vars(Step) /\ WF_vars(Start)

---------------------------------------------------------------------------
(* Properties *)

\* No backup that a rollback may still need is lost: while the journal on disk
\* asks for a rollback, a missing backup means that every destination is
\* already as it was (removeTransactionDir only follows a complete rollback).
BackupsUntilRestored ==
    manifest \in {"prepared", "promoting"} /\ ~(Existed \cap Files \subseteq backups)
        => disk = orig

\* The journal calls a transaction committed only when every destination holds
\* what was staged, whatever crashes and errors came before.
CommittedIsWhole == manifest = "committed" => disk = desired

\* When recovery refuses a command without having met an I/O error, no file is
\* half updated: each one is as it was before the interrupted transaction.
RefusalIsHarmless ==
    reply = "refused" /\ "io" \notin errs => \A i \in Files : disk[i] = orig[i]

\* The project an operator has: what the next undisturbed recovery makes of
\* the destinations.
Effective == IF manifest \in {"prepared", "promoting"} THEN orig ELSE disk

Promise == INSTANCE AtomicInstall WITH
    Projects <- [Entries -> Value],
    NoRequest <- Absent,
    value <- Effective,
    request <- IF pc \in {"staged", "prepared", "applying", "owning", "committing"}
               THEN desired ELSE Absent,
    reply <- IF reply = "refused" THEN "error" ELSE reply

\* The generator keeps its promise (transaction.go:126-128): the project
\* changes only at a commit, as a whole, and "ok" is answered only then.
ImplementsAtomicInstall == Promise!Spec

\* Once crashes and errors stop, a leftover journal is dealt with: it is
\* cleaned up, or commands keep saying that it cannot be.
LeftoverIsResolved ==
    <>[][~(Crash \/ IOError)]_vars => [](jdir => <>(~jdir \/ reply = "refused"))

\* docs/architecture.md:458-460 "Every normal project command recovers an
\* interrupted promotion before loading": short of an I/O error, recovery
\* never refuses.
RecoverySucceeds == reply = "refused" => "io" \in errs
=============================================================================
