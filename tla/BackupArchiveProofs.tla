------------------------ MODULE BackupArchiveProofs ------------------------
(***************************************************************************)
(* What archives and restores promise for any files, contents, names and    *)
(* bounds.  The inductive invariant has one part for each of the three      *)
(* properties: what a creation has seen, what a restore can undo, and which *)
(* generation it is about.                                                  *)
(***************************************************************************)
EXTENDS BackupArchive, TLAPS

-----------------------------------------------------------------------------
(* The inductive invariant.                                                  *)

\* A restore has been given the name of an archive.
Named == cmd.at \in {"verify", "recover", "open"} => cmd.name \in Names

BeforeWalk == cmd.at \in {"inspect", "intent", "lock", "generated", "list"}
Walking == cmd.at \in {"walk", "copy", "close", "link"}

\* What a creation knows of a node was so at some moment since it began.
SeenAt(x) ==
    /\ node[x] \in had[x]
    /\ x \in cmd.expected => Link \in had[x]
    /\ x \in cmd.consumed => x \in cmd.expected
    /\ cmd.made.files[x] # None => cmd.made.files[x] \in had[x] \cup {Torn}

\* The second walk has nothing of a node that is still to come, and of one that
\* it is past it has the file, an omission, or nothing as there was nothing.
PassedAt(x) ==
    /\ BeforeWalk \/ (Walking /\ x \in cmd.todo) \/ (At("copy") /\ x = cmd.read)
         => cmd.made.files[x] = None /\ x \notin cmd.consumed
    /\ cmd.made.files[x] # None => x \notin cmd.consumed
    /\ Walking /\ x \notin cmd.todo /\ ~(At("copy") /\ x = cmd.read)
         => \/ cmd.made.files[x] # None
            \/ x \in cmd.consumed
            \/ Absent \in had[x]

Seen ==
    /\ Creating => \A x \in Nodes : SeenAt(x) /\ PassedAt(x)
    /\ At("copy") => cmd.read \in Nodes /\ cmd.value \in Files \cap had[cmd.read]
                     /\ cmd.read \notin cmd.todo
    /\ At("close") \/ At("link") => cmd.todo = {}
    /\ At("link") => cmd.made.omissions = cmd.consumed

\* A restore that is not committed holds the original of every node whose file
\* it replaced, unless an application has written it since.
UndoableAt(x) ==
    /\ journal.undo[x] = None => node[x] = kept[x] /\ x \notin journal.written
    /\ journal.undo[x] # None /\ x \notin journal.written
         => kept[x] = journal.undo[x] /\ node[x] = journal.files[x]
    /\ x \in journal.written => node[x] = kept[x]

Undoable ==
    /\ cmd.at \in {"open", "stage"} => journal = None
    /\ cmd.at \in {"promote", "validate", "commit", "rollback"}
         => journal # None /\ ~journal.committed
    /\ At("clean") => journal # None /\ journal.committed
    /\ At("promote") => \A x \in cmd.todo : journal.undo[x] = None
                                            /\ journal.files[x] # None
    /\ journal # None /\ ~journal.committed => \A x \in Nodes : UndoableAt(x)

\* Whoever regenerates leaves one generation, and a restore is about one.
OneGeneration ==
    /\ control.intent = control.lock
    /\ cmd.at \in {"recover", "open", "stage"} => cmd.target.intent = cmd.target.lock
    /\ OneGenerationRestored

IInv ==
    /\ TypeOK
    /\ Named
    /\ Seen
    /\ Undoable
    /\ NothingHalfRestored
    /\ OneGeneration

-----------------------------------------------------------------------------
(* Types.                                                                    *)

\* No command goes on.
LEMMA RestingType == Resting \in Commands
  <1>1. FirstControl \in Controls
    BY Kinds DEF FirstControl, Controls, Generations
  <1>2. NothingOf \in Archived
    BY DEF NothingOf, Archived
  <1>3. [control |-> FirstControl, files |-> NothingOf, omissions |-> {}] \in Archives
    BY <1>1, <1>2 DEF Archives
  <1> QED BY <1>1, <1>3 DEF Resting, Commands, Points

\* The bounds are kept.
LEMMA FaultType == ASSUME TypeOK, Fault PROVE faults' \in 0..MaxFaults
  BY Kinds DEF TypeOK, Fault

LEMMA ChangesType == ASSUME TypeOK, Changes PROVE changes' \in 0..MaxChanges
  BY Kinds DEF TypeOK, Changes

\* What the second walk does with a node.
WalkedAt(x) ==
    \/ node[x] = Absent /\ Returns
    \/ node[x] = Link /\ x \notin cmd.expected /\ Returns
    \/ /\ node[x] = Link /\ x \in cmd.expected
       /\ Goes([cmd EXCEPT !.todo = @ \ {x}, !.consumed = @ \cup {x}])
       /\ UNCHANGED had
    \/ /\ node[x] \in Files
       /\ Goes([cmd EXCEPT !.todo = @ \ {x}, !.at = "copy",
                           !.read = x, !.value = node[x]])
       /\ UNCHANGED had

\* What is undone gets the value the journal has for it.
LEMMA UndoType ==
    ASSUME TypeOK, journal # None, NEW S, S \subseteq Done, Undo(S)
    PROVE  node' \in [Nodes -> Values] /\ kept' \in [Nodes -> Values]
  <1>1. \A x \in Nodes : x \in S => journal.undo[x] \in Values
    BY DEF TypeOK, Done, Journals
  <1> QED BY <1>1 DEF TypeOK, Undo

\* A recovery leaves files and a journal, however far it gets.
LEMMA RecoveryType ==
    ASSUME TypeOK, journal # None, Recovers \/ RecoveryStops
    PROVE  /\ node' \in [Nodes -> Values] /\ kept' \in [Nodes -> Values]
           /\ journal' \in Journals \cup {None}
           /\ faults' \in 0..MaxFaults
  <1>1. CASE Recovers
    <2>1. journal' = None /\ faults' = faults
      BY <1>1 DEF Recovers
    <2>2. node' \in [Nodes -> Values] /\ kept' \in [Nodes -> Values]
      BY <1>1, UndoType DEF Recovers, TypeOK
    <2> QED BY <2>1, <2>2 DEF TypeOK
  <1>2. CASE RecoveryStops
    <2>1. faults' \in 0..MaxFaults
      <3>1. UNCHANGED faults \/ Fault
        BY <1>2 DEF RecoveryStops
      <3> QED BY <3>1, FaultType DEF TypeOK
    <2>2. CASE journal.committed \/ journal.stuck
      BY <1>2, <2>1, <2>2 DEF RecoveryStops, TypeOK
    <2>3. CASE ~(journal.committed \/ journal.stuck)
      <3>1. PICK S \in SUBSET {x \in Done : node[x] # Link} :
              /\ Undo(S)
              /\ journal' = [journal EXCEPT
                               !.undo = [x \in Nodes |-> IF x \in S THEN None ELSE @[x]],
                               !.written = @ \ S,
                               !.stuck = \E x \in S : journal.undo[x] # Absent]
        BY <1>2, <2>3 DEF RecoveryStops
      <3>2. node' \in [Nodes -> Values] /\ kept' \in [Nodes -> Values]
        BY <3>1, UndoType
      <3>3. journal' \in Journals
        BY <3>1 DEF TypeOK, Journals
      <3> QED BY <2>1, <3>2, <3>3
    <2> QED BY <2>2, <2>3
  <1> QED BY <1>1, <1>2

\* A new journal has no original yet.
LEMMA OpenedType == ASSUME NEW files \in Archived PROVE Opened(files) \in Journals
  BY DEF Opened, NothingOf, Journals

\* A command that returns has forgotten what it saw.
LEMMA ReturnsType ==
    ASSUME Returns
    PROVE  cmd' \in Commands /\ had' \in [Nodes -> SUBSET Values] /\ At("idle")'
  BY RestingType DEF Returns, Goes, Resting, At

\* A command that goes to another point is the same command.
LEMMA GotoType ==
    ASSUME TypeOK, NEW point \in Points, Goto(point)
    PROVE  cmd' \in Commands /\ cmd'.at = point /\ cmd'.name = cmd.name
  BY DEF TypeOK, Goto, Goes, Commands

\* What an application writes has the types of what was there.
LEMMA WritesType ==
    ASSUME TypeOK, NEW x \in Nodes, NEW v \in Values, Writes(x, v)
    PROVE  /\ node' \in [Nodes -> Values] /\ kept' \in [Nodes -> Values]
           /\ had' \in [Nodes -> SUBSET Values]
           /\ journal' \in Journals \cup {None}
           /\ changes' \in 0..MaxChanges
           /\ UNCHANGED <<control, archive, faults>>
  <1>1. journal # None => [journal EXCEPT !.written = @ \cup {x}] \in Journals
    BY DEF TypeOK, Journals
  <1>2. [had EXCEPT ![x] = @ \cup {v}] \in [Nodes -> SUBSET Values]
    BY DEF TypeOK
  <1> QED BY <1>1, <1>2, ChangesType DEF TypeOK, Writes

\* Each step keeps the types, and a restore its name.
LEMMA TypeStep ==
    ASSUME TypeOK, Named, Undoable, [Next]_vars
    PROVE  TypeOK' /\ Named'
  <1> USE DEF At, Goes, disk, bounds
  <1>1. ASSUME NEW n \in Names, runBackupCreate(n) PROVE TypeOK' /\ Named'
    <2>1. cmd' \in Commands /\ cmd'.at = "inspect"
      BY <1>1, RestingType DEF runBackupCreate, Commands, Points
    <2>2. had' \in [Nodes -> SUBSET Values]
      BY <1>1 DEF runBackupCreate, TypeOK
    <2> QED BY <1>1, <2>1, <2>2 DEF runBackupCreate, TypeOK, Named
  <1>2. CASE inspectBackupSources
    <2>1. CASE cmd.todo = {}
      BY <1>2, <2>1, GotoType DEF inspectBackupSources, TypeOK, Named, Points
    <2>2. CASE cmd.todo # {}
      <3>1. PICK x \in cmd.todo :
              cmd' = [cmd EXCEPT !.todo = @ \ {x},
                                 !.expected = IF node[x] = Link THEN @ \cup {x} ELSE @]
        BY <1>2, <2>2 DEF inspectBackupSources
      <3>2. cmd' \in Commands /\ cmd'.at = cmd.at
        BY <3>1 DEF TypeOK, Commands
      <3> QED BY <1>2, <2>2, <3>2 DEF inspectBackupSources, TypeOK, Named
    <2> QED BY <2>1, <2>2
  <1>3. CASE addToArchive
    <2>1. PICK file \in {"intent", "lock", "generated"} :
            /\ cmd.at = file
            /\ cmd' = [cmd EXCEPT !.made.control[file] = control[file],
                                  !.at = CASE file = "intent" -> "lock"
                                           [] file = "lock" -> "generated"
                                           [] file = "generated" -> "list"]
      BY <1>3 DEF addToArchive
    <2>2. [cmd.made.control EXCEPT ![file] = control[file]] \in Controls
      BY DEF TypeOK, Commands, Archives, Controls
    <2>3. cmd' \in Commands /\ cmd'.at \in {"lock", "generated", "list"}
      BY <2>1, <2>2 DEF TypeOK, Commands, Archives, Points
    <2> QED BY <1>3, <2>3 DEF addToArchive, TypeOK, Named
  <1>4. CASE Readdir
    <2>1. cmd' \in Commands /\ cmd'.at = "walk"
      BY <1>4 DEF Readdir, TypeOK, Commands, Points
    <2> QED BY <1>4, <2>1 DEF Readdir, TypeOK, Named
  <1>5. CASE walkBackupRoot
    <2>1. CASE cmd.todo = {}
      BY <1>5, <2>1, GotoType DEF walkBackupRoot, TypeOK, Named, Points
    <2>2. CASE cmd.todo # {}
      <3>1. PICK x \in cmd.todo : WalkedAt(x)
        BY <1>5, <2>2 DEF walkBackupRoot, WalkedAt
      <3>2. CASE Returns
        BY <1>5, <3>2, ReturnsType DEF walkBackupRoot, TypeOK, Named
      <3>3. CASE ~Returns
        <4>1. had' = had /\ x \in Nodes
          BY <3>1, <3>3 DEF WalkedAt, TypeOK, Commands
        <4>2. \/ cmd' = [cmd EXCEPT !.todo = @ \ {x}, !.consumed = @ \cup {x}]
              \/ /\ node[x] \in Files
                 /\ cmd' = [cmd EXCEPT !.todo = @ \ {x}, !.at = "copy",
                                       !.read = x, !.value = node[x]]
          BY <3>1, <3>3 DEF WalkedAt
        <4>3. cmd' \in Commands /\ cmd'.at \in {cmd.at, "copy"}
          <5>1. cmd \in Commands
            BY DEF TypeOK
          <5>2. CASE cmd' = [cmd EXCEPT !.todo = @ \ {x}, !.consumed = @ \cup {x}]
            BY <4>1, <5>1, <5>2 DEF Commands
          <5>3. CASE /\ node[x] \in Files
                     /\ cmd' = [cmd EXCEPT !.todo = @ \ {x}, !.at = "copy",
                                           !.read = x, !.value = node[x]]
            BY <4>1, <5>1, <5>3 DEF Commands, Points
          <5> QED BY <4>2, <5>2, <5>3
        <4> QED BY <1>5, <4>1, <4>3 DEF walkBackupRoot, TypeOK, Named
      <3> QED BY <3>2, <3>3
    <2> QED BY <2>1, <2>2
  <1>6. CASE writeOpenFileToArchive
    <2>1. CASE cmd.dirty = "size"
      BY <1>6, <2>1, ReturnsType DEF writeOpenFileToArchive, TypeOK, Named
    <2>2. CASE cmd.dirty # "size"
      <3>1. PICK v \in Files \cup {None} :
              cmd' = [cmd EXCEPT !.at = "walk", !.made.files[cmd.read] = v,
                                 !.read = None, !.value = None, !.dirty = "no"]
        BY <1>6, <2>2 DEF writeOpenFileToArchive, TypeOK, Commands, Files
      <3>2. [cmd.made.files EXCEPT ![cmd.read] = v] \in Archived
        BY DEF TypeOK, Commands, Archives, Archived
      <3>3. cmd' \in Commands /\ cmd'.at = "walk"
        BY <3>1, <3>2 DEF TypeOK, Commands, Archives, Points
      <3> QED BY <1>6, <2>2, <3>3 DEF writeOpenFileToArchive, TypeOK, Named
    <2> QED BY <2>1, <2>2
  <1>7. CASE closeWriters
    <2>1. CASE cmd.consumed = cmd.expected
      <3>1. cmd' = [cmd EXCEPT !.at = "link", !.made.omissions = cmd.expected]
        BY <1>7, <2>1 DEF closeWriters
      <3>2. [cmd.made EXCEPT !.omissions = cmd.expected] \in Archives
        BY DEF TypeOK, Commands, Archives
      <3>3. cmd' \in Commands /\ cmd'.at = "link"
        BY <3>1, <3>2 DEF TypeOK, Commands, Points
      <3> QED BY <1>7, <2>1, <3>3 DEF closeWriters, TypeOK, Named
    <2>2. CASE cmd.consumed # cmd.expected
      BY <1>7, <2>2, ReturnsType DEF closeWriters, TypeOK, Named
    <2> QED BY <2>1, <2>2
  <1>8. CASE LinkArchive
    <2>1. CASE archive[cmd.name] = None
      <3>1. cmd' \in Commands /\ cmd'.at = "unlink"
        BY <1>8, <2>1, GotoType DEF LinkArchive, Points
      <3>2. archive' \in [Names -> Archives \cup {None}]
        BY <1>8, <2>1 DEF LinkArchive, TypeOK, Commands
      <3> QED BY <1>8, <2>1, <3>1, <3>2 DEF LinkArchive, TypeOK, Named
    <2>2. CASE archive[cmd.name] # None
      BY <1>8, <2>2, ReturnsType DEF LinkArchive, TypeOK, Named
    <2> QED BY <2>1, <2>2
  <1>9. CASE RemoveTemp
    <2>1. archive' \in [Names -> Archives \cup {None}]
      BY <1>9 DEF RemoveTemp, TypeOK
    <2>2. faults' \in 0..MaxFaults
      BY <1>9, FaultType DEF RemoveTemp, TypeOK
    <2> QED BY <1>9, <2>1, <2>2, ReturnsType DEF RemoveTemp, TypeOK, Named
  <1>10. ASSUME NEW n \in Names, Delete(n) PROVE TypeOK' /\ Named'
    BY <1>10 DEF Delete, TypeOK, Named
  <1>11. ASSUME NEW n \in Names, runBackupRestore(n) PROVE TypeOK' /\ Named'
    <2>1. cmd' \in Commands /\ cmd'.at = "verify" /\ cmd'.name = n
      BY <1>11, RestingType DEF runBackupRestore, Commands, Points
    <2> QED BY <1>11, <2>1 DEF runBackupRestore, TypeOK, Named
  <1>12. CASE RestoreHooks
    <2>1. CASE VerifyGeneratedRuntime
      <3>1. cmd' = [cmd EXCEPT !.at = "recover", !.target = control] /\ At("verify")
        BY <1>12, <2>1 DEF RestoreHooks
      <3>2. cmd' \in Commands /\ cmd'.name = cmd.name
        BY <3>1 DEF TypeOK, Commands, Points
      <3> QED BY <1>12, <2>1, <3>1, <3>2 DEF RestoreHooks, TypeOK, Named
    <2>2. CASE ~VerifyGeneratedRuntime
      BY <1>12, <2>2, ReturnsType DEF RestoreHooks, TypeOK, Named
    <2> QED BY <2>1, <2>2
  <1>13. CASE recoverRestoreTransaction
    <2>1. \/ Returns
          \/ had' = had /\ Goto("open")
      BY <1>13 DEF recoverRestoreTransaction
    <2>2. /\ cmd' \in Commands /\ had' \in [Nodes -> SUBSET Values]
          /\ Named'
      BY <1>13, <2>1, ReturnsType, GotoType
      DEF recoverRestoreTransaction, TypeOK, Named, Points
    <2>3. \/ journal = None /\ UNCHANGED <<node, journal, kept, faults>>
          \/ journal # None /\ (Recovers \/ RecoveryStops)
      BY <1>13 DEF recoverRestoreTransaction
    <2> QED BY <1>13, <2>2, <2>3, RecoveryType DEF recoverRestoreTransaction, TypeOK
  <1>14. CASE RecoverInterruptedRestore
    BY <1>14, RecoveryType DEF RecoverInterruptedRestore, TypeOK, Named
  <1>15. CASE validateArchive
    <2>1. cmd.name \in Names
      BY <1>15 DEF validateArchive, Named
    <2>2. archive[cmd.name] # None => archive[cmd.name] \in Archives
      BY <2>1 DEF TypeOK
    <2>3. CASE Returns
      BY <1>15, <2>3, ReturnsType DEF validateArchive, TypeOK, Named
    <2>4. CASE ~Returns
      <3>1. /\ archive[cmd.name] # None /\ had' = had
            /\ cmd' = [cmd EXCEPT !.at = "stage", !.made = archive[cmd.name]]
        BY <1>15, <2>4 DEF validateArchive
      <3>2. cmd' \in Commands /\ cmd'.at = "stage"
        BY <2>2, <3>1 DEF TypeOK, Commands, Points
      <3> QED BY <1>15, <3>1, <3>2 DEF validateArchive, TypeOK, Named
    <2> QED BY <2>3, <2>4
  <1>16. CASE stageRestoreArchive
    <2>1. cmd' \in Commands /\ cmd'.at \in {"promote", "rollback"}
      BY <1>16 DEF stageRestoreArchive, TypeOK, Commands, Points
    <2>2. journal' \in Journals
      BY <1>16, OpenedType DEF stageRestoreArchive, TypeOK, Commands, Archives
    <2> QED BY <1>16, <2>1, <2>2 DEF stageRestoreArchive, TypeOK, Named
  <1>17. CASE promoteStagedRestoreFile
    <2>1. control' = control
      BY <1>17 DEF promoteStagedRestoreFile, KeepGenerated
    <2>2. CASE cmd.todo = {}
      <3>1. cmd' \in Commands /\ cmd'.at = "validate"
        BY <1>17, <2>2, GotoType DEF promoteStagedRestoreFile, Points
      <3> QED BY <1>17, <2>1, <2>2, <3>1 DEF promoteStagedRestoreFile, TypeOK, Named
    <2>3. CASE cmd.todo # {}
      <3>1. PICK x \in cmd.todo :
              IF node[x] = Link
              THEN Goto("rollback") /\ UNCHANGED <<node, journal>>
              ELSE /\ Goes([cmd EXCEPT !.todo = @ \ {x}])
                   /\ journal' = [journal EXCEPT !.undo[x] = node[x]]
                   /\ node' = [node EXCEPT ![x] = journal.files[x]]
        BY <1>17, <2>3 DEF promoteStagedRestoreFile
      <3>2. CASE node[x] = Link
        <4>1. cmd' \in Commands /\ cmd'.at = "rollback"
          BY <3>1, <3>2, GotoType DEF Points
        <4> QED BY <1>17, <2>1, <3>1, <3>2, <4>1
                DEF promoteStagedRestoreFile, TypeOK, Named
      <3>3. CASE node[x] # Link
        <4>1. cmd' \in Commands /\ cmd'.at = "promote"
          BY <1>17, <3>1, <3>3 DEF promoteStagedRestoreFile, TypeOK, Commands
        <4>2. x \in Nodes /\ journal \in Journals /\ journal.files[x] # None
          BY <1>17 DEF promoteStagedRestoreFile, TypeOK, Commands, Undoable
        <4>3. journal.files[x] \in Values
          BY <4>2 DEF Journals, Archived, Values
        <4>4. node' \in [Nodes -> Values]
          BY <3>1, <3>3, <4>2, <4>3 DEF TypeOK
        <4>5. node[x] \in Values
          BY <4>2 DEF TypeOK
        <4>6. [journal.undo EXCEPT ![x] = node[x]] \in [Nodes -> Values \cup {None}]
          BY <4>2, <4>5 DEF Journals
        <4>7. journal' \in Journals
          BY <3>1, <3>3, <4>2, <4>6 DEF Journals
        <4> QED BY <1>17, <2>1, <4>1, <4>4, <4>7
                DEF promoteStagedRestoreFile, TypeOK, Named
      <3> QED BY <3>2, <3>3
    <2> QED BY <2>2, <2>3
  <1>18. CASE ValidateRestored
    <2>1. cmd' \in Commands /\ cmd'.at \in {"commit", "rollback"}
      BY <1>18, GotoType DEF ValidateRestored, Points
    <2> QED BY <1>18, <2>1 DEF ValidateRestored, TypeOK, Named
  <1>19. CASE Commit
    <2>1. cmd' \in Commands /\ cmd'.at = "clean"
      BY <1>19, GotoType DEF Commit, Points
    <2>2. journal \in Journals
      BY <1>19 DEF Commit, Undoable, TypeOK
    <2>3. journal' \in Journals
      BY <1>19, <2>2 DEF Commit, Journals
    <2>4. \A x \in Nodes : x \in Done \ journal.written => journal.files[x] \in Values
      <3>1. journal # None /\ ~journal.committed
        BY <1>19 DEF Commit, Undoable
      <3>2. \A x \in Nodes : x \in Done \ journal.written => node[x] = journal.files[x]
        BY <3>1 DEF Undoable, UndoableAt, Done
      <3> QED BY <3>2 DEF TypeOK
    <2>5. kept' \in [Nodes -> Values]
      BY <1>19, <2>4 DEF Commit, TypeOK
    <2> QED BY <1>19, <2>1, <2>3, <2>5 DEF Commit, TypeOK, Named
  <1>20. CASE RestoreFails
    <2>1. cmd' \in Commands /\ cmd'.at = "rollback"
      BY <1>20, GotoType DEF RestoreFails, Points
    <2>2. journal' \in Journals \cup {None}
      BY <1>20, OpenedType DEF RestoreFails, TypeOK, Commands, Archives
    <2>3. faults' \in 0..MaxFaults
      BY <1>20, FaultType DEF RestoreFails
    <2> QED BY <1>20, <2>1, <2>2, <2>3 DEF RestoreFails, TypeOK, Named
  <1>21. CASE Rollback
    <2>1. journal # None
      BY <1>21 DEF Rollback, Undoable
    <2> QED BY <1>21, <2>1, RecoveryType, ReturnsType DEF Rollback, TypeOK, Named
  <1>22. CASE removeRestoreJournal
    <2>1. faults' \in 0..MaxFaults /\ journal' \in Journals \cup {None}
      BY <1>22, FaultType DEF removeRestoreJournal, TypeOK
    <2> QED BY <1>22, <2>1, ReturnsType DEF removeRestoreJournal, TypeOK, Named
  <1>23. ASSUME NEW g \in Generations, Regenerate(g) PROVE TypeOK' /\ Named'
    <2>1. control' \in Controls
      BY <1>23 DEF Regenerate, Controls
    <2> QED BY <1>23, <2>1, ChangesType DEF Regenerate, TypeOK, Named
  <1>24. ASSUME NEW x \in Nodes, Replace(x) PROVE TypeOK' /\ Named'
    <2>1. PICK v \in Contents \cup {Link, Absent} : Writes(x, v) /\ UNCHANGED cmd
      BY <1>24 DEF Replace
    <2>2. v \in Values
      BY DEF Values, Files
    <2> QED BY <2>1, <2>2, WritesType DEF TypeOK, Named
  <1>25. ASSUME NEW x \in Nodes, Overwrite(x) PROVE TypeOK' /\ Named'
    <2>1. PICK v \in Contents, size \in {"same", "size"} :
            /\ Writes(x, v)
            /\ cmd' = IF cmd.read = x /\ cmd.dirty # "size"
                      THEN [cmd EXCEPT !.dirty = size] ELSE cmd
      BY <1>25 DEF Overwrite
    <2>2. v \in Values
      BY DEF Values, Files
    <2>3. cmd' \in Commands /\ cmd'.at = cmd.at /\ cmd'.name = cmd.name
      BY <2>1 DEF TypeOK, Commands
    <2> QED BY <2>1, <2>2, <2>3, WritesType DEF TypeOK, Named
  <1>26. CASE CreateFails
    BY <1>26, ReturnsType, FaultType DEF CreateFails, TypeOK, Named
  <1>27. CASE Crash
    BY <1>27, ReturnsType, FaultType DEF Crash, TypeOK, Named
  <1>28. CASE UNCHANGED vars
    BY <1>28 DEF vars, TypeOK, Named
  <1> QED
    BY <1>1, <1>2, <1>3, <1>4, <1>5, <1>6, <1>7, <1>8, <1>9, <1>10, <1>11, <1>12, <1>13,
       <1>14, <1>15, <1>16, <1>17, <1>18, <1>19, <1>20, <1>21, <1>22, <1>23, <1>24, <1>25,
       <1>26, <1>27, <1>28
    DEF Next, CreateStep, RestoreStep

-----------------------------------------------------------------------------
(* What a creation has seen.                                                 *)

\* Only a creation has seen anything.
LEMMA NothingSeen == ASSUME ~Creating' PROVE Seen'
  BY DEF Creating, Seen, At

\* A command that returns, or that restores, creates nothing.
LEMMA ReturnsSeen == ASSUME Returns PROVE Seen'
  BY NothingSeen DEF Returns, Goes, Resting, Creating

\* What an application writes while an archive is made is seen.
LEMMA WritesSeen ==
    ASSUME TypeOK, Seen, NEW x \in Nodes, NEW v, Writes(x, v),
           cmd' = cmd \/ \E size : cmd' = [cmd EXCEPT !.dirty = size]
    PROVE  Seen'
  <1>1. CASE ~Creating
    <2>1. cmd'.at = cmd.at
      BY DEF TypeOK, Commands
    <2> QED BY <1>1, <2>1, NothingSeen DEF Creating
  <1>2. CASE Creating
    <2>1. /\ cmd'.at = cmd.at /\ cmd'.todo = cmd.todo /\ cmd'.expected = cmd.expected
          /\ cmd'.consumed = cmd.consumed /\ cmd'.made = cmd.made
          /\ cmd'.read = cmd.read /\ cmd'.value = cmd.value
      BY DEF TypeOK, Commands
    <2>2. /\ node' = [node EXCEPT ![x] = v]
          /\ had' = [had EXCEPT ![x] = @ \cup {v}]
      BY <1>2 DEF Writes
    <2>3. \A y \in Nodes : had[y] \subseteq had'[y] /\ node'[y] \in {node[y], v}
                            /\ (node'[y] # node[y] => v \in had'[y])
      BY <2>2 DEF TypeOK
    <2>4. \A y \in Nodes : SeenAt(y) => SeenAt(y)'
      BY <2>1, <2>3 DEF SeenAt
    <2>5. \A y \in Nodes : PassedAt(y) => PassedAt(y)'
      BY <2>1, <2>3 DEF PassedAt, BeforeWalk, Walking, At
    <2> QED BY <1>2, <2>1, <2>3, <2>4, <2>5 DEF Seen, Creating, At
  <1> QED BY <1>1, <1>2

\* Each step keeps what a creation has seen true.
LEMMA SeenStep ==
    ASSUME TypeOK, Seen, [Next]_vars
    PROVE  Seen'
  <1> USE DEF At, Goes, disk, bounds
  <1>1. ASSUME NEW n \in Names, runBackupCreate(n) PROVE Seen'
    <2>1. /\ cmd' = [Resting EXCEPT !.at = "inspect", !.name = n, !.todo = Nodes]
          /\ had' = [x \in Nodes |-> {node[x]}] /\ node' = node
      BY <1>1 DEF runBackupCreate
    <2>2. /\ cmd'.at = "inspect" /\ cmd'.expected = {} /\ cmd'.consumed = {}
          /\ cmd'.made.files = NothingOf
      BY <2>1 DEF Resting
    <2> QED BY <2>1, <2>2
            DEF Seen, SeenAt, PassedAt, BeforeWalk, Walking, Creating, NothingOf
  <1>2. CASE inspectBackupSources
    <2> USE <1>2
    <2>1. Creating /\ node' = node /\ had' = had /\ cmd.at = "inspect"
      BY DEF inspectBackupSources, Creating
    <2>2. \A x \in Nodes : SeenAt(x) /\ PassedAt(x)
      BY <2>1 DEF Seen
    <2>3. /\ cmd'.at \in {"inspect", "intent"} /\ cmd'.consumed = cmd.consumed
          /\ cmd'.made = cmd.made
          /\ \A x \in Nodes : x \in cmd.expected => x \in cmd'.expected
          /\ \A x \in Nodes : x \in cmd'.expected => x \in cmd.expected \/ node[x] = Link
      <3>1. cmd \in Commands
        BY DEF TypeOK
      <3>2. CASE cmd.todo = {}
        BY <2>1, <3>1, <3>2 DEF inspectBackupSources, Goto, Commands
      <3>3. CASE cmd.todo # {}
        <4>1. PICK x \in cmd.todo :
                cmd' = [cmd EXCEPT !.todo = @ \ {x},
                                   !.expected = IF node[x] = Link THEN @ \cup {x} ELSE @]
          BY <3>3 DEF inspectBackupSources
        <4> QED BY <2>1, <3>1, <4>1 DEF Commands
      <3> QED BY <3>2, <3>3
    <2> QED BY <2>1, <2>2, <2>3 DEF Seen, SeenAt, PassedAt, BeforeWalk, Walking, Creating
  <1>3. CASE addToArchive
    <2> USE <1>3
    <2>1. PICK file \in {"intent", "lock", "generated"} :
            /\ cmd.at = file
            /\ cmd' = [cmd EXCEPT !.made.control[file] = control[file],
                                  !.at = CASE file = "intent" -> "lock"
                                           [] file = "lock" -> "generated"
                                           [] file = "generated" -> "list"]
      BY DEF addToArchive
    <2>2. node' = node /\ had' = had
      BY DEF addToArchive
    <2>3. /\ cmd'.at \in {"lock", "generated", "list"} /\ cmd'.consumed = cmd.consumed
          /\ cmd'.expected = cmd.expected /\ cmd'.made.files = cmd.made.files
      BY <2>1 DEF TypeOK, Commands, Archives
    <2> QED BY <2>1, <2>2, <2>3 DEF Seen, SeenAt, PassedAt, BeforeWalk, Walking, Creating
  <1>4. CASE Readdir
    <2>1. /\ cmd.at = "list" /\ node' = node /\ had' = had
          /\ cmd' = [cmd EXCEPT !.at = "walk", !.todo = {x \in Nodes : node[x] # Absent}]
      BY <1>4 DEF Readdir
    <2>2. /\ cmd'.at = "walk" /\ cmd'.todo = {x \in Nodes : node[x] # Absent}
          /\ cmd'.consumed = cmd.consumed /\ cmd'.expected = cmd.expected
          /\ cmd'.made = cmd.made
      BY <2>1 DEF TypeOK, Commands
    <2> QED BY <2>1, <2>2 DEF Seen, SeenAt, PassedAt, BeforeWalk, Walking, Creating
  <1>5. CASE walkBackupRoot
    <2> USE <1>5
    <2>1. node' = node /\ cmd.at = "walk" /\ cmd \in Commands
      BY DEF walkBackupRoot, TypeOK
    <2>2. \A y \in Nodes : SeenAt(y) /\ PassedAt(y)
      BY <2>1 DEF Seen, Creating
    <2>3. CASE cmd.todo = {}
      <3>1. /\ cmd'.at = "close" /\ cmd'.todo = cmd.todo /\ cmd'.expected = cmd.expected
            /\ cmd'.consumed = cmd.consumed /\ cmd'.made = cmd.made /\ had' = had
        BY <2>1, <2>3 DEF walkBackupRoot, Goto, Commands
      <3> QED BY <2>1, <2>2, <2>3, <3>1
              DEF Seen, SeenAt, PassedAt, BeforeWalk, Walking, Creating
    <2>4. CASE cmd.todo # {}
      <3>1. PICK x \in cmd.todo : WalkedAt(x)
        BY <2>4 DEF walkBackupRoot, WalkedAt
      <3>2. x \in Nodes
        BY <2>1 DEF Commands
      <3>3. CASE Returns
        BY <3>3, ReturnsSeen
      <3>4. CASE /\ node[x] = Link /\ x \in cmd.expected /\ had' = had
                 /\ cmd' = [cmd EXCEPT !.todo = @ \ {x}, !.consumed = @ \cup {x}]
        <4>1. /\ cmd'.at = "walk" /\ cmd'.todo = cmd.todo \ {x}
              /\ cmd'.expected = cmd.expected /\ cmd'.made = cmd.made
              /\ cmd'.consumed = cmd.consumed \cup {x}
          BY <2>1, <3>4 DEF Commands
        <4> QED BY <2>1, <2>2, <3>1, <3>2, <3>4, <4>1
                DEF Seen, SeenAt, PassedAt, BeforeWalk, Walking, Creating
      <3>5. CASE /\ node[x] \in Files /\ had' = had
                 /\ cmd' = [cmd EXCEPT !.todo = @ \ {x}, !.at = "copy",
                                       !.read = x, !.value = node[x]]
        <4>1. /\ cmd'.at = "copy" /\ cmd'.todo = cmd.todo \ {x}
              /\ cmd'.expected = cmd.expected /\ cmd'.made = cmd.made
              /\ cmd'.consumed = cmd.consumed /\ cmd'.read = x /\ cmd'.value = node[x]
          BY <2>1, <3>5 DEF Commands
        <4> QED BY <2>1, <2>2, <3>1, <3>2, <3>5, <4>1
                DEF Seen, SeenAt, PassedAt, BeforeWalk, Walking, Creating
      <3> QED BY <3>1, <3>3, <3>4, <3>5 DEF WalkedAt
    <2> QED BY <2>3, <2>4
  <1>6. CASE writeOpenFileToArchive
    <2> USE <1>6
    <2>1. node' = node /\ cmd.at = "copy" /\ cmd \in Commands
      BY DEF writeOpenFileToArchive, TypeOK
    <2>2. \A y \in Nodes : SeenAt(y) /\ PassedAt(y)
      BY <2>1 DEF Seen, Creating
    <2>3. /\ cmd.read \in Nodes /\ cmd.value \in Files \cap had[cmd.read]
          /\ cmd.read \notin cmd.todo
      BY <2>1 DEF Seen
    <2>4. CASE cmd.dirty = "size"
      BY <2>4, ReturnsSeen DEF writeOpenFileToArchive
    <2>5. CASE cmd.dirty # "size"
      <3>1. PICK taken \in {Torn, cmd.value} :
              /\ cmd' = [cmd EXCEPT !.at = "walk", !.made.files[cmd.read] = taken,
                                    !.read = None, !.value = None, !.dirty = "no"]
              /\ had' = had
        BY <2>5 DEF writeOpenFileToArchive
      <3>2. taken # None /\ taken \in had[cmd.read] \cup {Torn}
        BY <2>3, Kinds DEF Files
      <3>3. /\ cmd'.at = "walk" /\ cmd'.todo = cmd.todo /\ cmd'.expected = cmd.expected
            /\ cmd'.consumed = cmd.consumed
            /\ cmd'.made.files = [cmd.made.files EXCEPT ![cmd.read] = taken]
        BY <2>1, <3>1 DEF Commands, Archives
      <3>4. cmd.made.files \in [Nodes -> Files \cup {None}]
        BY <2>1 DEF Commands, Archives, Archived
      <3>5. \A y \in Nodes : cmd'.made.files[y] =
                               IF y = cmd.read THEN taken ELSE cmd.made.files[y]
        BY <2>3, <3>3, <3>4
      <3>6. \A y \in Nodes : SeenAt(y)'
        BY <2>1, <2>2, <3>1, <3>2, <3>3, <3>5 DEF SeenAt
      <3>7. \A y \in Nodes : PassedAt(y)'
        BY <2>1, <2>2, <2>3, <3>1, <3>2, <3>3, <3>5 DEF PassedAt, BeforeWalk, Walking
      <3> QED BY <3>3, <3>6, <3>7 DEF Seen
    <2> QED BY <2>4, <2>5
  <1>7. CASE closeWriters
    <2> USE <1>7
    <2>1. CASE cmd.consumed # cmd.expected
      BY <2>1, ReturnsSeen DEF closeWriters
    <2>2. CASE cmd.consumed = cmd.expected
      <3>1. /\ cmd' = [cmd EXCEPT !.at = "link", !.made.omissions = cmd.expected]
            /\ had' = had /\ node' = node /\ cmd.at = "close"
        BY <2>2 DEF closeWriters
      <3>2. /\ cmd'.at = "link" /\ cmd'.todo = cmd.todo /\ cmd'.expected = cmd.expected
            /\ cmd'.consumed = cmd.consumed /\ cmd'.made.files = cmd.made.files
            /\ cmd'.made.omissions = cmd.expected
        BY <3>1 DEF TypeOK, Commands, Archives
      <3> QED BY <2>2, <3>1, <3>2
              DEF Seen, SeenAt, PassedAt, BeforeWalk, Walking, Creating
    <2> QED BY <2>1, <2>2
  <1>8. CASE LinkArchive
    <2>1. Returns \/ Goto("unlink")
      BY <1>8 DEF LinkArchive
    <2> QED BY <2>1, ReturnsSeen, NothingSeen, GotoType DEF Creating, Points
  <1>9. CASE RemoveTemp \/ CreateFails \/ Crash \/ Rollback \/ removeRestoreJournal
    BY <1>9, ReturnsSeen
    DEF RemoveTemp, CreateFails, Crash, Rollback, removeRestoreJournal
  <1>10. ASSUME NEW n \in Names, runBackupRestore(n) PROVE Seen'
    BY <1>10, NothingSeen DEF runBackupRestore, Resting, Creating
  <1>11. CASE RestoreHooks
    <2>1. Returns \/ cmd' = [cmd EXCEPT !.at = "recover", !.target = control]
      BY <1>11 DEF RestoreHooks
    <2> QED BY <2>1, ReturnsSeen, NothingSeen DEF Creating, TypeOK, Commands
  <1>12. CASE recoverRestoreTransaction
    <2>1. Returns \/ Goto("open")
      BY <1>12 DEF recoverRestoreTransaction
    <2> QED BY <2>1, ReturnsSeen, NothingSeen, GotoType DEF Creating, Points
  <1>13. CASE validateArchive
    <2>1. Returns \/ cmd' = [cmd EXCEPT !.at = "stage", !.made = archive[cmd.name]]
      BY <1>13 DEF validateArchive
    <2> QED BY <2>1, ReturnsSeen, NothingSeen DEF Creating, TypeOK, Commands
  <1>14. CASE stageRestoreArchive
    <2>1. cmd'.at \in {"promote", "rollback"}
      BY <1>14 DEF stageRestoreArchive, TypeOK, Commands
    <2> QED BY <2>1, NothingSeen DEF Creating
  <1>15. CASE promoteStagedRestoreFile
    <2>1. \/ Goto("validate") \/ Goto("rollback")
          \/ cmd.at = "promote" /\ \E x : cmd' = [cmd EXCEPT !.todo = @ \ {x}]
      BY <1>15 DEF promoteStagedRestoreFile
    <2> QED BY <2>1, NothingSeen, GotoType DEF Creating, TypeOK, Commands, Points
  <1>16. CASE ValidateRestored \/ Commit \/ RestoreFails
    <2>1. Goto("commit") \/ Goto("rollback") \/ Goto("clean")
      BY <1>16 DEF ValidateRestored, Commit, RestoreFails
    <2> QED BY <2>1, NothingSeen, GotoType DEF Creating, Points
  <1>17. CASE RecoverInterruptedRestore
    BY <1>17, NothingSeen DEF RecoverInterruptedRestore, Creating
  <1>18. ASSUME NEW n \in Names, Delete(n) PROVE Seen'
    BY <1>18 DEF Delete, Seen, SeenAt, PassedAt, BeforeWalk, Walking, Creating
  <1>19. ASSUME NEW g \in Generations, Regenerate(g) PROVE Seen'
    BY <1>19 DEF Regenerate, Seen, SeenAt, PassedAt, BeforeWalk, Walking, Creating
  <1>20. ASSUME NEW x \in Nodes, Replace(x) \/ Overwrite(x) PROVE Seen'
    <2>1. PICK v : Writes(x, v) /\ (cmd' = cmd \/ \E size : cmd' = [cmd EXCEPT !.dirty = size])
      BY <1>20 DEF Replace, Overwrite
    <2> QED BY <2>1, WritesSeen
  <1>21. CASE UNCHANGED vars
    BY <1>21 DEF vars, Seen, SeenAt, PassedAt, BeforeWalk, Walking, Creating
  <1> QED
    BY <1>1, <1>2, <1>3, <1>4, <1>5, <1>6, <1>7, <1>8, <1>9, <1>10, <1>11, <1>12, <1>13,
       <1>14, <1>15, <1>16, <1>17, <1>18, <1>19, <1>20, <1>21
    DEF Next, CreateStep, RestoreStep

-----------------------------------------------------------------------------
(* What a restore can undo.                                                  *)

Restoring == cmd.at \in {"open", "stage", "promote", "validate", "commit", "rollback", "clean"}

\* A step that touches neither files nor journal, of a command that is not in the
\* middle of a restore.
LEMMA NothingTouched ==
    ASSUME Undoable, NothingHalfRestored, UNCHANGED <<node, journal, kept>>, ~Restoring'
    PROVE  Undoable' /\ NothingHalfRestored'
  BY DEF Undoable, NothingHalfRestored, UndoableAt, Restoring, At

\* What is undone is whole, and nothing else is touched.
LEMMA UndoneIsWhole ==
    ASSUME TypeOK, Undoable, journal # None, ~journal.committed,
           NEW S, S \subseteq Done, Undo(S)
    PROVE  \A x \in Nodes :
              /\ x \in S => node'[x] = kept'[x]
              /\ x \notin S => node'[x] = node[x] /\ kept'[x] = kept[x]
  <1>1. \A x \in Nodes : UndoableAt(x)
    BY DEF Undoable
  <1>2. ASSUME NEW x \in Nodes, x \in S PROVE node'[x] = kept'[x]
    BY <1>1, <1>2 DEF UndoableAt, Undo, Done
  <1>3. ASSUME NEW x \in Nodes, x \notin S
        PROVE  node'[x] = node[x] /\ kept'[x] = kept[x]
    BY <1>3 DEF Undo
  <1> QED BY <1>2, <1>3

\* A recovery that succeeds leaves everything whole and no journal.
LEMMA RecoversUndoes ==
    ASSUME TypeOK, Undoable, NothingHalfRestored, journal # None,
           Recovers, ~Restoring' \/ cmd'.at = "open"
    PROVE  Undoable' /\ NothingHalfRestored'
  <1>1. journal' = None
    BY DEF Recovers
  <1>2. node' = kept'
    <2>1. CASE journal.committed
      BY <2>1 DEF Recovers, NothingHalfRestored
    <2>2. CASE ~journal.committed
      <3>1. Undo(Done)
        BY <2>2 DEF Recovers
      <3>2. \A x \in Nodes : x \notin Done => node[x] = kept[x]
        BY <2>2 DEF Undoable, UndoableAt, Done
      <3>3. \A x \in Nodes : node'[x] = kept'[x]
        BY <2>2, <3>1, <3>2, UndoneIsWhole
      <3>4. node' \in [Nodes -> Values] /\ kept' \in [Nodes -> Values]
        BY <3>1, UndoType
      <3> QED BY <3>3, <3>4
    <2> QED BY <2>1, <2>2
  <1> QED BY <1>1, <1>2 DEF Undoable, NothingHalfRestored, Restoring, At

\* One that stops half-way leaves what can be undone.
LEMMA StopUndoes ==
    ASSUME TypeOK, Undoable, NothingHalfRestored, journal # None,
           RecoveryStops, ~Restoring'
    PROVE  Undoable' /\ NothingHalfRestored'
  <1>1. journal \in Journals
    BY DEF TypeOK
  <1>2. CASE journal.committed \/ journal.stuck
    BY <1>2, NothingTouched DEF RecoveryStops
  <1>3. CASE ~(journal.committed \/ journal.stuck)
    <2>1. PICK S \in SUBSET {x \in Done : node[x] # Link} :
            /\ Undo(S)
            /\ journal' = [journal EXCEPT
                             !.undo = [x \in Nodes |-> IF x \in S THEN None ELSE @[x]],
                             !.written = @ \ S,
                             !.stuck = \E x \in S : journal.undo[x] # Absent]
      BY <1>3 DEF RecoveryStops
    <2>2. /\ journal'.committed = journal.committed
          /\ journal'.files = journal.files
          /\ journal'.written = journal.written \ S
          /\ journal'.undo = [x \in Nodes |-> IF x \in S THEN None ELSE journal.undo[x]]
      BY <1>1, <2>1 DEF Journals
    <2>3. journal' # None
      <3>1. journal' \in Journals
        BY <1>1, <2>1 DEF Journals
      <3> QED BY <3>1, Kinds
    <2>4. \A x \in Nodes : UndoableAt(x)
      BY <1>3 DEF Undoable
    <2>5. ASSUME NEW x \in Nodes PROVE UndoableAt(x)'
      <3>1. CASE x \in S
        <4>1. node'[x] = kept'[x] /\ journal'.undo[x] = None /\ x \notin journal'.written
          BY <1>3, <2>1, <2>2, <3>1, UndoneIsWhole
        <4> QED BY <4>1 DEF UndoableAt
      <3>2. CASE x \notin S
        <4>1. /\ node'[x] = node[x] /\ kept'[x] = kept[x]
              /\ journal'.undo[x] = journal.undo[x]
              /\ x \in journal'.written <=> x \in journal.written
          BY <1>3, <2>1, <2>2, <3>2, UndoneIsWhole
        <4> QED BY <2>2, <2>4, <4>1 DEF UndoableAt
      <3> QED BY <3>1, <3>2
    <2> QED BY <1>3, <2>2, <2>3, <2>5 DEF Undoable, NothingHalfRestored, Restoring, At
  <1> QED BY <1>2, <1>3

\* A journal that has just been created has nothing to undo.
LEMMA OpensUndoable ==
    ASSUME NothingHalfRestored, journal = None, UNCHANGED <<node, kept>>,
           NEW files \in Archived, journal' = Opened(files),
           \/ cmd'.at = "rollback"
           \/ cmd'.at = "promote" /\ cmd'.todo = {x \in Nodes : files[x] # None}
    PROVE  Undoable' /\ NothingHalfRestored'
  <1>1. journal' # None
    BY OpenedType, Kinds
  <1>2. /\ ~journal'.committed /\ journal'.files = files /\ journal'.written = {}
        /\ \A x \in Nodes : journal'.undo[x] = None
    BY DEF Opened, NothingOf
  <1>3. node' = kept'
    BY DEF NothingHalfRestored
  <1>4. \A x \in Nodes : UndoableAt(x)'
    BY <1>2, <1>3 DEF UndoableAt
  <1> QED BY <1>1, <1>2, <1>3, <1>4 DEF Undoable, NothingHalfRestored, At

\* What an application writes during a restore is its own.
LEMMA WritesUndoable ==
    ASSUME TypeOK, Undoable, NothingHalfRestored, NEW x \in Nodes, NEW v, Writes(x, v),
           cmd' = cmd \/ \E size : cmd' = [cmd EXCEPT !.dirty = size]
    PROVE  Undoable' /\ NothingHalfRestored'
  <1>1. cmd'.at = cmd.at /\ cmd'.todo = cmd.todo
    BY DEF TypeOK, Commands
  <1>2. node' = [node EXCEPT ![x] = v] /\ kept' = [kept EXCEPT ![x] = v]
    BY DEF Writes
  <1>3. CASE journal = None
    <2>1. journal' = None
      BY <1>3 DEF Writes
    <2> QED BY <1>1, <1>2, <1>3, <2>1 DEF Undoable, NothingHalfRestored, At
  <1>4. CASE journal # None
    <2>1. journal \in Journals
      BY <1>4 DEF TypeOK
    <2>2. journal' \in Journals
      BY <1>4, <2>1 DEF Writes, Journals
    <2>3. journal' # None
      BY <2>2, Kinds
    <2>4. /\ journal'.committed = journal.committed /\ journal'.files = journal.files
          /\ journal'.undo = journal.undo
          /\ journal'.written = IF journal.undo[x] # None THEN journal.written \cup {x}
                                ELSE journal.written
      BY <1>4, <2>1 DEF Writes, Journals
    <2>5. \A y \in Nodes : node'[y] = (IF y = x THEN v ELSE node[y])
                            /\ kept'[y] = (IF y = x THEN v ELSE kept[y])
      BY <1>2 DEF TypeOK
    <2>6. \A y \in Nodes : UndoableAt(y) => UndoableAt(y)'
      BY <2>4, <2>5 DEF UndoableAt
    <2>7. NothingHalfRestored'
      BY <1>2, <1>4, <2>3, <2>4 DEF NothingHalfRestored
    <2> QED BY <1>1, <1>4, <2>3, <2>4, <2>6, <2>7 DEF Undoable, At
  <1> QED BY <1>3, <1>4

\* A creation is not a restore.
LEMMA CreateNotRestoring ==
    ASSUME TypeOK, CreateStep
    PROVE  ~Restoring' /\ ~At("recover")'
  <1> USE DEF At, Goes
  <1>0. Returns => ~Restoring' /\ ~At("recover")'
    BY DEF Returns, Resting, Restoring
  <1>1. cmd \in Commands
    BY DEF TypeOK
  <1>2. CASE inspectBackupSources
    <2>1. \/ Goto("intent")
          \/ \E x, y : cmd' = [cmd EXCEPT !.todo = x, !.expected = y] /\ cmd.at = "inspect"
      BY <1>2 DEF inspectBackupSources
    <2> QED BY <1>1, <2>1, GotoType DEF Restoring, Commands, Points
  <1>3. CASE addToArchive
    BY <1>1, <1>3 DEF addToArchive, Restoring, Commands
  <1>4. CASE Readdir
    BY <1>1, <1>4 DEF Readdir, Restoring, Commands
  <1>5. CASE walkBackupRoot
    <2>1. \/ Goto("close") \/ Returns
          \/ \E x : \/ cmd' = [cmd EXCEPT !.todo = @ \ {x}, !.consumed = @ \cup {x}]
                      /\ cmd.at = "walk"
                   \/ cmd' = [cmd EXCEPT !.todo = @ \ {x}, !.at = "copy",
                                         !.read = x, !.value = node[x]]
      BY <1>5 DEF walkBackupRoot
    <2>2. CASE Goto("close")
      BY <2>2, GotoType DEF Restoring, Points
    <2>3. CASE ~Goto("close") /\ ~Returns
      <3>1. cmd'.at \in {"walk", "copy"}
        BY <1>1, <2>1, <2>3 DEF Commands
      <3> QED BY <3>1 DEF Restoring
    <2> QED BY <1>0, <2>2, <2>3
  <1>6. CASE writeOpenFileToArchive
    <2>1. \/ Returns
          \/ \E v : cmd' = [cmd EXCEPT !.at = "walk", !.made.files[cmd.read] = v,
                                      !.read = None, !.value = None, !.dirty = "no"]
      BY <1>6 DEF writeOpenFileToArchive
    <2> QED BY <1>0, <1>1, <2>1 DEF Restoring, Commands
  <1>7. CASE closeWriters
    <2>1. \/ Returns
          \/ cmd' = [cmd EXCEPT !.at = "link", !.made.omissions = cmd.expected]
      BY <1>7 DEF closeWriters
    <2> QED BY <1>0, <1>1, <2>1 DEF Restoring, Commands
  <1>8. CASE LinkArchive
    <2>1. Returns \/ Goto("unlink")
      BY <1>8 DEF LinkArchive
    <2> QED BY <1>0, <2>1, GotoType DEF Restoring, Points
  <1>9. CASE RemoveTemp
    BY <1>0, <1>9 DEF RemoveTemp
  <1> QED BY <1>2, <1>3, <1>4, <1>5, <1>6, <1>7, <1>8, <1>9 DEF CreateStep

\* Each step of a restore, and of whoever writes beside it, keeps it undoable.
LEMMA UndoableStep ==
    ASSUME TypeOK, Undoable, NothingHalfRestored, [Next]_vars
    PROVE  Undoable' /\ NothingHalfRestored'
  <1> DEFINE Held == Undoable' /\ NothingHalfRestored'
  <1> USE DEF At, Goes, disk, bounds
  <1>0. Returns => ~Restoring'
    BY DEF Returns, Resting, Restoring
  <1>1. ASSUME NEW n \in Names, runBackupCreate(n) \/ runBackupRestore(n) PROVE Held
    <2>1. ~Restoring'
      BY <1>1 DEF runBackupCreate, runBackupRestore, Resting, Restoring
    <2> QED BY <1>1, <2>1, NothingTouched DEF runBackupCreate, runBackupRestore
  <1>2. CASE CreateStep
    <2>1. UNCHANGED <<node, journal, kept>>
      BY <1>2 DEF CreateStep, inspectBackupSources, addToArchive, Readdir, walkBackupRoot,
                  writeOpenFileToArchive, closeWriters, LinkArchive, RemoveTemp
    <2>2. ~Restoring'
      BY <1>2, CreateNotRestoring
    <2> QED BY <2>1, <2>2, NothingTouched
  <1>3. CASE CreateFails \/ Crash
    BY <1>0, <1>3, NothingTouched DEF CreateFails, Crash
  <1>4. ASSUME NEW n \in Names, Delete(n) PROVE Held
    BY <1>4 DEF Delete, Undoable, UndoableAt, NothingHalfRestored
  <1>5. CASE RestoreHooks
    <2>1. Returns \/ cmd' = [cmd EXCEPT !.at = "recover", !.target = control]
      BY <1>5 DEF RestoreHooks
    <2>2. ~Restoring'
      BY <1>0, <2>1 DEF Restoring, TypeOK, Commands
    <2> QED BY <1>5, <2>2, NothingTouched DEF RestoreHooks
  <1>6. CASE recoverRestoreTransaction
    <2>1. CASE journal = None
      <3>1. cmd'.at = "open" /\ UNCHANGED <<node, journal, kept>>
        BY <1>6, <2>1, GotoType DEF recoverRestoreTransaction, Points
      <3> QED BY <2>1, <3>1 DEF Undoable, NothingHalfRestored
    <2>2. CASE journal # None
      <3>1. \/ Goto("open") /\ Recovers
            \/ Returns /\ RecoveryStops
        BY <1>6, <2>2 DEF recoverRestoreTransaction
      <3>2. Goto("open") => cmd'.at = "open"
        BY GotoType DEF Points
      <3> QED BY <1>0, <2>2, <3>1, <3>2, RecoversUndoes, StopUndoes
    <2> QED BY <2>1, <2>2
  <1>7. CASE RecoverInterruptedRestore
    <2>1. ~Restoring'
      BY <1>7 DEF RecoverInterruptedRestore, Restoring
    <2> QED BY <1>7, <2>1, RecoversUndoes, StopUndoes DEF RecoverInterruptedRestore
  <1>8. CASE validateArchive
    <2>1. journal = None /\ UNCHANGED <<node, journal, kept>>
      BY <1>8 DEF validateArchive, Undoable
    <2>2. Returns \/ cmd' = [cmd EXCEPT !.at = "stage", !.made = archive[cmd.name]]
      BY <1>8 DEF validateArchive
    <2>3. ~Restoring' \/ cmd'.at = "stage"
      BY <1>0, <2>2 DEF TypeOK, Commands
    <2> QED BY <2>1, <2>3 DEF Undoable, NothingHalfRestored, Restoring
  <1>9. CASE stageRestoreArchive
    <2>1. /\ cmd.at = "stage" /\ journal = None /\ journal' = Opened(cmd.made.files)
          /\ UNCHANGED <<node, kept>>
      BY <1>9 DEF stageRestoreArchive, Undoable
    <2>2. /\ cmd'.at \in {"promote", "rollback"}
          /\ cmd'.todo = {x \in Nodes : cmd.made.files[x] # None}
      BY <1>9 DEF stageRestoreArchive, TypeOK, Commands
    <2>3. cmd.made.files \in Archived
      BY DEF TypeOK, Commands, Archives
    <2> QED BY <2>1, <2>2, <2>3, OpensUndoable
  <1>10. CASE promoteStagedRestoreFile
    <2>1. /\ cmd.at = "promote" /\ kept' = kept /\ journal # None /\ ~journal.committed
          /\ \A y \in Nodes : UndoableAt(y)
          /\ \A y \in cmd.todo : journal.undo[y] = None /\ journal.files[y] # None
      BY <1>10 DEF promoteStagedRestoreFile, Undoable
    <2>2. CASE UNCHANGED <<node, journal>>
      <3>1. \/ cmd'.at \in {"validate", "rollback"}
            \/ cmd'.at = "promote" /\ cmd'.todo \subseteq cmd.todo
        <4>1. CASE Goto("validate") \/ Goto("rollback")
          BY <4>1, GotoType DEF Points
        <4>2. CASE ~(Goto("validate") \/ Goto("rollback"))
          <5>1. PICK x : cmd' = [cmd EXCEPT !.todo = @ \ {x}]
            BY <1>10, <4>2 DEF promoteStagedRestoreFile
          <5> QED BY <2>1, <5>1 DEF TypeOK, Commands
        <4> QED BY <4>1, <4>2
      <3> QED BY <2>1, <2>2, <3>1 DEF Undoable, UndoableAt, NothingHalfRestored
    <2>3. CASE ~(UNCHANGED <<node, journal>>)
      <3>1. PICK x \in cmd.todo :
              /\ cmd' = [cmd EXCEPT !.todo = @ \ {x}]
              /\ journal' = [journal EXCEPT !.undo[x] = node[x]]
              /\ node' = [node EXCEPT ![x] = journal.files[x]]
        BY <1>10, <2>3 DEF promoteStagedRestoreFile
      <3>2. x \in Nodes /\ journal \in Journals /\ node[x] \in Values
        BY <2>1 DEF TypeOK, Commands
      <3>3. cmd'.at = "promote" /\ cmd'.todo = cmd.todo \ {x}
        BY <2>1, <3>1 DEF TypeOK, Commands
      <3>4. /\ journal'.committed = journal.committed /\ journal'.files = journal.files
            /\ journal'.written = journal.written
            /\ \A y \in Nodes : journal'.undo[y] = IF y = x THEN node[x] ELSE journal.undo[y]
        BY <3>1, <3>2 DEF Journals
      <3>5. journal' # None
        <4>1. [journal.undo EXCEPT ![x] = node[x]] \in [Nodes -> Values \cup {None}]
          BY <3>2 DEF Journals
        <4>2. journal' \in Journals
          BY <3>1, <3>2, <4>1 DEF Journals
        <4> QED BY <4>2, Kinds
      <3>6. \A y \in Nodes : node'[y] = IF y = x THEN journal.files[x] ELSE node[y]
        BY <3>1 DEF TypeOK
      <3>7. node[x] # None
        BY <3>2, Kinds DEF Values, Files
      <3>8. \A y \in Nodes : UndoableAt(y)'
        BY <2>1, <3>2, <3>4, <3>6, <3>7 DEF UndoableAt
      <3>9. \A y \in cmd'.todo : journal'.undo[y] = None /\ journal'.files[y] # None
        BY <2>1, <3>3, <3>4 DEF TypeOK, Commands
      <3> QED BY <2>1, <3>3, <3>4, <3>5, <3>8, <3>9 DEF Undoable, NothingHalfRestored
    <2> QED BY <2>2, <2>3
  <1>11. CASE ValidateRestored
    <2>1. cmd'.at \in {"commit", "rollback"}
      BY <1>11, GotoType DEF ValidateRestored, Points
    <2> QED BY <1>11, <2>1 DEF ValidateRestored, Undoable, UndoableAt, NothingHalfRestored
  <1>12. CASE Commit
    <2>1. cmd'.at = "clean"
      BY <1>12, GotoType DEF Commit, Points
    <2>2. journal # None /\ ~journal.committed /\ journal \in Journals
      BY <1>12 DEF Commit, Undoable, TypeOK
    <2>3. journal' \in Journals /\ journal'.committed
      BY <1>12, <2>2 DEF Commit, Journals
    <2>4. \A x \in Nodes : kept'[x] = node[x]
      BY <1>12, <2>2 DEF Commit, Undoable, UndoableAt, Done
    <2>5. kept' = node'
      BY <1>12, <2>4 DEF Commit, TypeOK
    <2> QED BY <2>1, <2>3, <2>5, Kinds DEF Undoable, NothingHalfRestored
  <1>13. CASE RestoreFails
    <2>1. cmd'.at = "rollback" /\ UNCHANGED <<node, kept>>
      BY <1>13, GotoType DEF RestoreFails, Points
    <2>2. CASE cmd.at = "stage"
      <3>1. journal' = Opened(cmd.made.files) /\ journal = None
        BY <1>13, <2>2 DEF RestoreFails, Undoable
      <3>2. cmd.made.files \in Archived
        BY DEF TypeOK, Commands, Archives
      <3> QED BY <2>1, <3>1, <3>2, OpensUndoable
    <2>3. CASE cmd.at # "stage"
      BY <1>13, <2>1, <2>3 DEF RestoreFails, Undoable, UndoableAt, NothingHalfRestored
    <2> QED BY <2>2, <2>3
  <1>14. CASE Rollback
    <2>1. journal # None /\ (Recovers \/ RecoveryStops) /\ Returns
      BY <1>14 DEF Rollback, Undoable
    <2> QED BY <1>0, <2>1, RecoversUndoes, StopUndoes
  <1>15. CASE removeRestoreJournal
    <2>1. journal.committed /\ journal' \in {None, journal} /\ UNCHANGED <<node, kept>>
      BY <1>15 DEF removeRestoreJournal, Undoable
    <2>2. ~Restoring'
      BY <1>0, <1>15 DEF removeRestoreJournal
    <2> QED BY <2>1, <2>2 DEF Undoable, NothingHalfRestored, Restoring
  <1>16. ASSUME NEW g \in Generations, Regenerate(g) PROVE Held
    BY <1>16 DEF Regenerate, Undoable, UndoableAt, NothingHalfRestored
  <1>17. ASSUME NEW x \in Nodes, Replace(x) \/ Overwrite(x) PROVE Held
    <2>1. PICK v : Writes(x, v) /\ (cmd' = cmd \/ \E size : cmd' = [cmd EXCEPT !.dirty = size])
      BY <1>17 DEF Replace, Overwrite
    <2> QED BY <2>1, WritesUndoable
  <1>18. CASE UNCHANGED vars
    BY <1>18 DEF vars, Undoable, UndoableAt, NothingHalfRestored
  <1> QED
    BY <1>1, <1>2, <1>3, <1>4, <1>5, <1>6, <1>7, <1>8, <1>9, <1>10, <1>11, <1>12, <1>13,
       <1>14, <1>15, <1>16, <1>17, <1>18
    DEF Next, RestoreStep
-----------------------------------------------------------------------------
(* Which generation a restore is about.                                      *)

Targeted == cmd.at \in {"recover", "open", "stage", "promote", "validate", "commit"}

\* A command that is not restoring has no target.
LEMMA NoTarget ==
    ASSUME OneGeneration, UNCHANGED control, ~Targeted'
    PROVE  OneGeneration'
  BY DEF OneGeneration, OneGenerationRestored, Targeted

\* A restore keeps its target, and promotes an archive only of that.
LEMMA GenerationStep ==
    ASSUME TypeOK, OneGeneration, [Next]_vars
    PROVE  OneGeneration'
  <1> USE DEF At, Goes, disk, bounds
  <1>0. Returns => ~Targeted'
    BY DEF Returns, Resting, Targeted
  <1>c. cmd \in Commands
    BY DEF TypeOK
  <1>1. ASSUME NEW n \in Names, runBackupCreate(n) \/ runBackupRestore(n)
        PROVE  OneGeneration'
    <2>1. ~Targeted'
      BY <1>1 DEF runBackupCreate, runBackupRestore, Resting, Targeted
    <2> QED BY <1>1, <2>1, NoTarget DEF runBackupCreate, runBackupRestore
  <1>2. CASE CreateStep
    <2>1. UNCHANGED control
      BY <1>2 DEF CreateStep, inspectBackupSources, addToArchive, Readdir, walkBackupRoot,
                  writeOpenFileToArchive, closeWriters, LinkArchive, RemoveTemp
    <2>2. ~Targeted'
      BY <1>2, CreateNotRestoring DEF Restoring, Targeted
    <2> QED BY <2>1, <2>2, NoTarget
  <1>3. CASE CreateFails \/ Crash
    BY <1>0, <1>3, NoTarget DEF CreateFails, Crash
  <1>4. ASSUME NEW n \in Names, Delete(n) PROVE OneGeneration'
    BY <1>4 DEF Delete, OneGeneration, OneGenerationRestored
  <1>5. CASE RestoreHooks
    <2>1. CASE VerifyGeneratedRuntime
      <3>1. cmd' = [cmd EXCEPT !.at = "recover", !.target = control] /\ control' = control
        BY <1>5, <2>1 DEF RestoreHooks
      <3>2. cmd'.at = "recover" /\ cmd'.target = control
        BY <1>c, <3>1 DEF Commands
      <3> QED BY <3>1, <3>2 DEF OneGeneration, OneGenerationRestored
    <2>2. CASE ~VerifyGeneratedRuntime
      BY <1>0, <1>5, <2>2, NoTarget DEF RestoreHooks
    <2> QED BY <2>1, <2>2
  <1>6. CASE recoverRestoreTransaction
    <2>1. control' = control /\ cmd.at = "recover" /\ (Returns \/ Goto("open"))
      BY <1>6 DEF recoverRestoreTransaction
    <2>2. CASE Returns
      BY <1>0, <2>1, <2>2, NoTarget
    <2>3. CASE Goto("open")
      <3>1. cmd'.at = "open" /\ cmd'.target = cmd.target
        BY <1>c, <2>3 DEF Goto, Commands
      <3> QED BY <2>1, <3>1 DEF OneGeneration, OneGenerationRestored
    <2> QED BY <2>1, <2>2, <2>3
  <1>7. CASE RecoverInterruptedRestore
    BY <1>7 DEF RecoverInterruptedRestore, OneGeneration, OneGenerationRestored
  <1>8. CASE validateArchive
    <2>1. /\ control' = control /\ cmd.at = "open"
          /\ Returns \/ cmd' = [cmd EXCEPT !.at = "stage", !.made = archive[cmd.name]]
      BY <1>8 DEF validateArchive
    <2>2. CASE Returns
      BY <1>0, <2>1, <2>2, NoTarget
    <2>3. CASE cmd' = [cmd EXCEPT !.at = "stage", !.made = archive[cmd.name]]
      <3>1. cmd'.at = "stage" /\ cmd'.target = cmd.target
        BY <1>c, <2>3 DEF Commands
      <3> QED BY <2>1, <3>1 DEF OneGeneration, OneGenerationRestored
    <2> QED BY <2>1, <2>2, <2>3
  <1>9. CASE stageRestoreArchive
    <2>1. /\ control' = control /\ cmd.at = "stage"
          /\ cmd' = [cmd EXCEPT
                       !.at = IF validateArchivedProject(cmd.made)
                              THEN "promote" ELSE "rollback",
                       !.todo = {x \in Nodes : cmd.made.files[x] # None}]
      BY <1>9 DEF stageRestoreArchive
    <2>2. CASE validateArchivedProject(cmd.made)
      <3>1. cmd'.at = "promote" /\ cmd'.made = cmd.made
        BY <1>c, <2>1, <2>2 DEF Commands
      <3>2. cmd.made.control.intent = cmd.made.control.lock
        BY <2>1, <2>2 DEF validateArchivedProject, OneGeneration
      <3> QED BY <2>1, <3>1, <3>2 DEF OneGeneration, OneGenerationRestored
    <2>3. CASE ~validateArchivedProject(cmd.made)
      <3>1. ~Targeted'
        BY <1>c, <2>1, <2>3 DEF Commands, Targeted
      <3> QED BY <2>1, <3>1, NoTarget
    <2> QED BY <2>2, <2>3
  <1>10. CASE promoteStagedRestoreFile
    <2>1. control' = control /\ cmd.at = "promote"
      BY <1>10 DEF promoteStagedRestoreFile, KeepGenerated
    <2>2. \/ Goto("validate") \/ Goto("rollback")
          \/ \E x : cmd' = [cmd EXCEPT !.todo = @ \ {x}]
      BY <1>10 DEF promoteStagedRestoreFile
    <2>3. cmd'.made = cmd.made /\ cmd'.at \in {"promote", "validate", "rollback"}
      <3>1. CASE Goto("validate") \/ Goto("rollback")
        BY <1>c, <3>1 DEF Goto, Commands
      <3>2. CASE ~(Goto("validate") \/ Goto("rollback"))
        BY <1>c, <2>1, <2>2, <3>2 DEF Commands
      <3> QED BY <3>1, <3>2
    <2> QED BY <2>1, <2>3 DEF OneGeneration, OneGenerationRestored
  <1>11. CASE ValidateRestored
    <2>1. /\ control' = control /\ cmd.at = "validate"
          /\ Goto("commit") \/ Goto("rollback")
      BY <1>11 DEF ValidateRestored
    <2>2. cmd'.made = cmd.made /\ cmd'.at \in {"commit", "rollback"}
      BY <1>c, <2>1 DEF Goto, Commands
    <2> QED BY <2>1, <2>2 DEF OneGeneration, OneGenerationRestored
  <1>12. CASE Commit \/ RestoreFails
    <2>1. control' = control /\ (Goto("clean") \/ Goto("rollback"))
      BY <1>12 DEF Commit, RestoreFails
    <2>2. ~Targeted'
      BY <1>c, <2>1 DEF Goto, Commands, Targeted
    <2> QED BY <2>1, <2>2, NoTarget
  <1>13. CASE Rollback \/ removeRestoreJournal
    BY <1>0, <1>13, NoTarget DEF Rollback, removeRestoreJournal
  <1>14. ASSUME NEW g \in Generations, Regenerate(g) PROVE OneGeneration'
    BY <1>14 DEF Regenerate, OneGeneration, OneGenerationRestored
  <1>15. ASSUME NEW x \in Nodes, Replace(x) \/ Overwrite(x) PROVE OneGeneration'
    <2>1. /\ control' = control
          /\ cmd' = cmd \/ \E size : cmd' = [cmd EXCEPT !.dirty = size]
      BY <1>15 DEF Replace, Overwrite, Writes
    <2>2. cmd'.at = cmd.at /\ cmd'.made = cmd.made /\ cmd'.target = cmd.target
      BY <1>c, <2>1 DEF Commands
    <2> QED BY <2>1, <2>2 DEF OneGeneration, OneGenerationRestored
  <1>16. CASE UNCHANGED vars
    BY <1>16 DEF vars, OneGeneration, OneGenerationRestored
  <1> QED
    BY <1>1, <1>2, <1>3, <1>4, <1>5, <1>6, <1>7, <1>8, <1>9, <1>10, <1>11, <1>12, <1>13,
       <1>14, <1>15, <1>16
    DEF Next, RestoreStep

-----------------------------------------------------------------------------
(* The theorems.                                                             *)

\* The first state: no command, no journal, and every file as it was left.
LEMMA Begins == Init => IInv
  <1> SUFFICES ASSUME Init PROVE IInv
    OBVIOUS
  <1>1. FirstControl \in Controls
    BY Kinds DEF FirstControl, Controls, Generations
  <1>2. cmd \in Commands /\ cmd.at = "idle"
    BY RestingType DEF Init, Resting
  <1>3. TypeOK
    BY <1>1, <1>2, Kinds DEF Init, TypeOK, Values, Files
  <1>4. Named /\ Seen
    BY <1>2 DEF Named, Seen, Creating, At
  <1>5. Undoable /\ NothingHalfRestored
    BY <1>2 DEF Init, Undoable, NothingHalfRestored, At
  <1>6. OneGeneration
    BY <1>2 DEF Init, FirstControl, OneGeneration, OneGenerationRestored
  <1> QED BY <1>3, <1>4, <1>5, <1>6 DEF IInv

LEMMA Stays == IInv /\ [Next]_vars => IInv'
  BY TypeStep, SeenStep, UndoableStep, GenerationStep DEF IInv

\* The invariant is inductive: every step of a creation, of a restore, of a
\* recovery and of what goes on beside them keeps it.
THEOREM Inductive == Spec => []IInv
  BY Begins, Stays, PTL DEF Spec

\* Every file, archive, journal and command keeps its type, for any set of
\* files and archives: no step of promoteStagedRestoreFile or of a recovery
\* leaves a file that is no value of its journal.
THEOREM TypeCorrect == Spec => []TypeOK
  BY Inductive, PTL DEF IInv

\* What an archive says of each file was so while it was made, however many
\* files there are and however often applications change them between the two
\* walks of createEncryptedBackupFromPreview.
THEOREM AccountsForAll == Spec => []ArchiveAccountsForAll
  <1>1. IInv => ArchiveAccountsForAll
    <2> SUFFICES ASSUME IInv, At("link") PROVE ArchiveAccountsForAll
      BY DEF ArchiveAccountsForAll
    <2>1. /\ cmd.todo = {} /\ cmd.made.omissions = cmd.consumed
          /\ \A x \in Nodes : SeenAt(x) /\ PassedAt(x)
      BY DEF IInv, Seen, Creating, At
    <2>2. ASSUME NEW x \in Nodes
          PROVE  /\ cmd.made.files[x] # None =>
                      cmd.made.files[x] \in had[x] \cup {Torn} /\ x \notin cmd.made.omissions
                 /\ x \in cmd.made.omissions => Link \in had[x]
                 /\ cmd.made.files[x] = None /\ x \notin cmd.made.omissions => Absent \in had[x]
      BY <2>1, <2>2 DEF SeenAt, PassedAt, Walking, At
    <2> QED BY <2>2 DEF ArchiveAccountsForAll
  <1> QED BY <1>1, Inductive, PTL

\* After a restore that returned, failed, was killed or was recovered in any
\* part by promoteStagedRestoreFile's journal, every file is what an
\* application or a whole restore last made of it, unless a journal that is
\* not committed says what is still to be undone.
THEOREM RestoresWhole == Spec => []NothingHalfRestored
  BY Inductive, PTL DEF IInv

\* No archive whose intent and lock belong to two generations is promoted,
\* however often another process regenerates: validateArchivedProject compares
\* both with a target that was verified.
THEOREM OneGenerationOnly == Spec => []OneGenerationRestored
  BY Inductive, PTL DEF IInv, OneGeneration
=============================================================================
