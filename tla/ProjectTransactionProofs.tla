---------------------- MODULE ProjectTransactionProofs ----------------------
(***************************************************************************)
(* Theorems about ProjectTransaction, for any number of entries, any       *)
(* directory tree and any contents.  IInv is the inductive invariant: it    *)
(* says what each step of a command may rely on, and above all what is     *)
(* already restored at each point of a rollback and of the removal of the   *)
(* journal.                                                                *)
(***************************************************************************)
EXTENDS ProjectTransaction, TLAPS

Uncommitted == manifest \in {"prepared", "promoting"}

\* What of the journal exists at each point of a command.
JournalShape ==
    /\ ~jdir => manifest = "none" /\ backups = {}
    /\ pc = "ready" => ~jdir
    /\ pc \in Steps \ {"idle", "recovering", "ready"} => jdir
    /\ pc \in {"staging", "staged"} => manifest = "none"
    /\ pc = "prepared" => manifest = "prepared"
    /\ pc \in {"applying", "owning", "committing"} => manifest = "promoting"
    /\ pc = "rollback" => Uncommitted
    /\ reply = "refused" => pc = "idle"

\* Until promotion begins, what was recorded is what is there.
Recorded == pc \in {"staged", "prepared"} => orig = disk

\* The copies that a rollback will need exist while one may still be needed.
BackupsTaken ==
    pc \in {"staged", "prepared", "applying", "owning", "committing"}
        => Existed \cap Files \subseteq backups

Promoted ==
    /\ pc = "applying" => pos > 0 /\ \A i \in Entries : i < pos => disk[i] = desired[i]
    /\ pc \in {"owning", "committing"} => disk = desired

\* What rollback has restored by the time it reaches pos.
Restored ==
    pc = "rollback" =>
        /\ pos <= N
        /\ errs = {} => \A i \in Entries : i > pos => disk[i] = orig[i]
        /\ "io" \notin errs => \A i \in Files : i > pos => disk[i] = orig[i]

\* The journal of an uncommitted transaction is removed only when nothing of it
\* is left.
RemovedWhenRestored == pc = "removing" /\ Uncommitted => disk = orig

IInv ==
    /\ TypeOK
    /\ JournalShape
    /\ Recorded
    /\ BackupsTaken
    /\ Promoted
    /\ Restored
    /\ RemovedWhenRestored
    /\ BackupsUntilRestored
    /\ CommittedIsWhole
    /\ RefusalIsHarmless
---------------------------------------------------------------------------
(* Every variable keeps its type. *)

LEMMA Positions ==
    /\ N \in Nat
    /\ 0 \in 0..(N + 1) /\ 1 \in 0..(N + 1) /\ N \in 0..(N + 1)
    /\ \A p \in 0..(N + 1) : p > 0 => p - 1 \in 0..(N + 1)
    /\ \A p \in 0..(N + 1) : p <= N => p + 1 \in 0..(N + 1)
    /\ \A p \in 0..(N + 1) : p > 0 /\ p <= N => p \in Entries
  BY ProjectAssumption DEF Entries

LEMMA TypeStep == TypeOK /\ [Next]_vars => TypeOK'
<1> SUFFICES ASSUME TypeOK, [Next]_vars PROVE TypeOK'
  OBVIOUS
<1> USE DEF TypeOK, Steps, journal
<1>0. Absent \in Value /\ Content \subseteq Value
  BY DEF Value
<1>1. CASE Start
  BY <1>1 DEF Start
<1>2. CASE RecoverNothing
  BY <1>2 DEF RecoverNothing
<1>3. CASE RecoverByRemoving
  BY <1>3 DEF RecoverByRemoving
<1>4. CASE RecoverByRollback
  BY <1>4, Positions DEF RecoverByRollback
<1>5. CASE RollbackEntry
  <2>1. orig[pos] \in Value \/ pos \notin Entries
    OBVIOUS
  <2>2. disk' \in [Entries -> Value]
    BY <1>5, <2>1 DEF RollbackEntry
  <2>3. pos' \in 0..(N + 1)
    BY <1>5, Positions DEF RollbackEntry
  <2>4. errs' \subseteq {"io", "backup", "notempty"}
    BY <1>5 DEF RollbackEntry, RollbackError
  <2> QED
    BY <1>5, <2>2, <2>3, <2>4 DEF RollbackEntry
<1>6. CASE RollbackDone
  BY <1>6 DEF RollbackDone
<1>7. CASE RollbackIncomplete
  BY <1>7 DEF RollbackIncomplete
<1>8. CASE RemoveBackup
  BY <1>8 DEF RemoveBackup
<1>9. CASE RemoveManifest
  BY <1>9 DEF RemoveManifest
<1>10. CASE RemoveDir
  BY <1>0, <1>10 DEF RemoveDir, Blank
<1>11. CASE MakeJournal
  BY <1>11 DEF MakeJournal
<1>12. CASE Stage
  <2>1. desired' \in [Entries -> Value]
    BY <1>0, <1>12 DEF Stage
  <2> QED
    BY <1>12, <2>1 DEF Stage, Files
<1>13. CASE WritePrepared
  BY <1>13 DEF WritePrepared
<1>14. CASE WritePromoting
  BY <1>14, Positions DEF WritePromoting
<1>15. CASE PromoteEntry
  <2>1. disk' \in [Entries -> Value]
    BY <1>15 DEF PromoteEntry
  <2>2. pos' \in 0..(N + 1)
    BY <1>15, Positions DEF PromoteEntry
  <2> QED
    BY <1>15, <2>1, <2>2 DEF PromoteEntry
<1>16. CASE PromoteDone
  BY <1>16 DEF PromoteDone
<1>17. CASE FixOwnership
  BY <1>17 DEF FixOwnership
<1>18. CASE WriteCommitted
  BY <1>18 DEF WriteCommitted
<1>19. CASE EndCommand
  BY <1>19 DEF EndCommand
<1>20. CASE RecoverReadFails
  BY <1>20 DEF RecoverReadFails
<1>21. CASE RollbackEntryFails
  <2>1. disk' \in [Entries -> Value]
    BY <1>21 DEF RollbackEntryFails
  <2>2. pos' \in 0..(N + 1)
    BY <1>21, Positions DEF RollbackEntryFails
  <2> QED
    BY <1>21, <2>1, <2>2 DEF RollbackEntryFails
<1>22. CASE RemoveFails
  BY <1>22 DEF RemoveFails
<1>23. CASE StageFails
  BY <1>23 DEF StageFails
<1>24. CASE WriteManifestFails
  BY <1>24 DEF WriteManifestFails
<1>25. CASE PromoteFails
  <2>1. disk' \in [Entries -> Value]
    BY <1>25 DEF PromoteFails
  <2> QED
    BY <1>25, <2>1, Positions DEF PromoteFails
<1>26. CASE FixOwnershipFails
  BY <1>26, Positions DEF FixOwnershipFails
<1>27. CASE WriteCommittedFails
  BY <1>27 DEF WriteCommittedFails
<1>28. CASE Crash
  <2>1. litter' \subseteq Dirs \cup {0}
    BY <1>28, ProjectAssumption DEF Crash, WritingIn, Files
  <2> QED
    BY <1>28, <2>1, Positions DEF Crash
<1>29. CASE UNCHANGED vars
  BY <1>29 DEF vars
<1> QED
  BY <1>1, <1>2, <1>3, <1>4, <1>5, <1>6, <1>7, <1>8, <1>9, <1>10, <1>11, <1>12,
     <1>13, <1>14, <1>15, <1>16, <1>17, <1>18, <1>19, <1>20, <1>21, <1>22, <1>23, <1>24,
     <1>25, <1>26, <1>27, <1>28, <1>29
     DEF Next, Step, IOError, Recovery, Rollback, Removal, Generation

\* Type correctness, in every state of every run.
THEOREM TypeCorrect == Spec => []TypeOK
<1>1. Init => TypeOK
  <2> SUFFICES ASSUME Init PROVE TypeOK
    OBVIOUS
  <2>1. Blank \in [Entries -> Value]
    BY DEF Blank, Value
  <2> QED
    BY <2>1, Positions DEF Init, TypeOK, Steps
<1> QED
  BY <1>1, TypeStep, PTL DEF Spec

---------------------------------------------------------------------------
(* The inductive invariant. *)

LEMMA InvStep == IInv /\ [Next]_vars => IInv'
<1> SUFFICES ASSUME IInv, [Next]_vars PROVE IInv'
  OBVIOUS
<1>0. TypeOK /\ TypeOK'
  BY TypeStep DEF IInv
<1>a. UNCHANGED orig => UNCHANGED Existed
  BY DEF Existed
<1>b. /\ N \in Nat /\ pos \in 0..(N + 1) /\ pos' \in 0..(N + 1)
      /\ Entries = 1..N /\ Files \subseteq Entries
      /\ disk \in [Entries -> Value] /\ orig \in [Entries -> Value] /\ desired \in [Entries -> Value]
  BY <1>0, Positions DEF TypeOK, Files, Entries
<1> USE <1>0 DEF IInv, JournalShape, Recorded, BackupsTaken, Promoted, Restored,
                 RemovedWhenRestored, BackupsUntilRestored, CommittedIsWhole,
                 RefusalIsHarmless, Uncommitted, Steps, journal
<1>1. CASE Start
  BY <1>1, <1>a, <1>b DEF Start
<1>2. CASE RecoverNothing
  BY <1>2, <1>a, <1>b DEF RecoverNothing
<1>3. CASE RecoverByRemoving
  BY <1>3, <1>a, <1>b DEF RecoverByRemoving
<1>4. CASE RecoverByRollback
  BY <1>4, <1>a, <1>b DEF RecoverByRollback
<1>5. CASE RollbackEntry
  <2>1. pos \in Entries /\ pos' = pos - 1
    BY <1>5, <1>b DEF RollbackEntry
  <2>2. \A i \in Entries : disk'[i] = disk[i] \/ disk'[i] = orig[i]
    BY <1>5, <1>b DEF RollbackEntry
  <2>3. errs' = {} => errs = {} /\ RollbackError(pos) = {}
    BY <1>5 DEF RollbackEntry
  <2>4. errs' = {} => \A i \in Entries : i > pos' => disk'[i] = orig[i]
    BY <1>5, <1>b, <2>1, <2>3 DEF RollbackEntry
  \* An entry that is left alone has either lost its backup, and then nothing
  \* was left to restore, or it is a directory.
  <2>5. pos \in Files => disk'[pos] = orig[pos]
    <3>1. CASE RollbackError(pos) = {}
      BY <1>5, <1>b, <2>1, <3>1 DEF RollbackEntry
    <3>2. CASE RollbackError(pos) # {}
      <4>1. pos \in Files => pos \in Existed /\ pos \notin backups
        BY <3>2 DEF RollbackError
      <4>2. pos \in Files => disk = orig
        BY <1>5, <4>1 DEF RollbackEntry
      <4>3. disk' = disk
        BY <1>5, <3>2 DEF RollbackEntry
      <4> QED
        BY <4>2, <4>3
    <3> QED
      BY <3>1, <3>2
  <2>6. "io" \notin errs' => \A i \in Files : i > pos' => disk'[i] = orig[i]
    <3>1. "io" \notin errs' => "io" \notin errs
      BY <1>5 DEF RollbackEntry
    <3>2. \A i \in Files : i > pos' => i > pos \/ i = pos
      BY <1>b, <2>1
    <3> QED
      BY <1>5, <1>b, <2>2, <2>5, <3>1, <3>2 DEF RollbackEntry
  \* What was restored already stays restored.
  <2>7. disk = orig => disk' = orig'
    BY <1>5, <1>b DEF RollbackEntry
  <2> QED
    BY <1>5, <1>a, <1>b, <2>1, <2>4, <2>6, <2>7 DEF RollbackEntry
<1>6. CASE RollbackDone
  BY <1>6, <1>a, <1>b DEF RollbackDone
<1>7. CASE RollbackIncomplete
  BY <1>7, <1>a, <1>b DEF RollbackIncomplete
<1>8. CASE RemoveBackup
  BY <1>8, <1>a, <1>b DEF RemoveBackup
<1>9. CASE RemoveManifest
  BY <1>9, <1>a, <1>b DEF RemoveManifest
<1>10. CASE RemoveDir
  BY <1>10, <1>a, <1>b DEF RemoveDir
<1>11. CASE MakeJournal
  BY <1>11, <1>a, <1>b DEF MakeJournal
<1>12. CASE Stage
  <2>1. Existed' = {i \in Entries : disk[i] # Absent}
    BY <1>12 DEF Stage, Existed
  <2>2. Existed' \cap Files \subseteq backups'
    BY <1>12, <2>1 DEF Stage
  <2> QED
    BY <1>12, <2>2 DEF Stage
<1>13. CASE WritePrepared
  BY <1>13, <1>a, <1>b DEF WritePrepared
<1>14. CASE WritePromoting
  BY <1>14, <1>a, <1>b DEF WritePromoting
<1>15. CASE PromoteEntry
  BY <1>15, <1>a, <1>b DEF PromoteEntry
<1>16. CASE PromoteDone
  BY <1>16, <1>a, <1>b DEF PromoteDone
<1>17. CASE FixOwnership
  BY <1>17, <1>a, <1>b DEF FixOwnership
<1>18. CASE WriteCommitted
  BY <1>18, <1>a, <1>b DEF WriteCommitted
<1>19. CASE EndCommand
  BY <1>19, <1>a, <1>b DEF EndCommand
<1>20. CASE RecoverReadFails
  BY <1>20, <1>a, <1>b DEF RecoverReadFails
<1>21. CASE RollbackEntryFails
  BY <1>21, <1>a, <1>b DEF RollbackEntryFails
<1>22. CASE RemoveFails
  BY <1>22, <1>a, <1>b DEF RemoveFails
<1>23. CASE StageFails
  BY <1>23, <1>a, <1>b DEF StageFails
<1>24. CASE WriteManifestFails
  BY <1>24, <1>a, <1>b DEF WriteManifestFails
<1>25. CASE PromoteFails
  BY <1>25, <1>a, <1>b DEF PromoteFails
<1>26. CASE FixOwnershipFails
  BY <1>26, <1>a, <1>b DEF FixOwnershipFails
<1>27. CASE WriteCommittedFails
  BY <1>27, <1>a, <1>b DEF WriteCommittedFails
<1>28. CASE Crash
  BY <1>28, <1>a, <1>b DEF Crash
<1>29. CASE UNCHANGED vars
  BY <1>29, <1>a DEF vars
<1> QED
  BY <1>1, <1>2, <1>3, <1>4, <1>5, <1>6, <1>7, <1>8, <1>9, <1>10, <1>11, <1>12,
     <1>13, <1>14, <1>15, <1>16, <1>17, <1>18, <1>19, <1>20, <1>21, <1>22, <1>23, <1>24,
     <1>25, <1>26, <1>27, <1>28, <1>29
     DEF Next, Step, IOError, Recovery, Rollback, Removal, Generation

LEMMA Inductive == Spec => []IInv
<1>1. Init => IInv
  <2> SUFFICES ASSUME Init PROVE IInv
    OBVIOUS
  <2>1. TypeOK
    <3>1. Blank \in [Entries -> Value]
      BY DEF Blank, Value
    <3> QED
      BY <3>1, Positions DEF Init, TypeOK, Steps
  <2> QED
    BY <2>1 DEF Init, IInv, JournalShape, Recorded, BackupsTaken, Promoted, Restored,
                RemovedWhenRestored, BackupsUntilRestored, CommittedIsWhole,
                RefusalIsHarmless, Uncommitted, Steps
<1> QED
  BY <1>1, InvStep, PTL DEF Spec

\* A backup is deleted only when every destination is as it was, or when the
\* transaction is committed.
THEOREM BackupsSafe == Spec => []BackupsUntilRestored
<1>1. IInv => BackupsUntilRestored
  BY DEF IInv
<1> QED
  BY <1>1, Inductive, PTL

\* A journal that says committed stands for a complete project.
THEOREM CommittedWhole == Spec => []CommittedIsWhole
<1>1. IInv => CommittedIsWhole
  BY DEF IInv
<1> QED
  BY <1>1, Inductive, PTL

\* A refusal that no I/O error explains leaves every file as it was.
THEOREM RefusalHarmless == Spec => []RefusalIsHarmless
<1>1. IInv => RefusalIsHarmless
  BY DEF IInv
<1> QED
  BY <1>1, Inductive, PTL

---------------------------------------------------------------------------
(* The refinement: Commit is the write of the committed manifest, Request   *)
(* is the staging, and everything else is a stutter or an abandoned request. *)

Requested == IF pc \in {"staged", "prepared", "applying", "owning", "committing"}
             THEN desired ELSE Absent
Answer == IF reply = "refused" THEN "error" ELSE reply

\* What each step does, in terms of the project, the request and the answer.
LEMMA StepPromise ==
    IInv /\ [Next]_vars =>
        \/ UNCHANGED <<Effective, Requested, Answer>>
        \/ Requested = Absent /\ Requested' \in [Entries -> Value]
             /\ UNCHANGED <<Effective, Answer>>
        \/ Requested \in [Entries -> Value] /\ Effective' = Requested
             /\ Requested' = Absent /\ Answer' \in {"ok", "error"}
        \/ Requested' = Absent /\ Answer' \in {"none", "error"} /\ UNCHANGED Effective
<1> SUFFICES ASSUME IInv, [Next]_vars
             PROVE \/ UNCHANGED <<Effective, Requested, Answer>>
                   \/ Requested = Absent /\ Requested' \in [Entries -> Value]
                        /\ UNCHANGED <<Effective, Answer>>
                   \/ Requested \in [Entries -> Value] /\ Effective' = Requested
                        /\ Requested' = Absent /\ Answer' \in {"ok", "error"}
                   \/ Requested' = Absent /\ Answer' \in {"none", "error"}
                        /\ UNCHANGED Effective
  OBVIOUS
<1>a. desired \in [Entries -> Value] /\ desired' \in [Entries -> Value]
  BY TypeStep DEF IInv, TypeOK
<1> USE <1>a DEF Effective, Requested, Answer, journal
<1>1. CASE Start
  BY <1>1 DEF Start, IInv, JournalShape, Recorded, Promoted, RemovedWhenRestored, Uncommitted
<1>2. CASE RecoverNothing
  BY <1>2 DEF RecoverNothing, IInv, JournalShape, Recorded, Promoted, RemovedWhenRestored, Uncommitted
<1>3. CASE RecoverByRemoving
  BY <1>3 DEF RecoverByRemoving, IInv, JournalShape, Recorded, Promoted, RemovedWhenRestored, Uncommitted
<1>4. CASE RecoverByRollback
  BY <1>4 DEF RecoverByRollback, IInv, JournalShape, Recorded, Promoted, RemovedWhenRestored, Uncommitted
<1>5. CASE RollbackEntry
  BY <1>5 DEF RollbackEntry, IInv, JournalShape, Recorded, Promoted, RemovedWhenRestored, Uncommitted
<1>6. CASE RollbackDone
  BY <1>6 DEF RollbackDone, IInv, JournalShape, Recorded, Promoted, RemovedWhenRestored, Uncommitted
<1>7. CASE RollbackIncomplete
  BY <1>7 DEF RollbackIncomplete, IInv, JournalShape, Recorded, Promoted, RemovedWhenRestored, Uncommitted
<1>8. CASE RemoveBackup
  BY <1>8 DEF RemoveBackup, IInv, JournalShape, Recorded, Promoted, RemovedWhenRestored, Uncommitted
<1>9. CASE RemoveManifest
  BY <1>9 DEF RemoveManifest, IInv, JournalShape, Recorded, Promoted, RemovedWhenRestored, Uncommitted
<1>10. CASE RemoveDir
  BY <1>10 DEF RemoveDir, IInv, JournalShape, Recorded, Promoted, RemovedWhenRestored, Uncommitted
<1>11. CASE MakeJournal
  BY <1>11 DEF MakeJournal, IInv, JournalShape, Recorded, Promoted, RemovedWhenRestored, Uncommitted
<1>12. CASE Stage
  BY <1>12 DEF Stage, IInv, JournalShape, Recorded, Promoted, RemovedWhenRestored, Uncommitted
<1>13. CASE WritePrepared
  BY <1>13 DEF WritePrepared, IInv, JournalShape, Recorded, Promoted, RemovedWhenRestored, Uncommitted
<1>14. CASE WritePromoting
  BY <1>14 DEF WritePromoting, IInv, JournalShape, Recorded, Promoted, RemovedWhenRestored, Uncommitted
<1>15. CASE PromoteEntry
  BY <1>15 DEF PromoteEntry, IInv, JournalShape, Recorded, Promoted, RemovedWhenRestored, Uncommitted
<1>16. CASE PromoteDone
  BY <1>16 DEF PromoteDone, IInv, JournalShape, Recorded, Promoted, RemovedWhenRestored, Uncommitted
<1>17. CASE FixOwnership
  BY <1>17 DEF FixOwnership, IInv, JournalShape, Recorded, Promoted, RemovedWhenRestored, Uncommitted
<1>18. CASE WriteCommitted
  BY <1>18 DEF WriteCommitted, IInv, JournalShape, Recorded, Promoted, RemovedWhenRestored, Uncommitted
<1>19. CASE EndCommand
  BY <1>19 DEF EndCommand, IInv, JournalShape, Recorded, Promoted, RemovedWhenRestored, Uncommitted
<1>20. CASE RecoverReadFails
  BY <1>20 DEF RecoverReadFails, IInv, JournalShape, Recorded, Promoted, RemovedWhenRestored, Uncommitted
<1>21. CASE RollbackEntryFails
  BY <1>21 DEF RollbackEntryFails, IInv, JournalShape, Recorded, Promoted, RemovedWhenRestored, Uncommitted
<1>22. CASE RemoveFails
  BY <1>22 DEF RemoveFails, IInv, JournalShape, Recorded, Promoted, RemovedWhenRestored, Uncommitted
<1>23. CASE StageFails
  BY <1>23 DEF StageFails, IInv, JournalShape, Recorded, Promoted, RemovedWhenRestored, Uncommitted
<1>24. CASE WriteManifestFails
  BY <1>24 DEF WriteManifestFails, IInv, JournalShape, Recorded, Promoted, RemovedWhenRestored, Uncommitted
<1>25. CASE PromoteFails
  BY <1>25 DEF PromoteFails, IInv, JournalShape, Recorded, Promoted, RemovedWhenRestored, Uncommitted
<1>26. CASE FixOwnershipFails
  BY <1>26 DEF FixOwnershipFails, IInv, JournalShape, Recorded, Promoted, RemovedWhenRestored, Uncommitted
<1>27. CASE WriteCommittedFails
  BY <1>27 DEF WriteCommittedFails, IInv, JournalShape, Recorded, Promoted, RemovedWhenRestored, Uncommitted
<1>28. CASE Crash
  BY <1>28 DEF Crash, IInv, JournalShape, Recorded, Promoted, RemovedWhenRestored, Uncommitted
<1>29. CASE UNCHANGED vars
  BY <1>29 DEF vars
<1> QED
  BY <1>1, <1>2, <1>3, <1>4, <1>5, <1>6, <1>7, <1>8, <1>9, <1>10, <1>11, <1>12,
     <1>13, <1>14, <1>15, <1>16, <1>17, <1>18, <1>19, <1>20, <1>21, <1>22, <1>23, <1>24,
     <1>25, <1>26, <1>27, <1>28, <1>29
     DEF Next, Step, IOError, Recovery, Rollback, Removal, Generation

\* The journaled promotion implements the atomic installation.
THEOREM Refinement == Spec => ImplementsAtomicInstall
<1>1. Init => Promise!Init
  <2> SUFFICES ASSUME Init PROVE Promise!Init
    OBVIOUS
  <2> QED
    BY DEF Init, Promise!Init, Effective
<1>2. IInv /\ [Next]_vars => [Promise!Next]_Promise!vars
  <2> SUFFICES ASSUME IInv, [Next]_vars PROVE [Promise!Next]_Promise!vars
    OBVIOUS
  <2>1. CASE UNCHANGED <<Effective, Requested, Answer>>
    BY <2>1 DEF Promise!vars, Requested, Answer
  <2>2. CASE /\ Requested = Absent /\ Requested' \in [Entries -> Value]
             /\ UNCHANGED <<Effective, Answer>>
    <3>1. Promise!Request(Requested')
      BY <2>2 DEF Promise!Request, Requested, Answer
    <3> QED
      BY <2>2, <3>1 DEF Promise!Next, Requested
  <2>3. CASE /\ Requested \in [Entries -> Value] /\ Effective' = Requested
             /\ Requested' = Absent /\ Answer' \in {"ok", "error"}
    <3>1. Requested # Absent
      BY <2>3, ProjectAssumption
    <3> QED
      BY <2>3, <3>1 DEF Promise!Next, Promise!Commit, Requested, Answer
  <2>4. CASE Requested' = Absent /\ Answer' \in {"none", "error"} /\ UNCHANGED Effective
    BY <2>4 DEF Promise!Next, Promise!Abandon, Requested, Answer
  <2> QED
    BY <2>1, <2>2, <2>3, <2>4, StepPromise
<1> QED
  BY <1>1, <1>2, Inductive, PTL DEF Spec, ImplementsAtomicInstall, Promise!Spec

=============================================================================
