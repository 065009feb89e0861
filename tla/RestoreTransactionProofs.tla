---------------------- MODULE RestoreTransactionProofs ----------------------
(***************************************************************************)
(* Theorems about RestoreTransaction, for any number of files in any       *)
(* directories.  The inductive invariant says, operation by operation,      *)
(* where the original is and what the journal knows of it, in a form that   *)
(* a kill at any point of the restore, of its rollback or of a recovery     *)
(* leaves true.  A second invariant says what recovery can get stuck at:    *)
(* nothing, while a restore goes forward; and otherwise only an operation   *)
(* that is undone already, with all those it meets before.                 *)
(***************************************************************************)
EXTENDS RestoreTransaction, TLAPS

Uncommitted == jstate \in {"torn", "open"}

\* Where the process can be in each state of the journal.
JournalShape ==
    /\ jstate = "none" => pc \in {"idle", "loading", "ready"}
    /\ jstate = "torn" => pc \in {"idle", "loading", "header"}
    /\ jstate = "committed" => pc \in {"idle", "loading", "cleanup", "unjournal"}
    /\ reply = "refused" => pc = "idle"
    /\ pc \in {"rollback", "undir"} => cur <= begun
    /\ pc = "undir" => cur > 0

\* Without a journal there is nothing in the transaction directories.
NoLeftovers ==
    jstate = "none" \/ pc = "header" =>
        /\ stage = {} /\ saved = NoFiles
        /\ begun = 0 /\ existed = {} /\ made = {} /\ backed = {} /\ promoted = {}

\* An empty journal is that of a restore that has not begun to stage.
HeaderFirst == pc = "header" => files = prior.files /\ dirs = prior.dirs

\* A file has its directory, now and before the transaction.
Placed == \A i \in Ops : files[i] # Absent => HasDir(i)
PriorPlaced == \A i \in Ops : prior.files[i] # Absent => DirOf[i] \in prior.dirs \cup {TopDir}

\* What every kill leaves true of operation i while the restore is uncommitted.
Undoable(i) ==
    /\ i \in existed \cup made \cup backed \cup promoted => i <= begun
    /\ i > begun => files[i] = prior.files[i] /\ saved[i] = Absent
    /\ i <= begun => (i \in existed <=> prior.files[i] # Absent)
    /\ i \in existed => \/ saved[i] = prior.files[i]
                        \/ saved[i] = Absent /\ files[i] = prior.files[i]
    /\ i <= begun /\ i \notin existed => saved[i] = Absent /\ (i \in stage => files[i] = Absent)

UndoableDirs ==
    /\ prior.dirs \subseteq dirs
    /\ \A x \in dirs : x \in prior.dirs \/ \E i \in made : DirOf[i] = x
    /\ \A i \in made : DirOf[i] \notin prior.dirs

AllUndoable == Uncommitted => (\A i \in Ops : Undoable(i)) /\ UndoableDirs

\* How far a rollback has come.
Undoing ==
    pc \in {"rollback", "undir"} =>
        /\ \A i \in Ops : i > cur => files[i] = prior.files[i] /\ saved[i] = Absent
        /\ pc = "undir" => files[cur] = prior.files[cur] /\ saved[cur] = Absent
        /\ \A x \in dirs : x \in prior.dirs \/ \E i \in made : i <= cur /\ DirOf[i] = x

UndoneWhole ==
    pc \in {"cleanup", "unjournal"} /\ jstate = "open" =>
        files = prior.files /\ dirs = prior.dirs /\ saved = NoFiles
CleanedUp == pc = "unjournal" => stage = {} /\ saved = NoFiles

Moving == {"mkdir", "backup", "recordbackup", "promote", "recordpromote"}
Before == {"staging", "begin"} \cup Moving \cup {"validate", "commit"}

\* How far the restore has come: operations before cur are done, those after it
\* are not begun, and pc says what is done of cur.
Forward ==
    /\ pc = "staging" => begun = 0
    /\ pc \in {"begin"} \cup Moving => cur \in Ops
    /\ pc = "begin" => begun = cur - 1 /\ cur \in stage
    /\ pc \in Moving => begun = cur
    /\ pc \in {"mkdir", "backup"} => files[cur] = prior.files[cur] /\ saved[cur] = Absent
    /\ pc \in {"mkdir", "backup", "recordbackup", "promote"} => cur \in stage
    /\ pc = "mkdir" => (cur \in made <=> ~HasDir(cur))
    /\ pc \in Moving \ {"mkdir"} => HasDir(cur)
    /\ pc = "backup" => cur \in existed
    /\ pc \in {"recordbackup", "promote"} => files[cur] = Absent /\ saved[cur] = prior.files[cur]
    /\ pc = "recordpromote" => files[cur] = archive[cur] /\ saved[cur] = prior.files[cur]
    /\ pc \in {"begin"} \cup Moving =>
         \A i \in Ops : /\ i < cur => files[i] = archive[i] /\ HasDir(i)
                        /\ i > cur => i \in stage
    /\ pc \in {"validate", "commit"} => \A i \in Ops : files[i] = archive[i] /\ HasDir(i)

IInv ==
    /\ TypeOK
    /\ JournalShape
    /\ NoLeftovers
    /\ HeaderFirst
    /\ Placed
    /\ PriorPlaced
    /\ AllUndoable
    /\ Undoing
    /\ UndoneWhole
    /\ CleanedUp
    /\ Forward
    /\ RefusedWhereUndone

\* A directory is made for the first operation that needs it.
MadeFirst == \A j \in made : \A i \in Ops : i < j => DirOf[i] # DirOf[j]

Recoverable == \A i \in 1..begun : ~Unrollable(i)

\* A restore under way can be undone at any moment.
ForwardRecoverable == pc \in Before => Recoverable

\* What recovery is stuck at, and all that it meets before, is undone already.
Done(i) == files[i] = prior.files[i] /\ saved[i] = Absent /\ (i \in made => DirOf[i] \notin dirs)
StuckIsDone ==
    jstate = "open" =>
        \A i \in 1..begun : Unrollable(i) => \A j \in i..begun : Done(j)

\* Success is told only of a committed restore, by the process that ran it.
SuccessIsCommitted ==
    /\ pc \in {"header"} \cup Before => mode = "restore"
    /\ reply = "ok" => \/ jstate = "none" /\ pc = "idle"
                       \/ /\ jstate = "committed" /\ mode = "restore"
                          /\ pc \in {"cleanup", "unjournal"}

StuckInv == MadeFirst /\ ForwardRecoverable /\ StuckIsDone /\ SuccessIsCommitted

---------------------------------------------------------------------------
(* Every variable keeps its type. *)

LEMMA Positions ==
    /\ N \in Nat /\ Ops = 1..N
    /\ 0 \in 0..(N + 1) /\ 1 \in 0..(N + 1)
    /\ \A p \in 0..N : p \in 0..(N + 1)
    /\ \A p \in 0..(N + 1) : p > 0 => p - 1 \in 0..(N + 1)
    /\ \A p \in 0..(N + 1) : p > 0 /\ p <= N => p \in Ops
    /\ \A p \in Ops : p + 1 \in 0..(N + 1) /\ p \in 0..N
  BY RestoreAssumption DEF Ops

LEMMA TypeInit == Init => TypeOK
<1> SUFFICES ASSUME Init PROVE TypeOK
  OBVIOUS
<1>1. NoFiles \in [Ops -> Value]
  BY DEF NoFiles, Value
<1>2. prior \in Projects
  BY DEF Init, Current, Projects
<1>3. 0 \in 0..N
  BY RestoreAssumption
<1> QED
  BY <1>1, <1>2, <1>3, Positions DEF Init, TypeOK, Steps

LEMMA TypeStep == TypeOK /\ JournalShape /\ Forward /\ [Next]_vars => TypeOK'
<1> SUFFICES ASSUME TypeOK, JournalShape, Forward, [Next]_vars PROVE TypeOK'
  OBVIOUS
<1> USE DEF TypeOK, Steps, tree, records
<1>a. Absent \in Value /\ Content \subseteq Value /\ NoFiles \in [Ops -> Value]
  BY DEF Value, NoFiles
<1>b. pc \in {"begin"} \cup Moving => cur \in Ops
  BY DEF Forward
<1>c. Current \in Projects
  BY DEF Current, Projects
<1>1. CASE Start
  BY <1>1, <1>a, <1>b, <1>c, Positions DEF Start, Moving
<1>2. CASE LoadNothing
  BY <1>2, <1>a, <1>b, <1>c, Positions DEF LoadNothing, Moving
<1>3. CASE LoadTorn
  BY <1>3, <1>a, <1>b, <1>c, Positions DEF LoadTorn, Refuse, Moving
<1>4. CASE LoadOpen
  BY <1>4, <1>a, <1>b, <1>c, Positions DEF LoadOpen, Moving
<1>5. CASE LoadCommitted
  BY <1>5, <1>a, <1>b, <1>c, Positions DEF LoadCommitted, Moving
<1>6. CASE RollbackRefused
  BY <1>6, <1>a, <1>b, <1>c, Positions DEF RollbackRefused, Refuse, Moving
<1>7. CASE RollbackRemoveTarget
  BY <1>7, <1>a, <1>b, <1>c, Positions DEF RollbackRemoveTarget, Moving
<1>8. CASE RollbackMoveBack
  BY <1>8, <1>a, <1>b, <1>c, Positions DEF RollbackMoveBack, Moving
<1>9. CASE RollbackInPlace
  BY <1>9, <1>a, <1>b, <1>c, Positions DEF RollbackInPlace, Moving
<1>10. CASE RollbackDirectory
  BY <1>10, Positions DEF RollbackDirectory, JournalShape
<1>11. CASE RollbackDone
  BY <1>11, <1>a, <1>b, <1>c, Positions DEF RollbackDone, Moving
<1>12. CASE CleanupFile
  <2>1. saved' \in [Ops -> Value] /\ stage' \subseteq Ops
    BY <1>a, <1>12 DEF CleanupFile
  <2> QED
    BY <1>12, <2>1 DEF CleanupFile
<1>13. CASE CleanupDone
  BY <1>13, <1>a, <1>b, <1>c, Positions DEF CleanupDone, Moving
<1>14. CASE RemoveJournal
  BY <1>14, <1>a, <1>b, <1>c, Positions DEF RemoveJournal, Moving
<1>15. CASE EndCommand
  BY <1>15, <1>a, <1>b, <1>c, Positions DEF EndCommand, Moving
<1>16. CASE CreateJournal
  BY <1>16, <1>a, <1>b, <1>c, Positions DEF CreateJournal, Moving
<1>17. CASE WriteHeader
  BY <1>17, <1>a, <1>b, <1>c, Positions DEF WriteHeader, Moving
<1>18. CASE Stage
  BY <1>18, <1>a, <1>b, <1>c, Positions DEF Stage, Moving
<1>19. CASE Begin
  BY <1>19, <1>a, <1>b, <1>c, Positions DEF Begin, RecordBegin, Moving
<1>20. CASE MakeDirectory
  <2>1. cur \in made => DirOf[cur] \in Dirs
    BY <1>b, <1>20, RestoreAssumption DEF MakeDirectory, Forward, Moving, HasDir
  <2> QED
    BY <1>20, <2>1 DEF MakeDirectory
<1>21. CASE BackUp
  BY <1>21, <1>a, <1>b, <1>c, Positions DEF BackUp, Moving
<1>22. CASE AppendBackedUp
  BY <1>22, <1>a, <1>b, <1>c, Positions DEF AppendBackedUp, RecordBackedUp, Moving
<1>23. CASE Promote
  BY <1>23, <1>a, <1>b, <1>c, Positions DEF Promote, Moving
<1>24. CASE AppendPromoted
  BY <1>24, <1>a, <1>b, <1>c, Positions DEF AppendPromoted, RecordPromoted, Moving
<1>25. CASE Validate
  BY <1>25, <1>a, <1>b, <1>c, Positions DEF Validate, Moving
<1>26. CASE Commit
  BY <1>26, <1>a, <1>b, <1>c, Positions DEF Commit, Moving
<1>27. CASE OperationFails
  BY <1>27, <1>a, <1>b, <1>c, Positions DEF OperationFails, Fail, Moving
<1>28. CASE LoadFails
  BY <1>28, <1>a, <1>b, <1>c, Positions DEF LoadFails, Refuse, Moving
<1>29. CASE RollbackFails
  BY <1>29, <1>a, <1>b, <1>c, Positions DEF RollbackFails, Refuse, Moving
<1>30. CASE CleanupFails
  BY <1>30, <1>a, <1>b, <1>c, Positions DEF CleanupFails, Refuse, Moving
<1>31. CASE WriteHeaderFails
  BY <1>31, <1>a, <1>b, <1>c, Positions DEF WriteHeaderFails, Moving
<1>32. CASE MoveFails
  BY <1>32, <1>a, <1>b, <1>c, Positions DEF MoveFails, Fail, Moving
<1>33. CASE AppendFails
  BY <1>33, <1>a, <1>b, <1>c, Positions DEF AppendFails, Fail, RecordBegin, RecordBackedUp, RecordPromoted, Moving
<1>34. CASE Kill
  BY <1>34, <1>a, <1>b, <1>c, Positions DEF Kill, Die, Moving
<1>35. CASE HostStop
  BY <1>35, <1>a, <1>b, <1>c, Positions DEF HostStop, Die, Moving
<1>36. CASE UNCHANGED vars
  BY <1>36 DEF vars, Moving
<1> QED
  BY <1>1, <1>2, <1>3, <1>4, <1>5, <1>6, <1>7, <1>8, <1>9, <1>10, <1>11, <1>12, <1>13, <1>14, <1>15, <1>16, <1>17, <1>18, <1>19, <1>20, <1>21, <1>22, <1>23, <1>24, <1>25, <1>26, <1>27, <1>28, <1>29, <1>30, <1>31, <1>32, <1>33, <1>34, <1>35, <1>36
     DEF Next, Step, IOError, Recovery, Restore

---------------------------------------------------------------------------
(* The inductive invariant. *)

LEMMA BeginStep == IInv /\ TypeOK' /\ Begin => IInv'
<1> SUFFICES ASSUME IInv, TypeOK', Begin PROVE IInv'
  OBVIOUS
<1>1. /\ cur \in Ops /\ begun = cur - 1 /\ cur \in stage /\ jstate = "open"
      /\ \A i \in Ops : i < cur => files[i] = archive[i] /\ HasDir(i)
      /\ \A i \in Ops : i > cur => i \in stage
  BY DEF Begin, IInv, Forward, JournalShape, TypeOK
<1>2. /\ begun' = cur /\ pc' = "mkdir"
      /\ existed' = IF files[cur] # Absent THEN existed \cup {cur} ELSE existed
      /\ made' = IF HasDir(cur) THEN made ELSE made \cup {cur}
      /\ UNCHANGED <<files, dirs, stage, saved, jstate, backed, promoted, archive, prior, cur, reply>>
  BY DEF Begin, RecordBegin, tree
<1>3. \A i \in Ops : Undoable(i)
  BY <1>1 DEF IInv, AllUndoable, Uncommitted
<1>4. UndoableDirs
  BY <1>1 DEF IInv, AllUndoable, Uncommitted
<1>5. N \in Nat /\ Ops = 1..N /\ made \subseteq Ops
  BY Positions DEF IInv, TypeOK
<1>6. /\ cur \notin existed /\ cur \notin made
      /\ files[cur] = prior.files[cur] /\ saved[cur] = Absent
  BY <1>1, <1>3, <1>5 DEF Undoable
<1>7. ASSUME NEW i \in Ops PROVE Undoable(i)'
  <2>1. Undoable(i)
    BY <1>3
  <2>2. CASE i = cur
    BY <1>1, <1>2, <1>5, <1>6, <2>1, <2>2 DEF Undoable
  <2>3. CASE i # cur
    BY <1>1, <1>2, <1>5, <2>1, <2>3 DEF Undoable
  <2> QED
    BY <2>2, <2>3
<1>8. UndoableDirs'
  BY <1>1, <1>2, <1>4 DEF UndoableDirs, HasDir
<1>9. Forward'
  BY <1>1, <1>2, <1>5, <1>6 DEF Forward, Moving, HasDir
<1>10. JournalShape' /\ NoLeftovers' /\ Placed' /\ PriorPlaced'
  BY <1>1, <1>2 DEF IInv, JournalShape, NoLeftovers, Placed, PriorPlaced, HasDir, Begin
<1>11. HeaderFirst' /\ Undoing' /\ UndoneWhole' /\ CleanedUp'
  BY <1>2 DEF HeaderFirst, Undoing, UndoneWhole, CleanedUp
<1>12. RefusedWhereUndone'
  BY <1>2, <1>10 DEF JournalShape, RefusedWhereUndone
<1> QED
  BY <1>7, <1>8, <1>9, <1>10, <1>11, <1>12 DEF IInv, AllUndoable

LEMMA PromoteStep == IInv /\ TypeOK' /\ Promote => IInv'
<1> SUFFICES ASSUME IInv, TypeOK', Promote PROVE IInv'
  OBVIOUS
<1>1. /\ cur \in Ops /\ begun = cur /\ jstate = "open" /\ HasDir(cur)
      /\ files[cur] = Absent /\ saved[cur] = prior.files[cur]
      /\ \A i \in Ops : i < cur => files[i] = archive[i] /\ HasDir(i)
      /\ \A i \in Ops : i > cur => i \in stage
  BY DEF Promote, IInv, Forward, Moving, JournalShape, TypeOK
<1>2. files \in [Ops -> Value] /\ N \in Nat /\ Ops = 1..N
  BY Positions DEF IInv, TypeOK
<1>3. files'[cur] = archive[cur] /\ \A i \in Ops : i # cur => files'[i] = files[i]
  BY <1>1, <1>2 DEF Promote
<1>4. /\ stage' = stage \ {cur} /\ pc' = "recordpromote"
      /\ UNCHANGED <<dirs, saved, jstate, records, archive, prior, cur, reply>>
  BY DEF Promote
<1>5. ASSUME NEW i \in Ops PROVE Undoable(i)'
  <2>1. Undoable(i)
    BY <1>1 DEF IInv, AllUndoable, Uncommitted
  <2>2. CASE i = cur
    BY <1>1, <1>2, <1>4, <2>1, <2>2 DEF Undoable, records
  <2>3. CASE i # cur
    BY <1>2, <1>3, <1>4, <2>1, <2>3 DEF Undoable, records
  <2> QED
    BY <2>2, <2>3
<1>6. UndoableDirs'
  BY <1>1, <1>4 DEF IInv, AllUndoable, Uncommitted, UndoableDirs, records
<1>7. Forward'
  BY <1>1, <1>2, <1>3, <1>4 DEF records, Forward, Moving, HasDir
<1>8. Placed'
  BY <1>1, <1>3, <1>4 DEF IInv, Placed, HasDir
<1>9. JournalShape' /\ NoLeftovers' /\ PriorPlaced'
  BY <1>1, <1>4 DEF IInv, JournalShape, NoLeftovers, PriorPlaced, Promote, records
<1>10. HeaderFirst' /\ Undoing' /\ UndoneWhole' /\ CleanedUp'
  BY <1>4 DEF HeaderFirst, Undoing, UndoneWhole, CleanedUp
<1>11. RefusedWhereUndone'
  BY <1>4, <1>9 DEF JournalShape, RefusedWhereUndone
<1> QED
  BY <1>5, <1>6, <1>7, <1>8, <1>9, <1>10, <1>11 DEF IInv, AllUndoable

LEMMA InvStep == IInv /\ [Next]_vars => IInv'
<1> SUFFICES ASSUME IInv, [Next]_vars PROVE IInv'
  OBVIOUS
<1>0. TypeOK /\ TypeOK'
  BY TypeStep DEF IInv
<1>b. /\ N \in Nat /\ Ops = 1..N /\ cur \in 0..(N + 1) /\ begun \in 0..N
      /\ files \in [Ops -> Value] /\ saved \in [Ops -> Value] /\ archive \in [Ops -> Value]
      /\ DirOf \in [Ops -> Dirs \cup {TopDir}] /\ TopDir \notin Dirs /\ dirs \subseteq Dirs
      /\ existed \subseteq Ops /\ made \subseteq Ops /\ stage \subseteq Ops
      /\ prior.files \in [Ops -> Value]
  BY <1>0, Positions, RestoreAssumption DEF TypeOK, Projects
<1>c. NoFiles \in [Ops -> Value] /\ \A i \in Ops : NoFiles[i] = Absent
  BY DEF NoFiles, Value
<1>d. pc \in Steps /\ jstate \in {"none", "torn", "open", "committed"}
  BY <1>0 DEF TypeOK
<1> USE <1>0 DEF IInv, JournalShape, NoLeftovers, HeaderFirst, Placed, PriorPlaced, Undoable,
                 UndoableDirs, AllUndoable, Undoing, UndoneWhole, CleanedUp, Forward,
                 RefusedWhereUndone, Uncommitted, HasDir, Moving, Steps, tree, records
<1>1. CASE Start
  BY <1>1, <1>b, <1>c, <1>d DEF Start
<1>2. CASE LoadNothing
  BY <1>2, <1>b, <1>c, <1>d DEF LoadNothing
<1>3. CASE LoadTorn
  BY <1>3, <1>b, <1>c, <1>d DEF LoadTorn, Refuse
<1>4. CASE LoadOpen
  BY <1>4, <1>b, <1>c, <1>d DEF LoadOpen
<1>5. CASE LoadCommitted
  BY <1>5, <1>b, <1>c, <1>d DEF LoadCommitted
<1>6. CASE RollbackRefused
  <2>1. cur \in Ops /\ jstate = "open"
    BY <1>6, <1>b, <1>d DEF RollbackRefused
  <2>2. cur \in existed => HasDir(cur)
    BY <1>b, <2>1
  <2>3. ~HasDir(cur) => files[cur] = Absent
    BY <2>1
  <2>4. files[cur] = prior.files[cur] /\ saved[cur] = Absent
    BY <1>6, <1>b, <2>1, <2>2, <2>3 DEF RollbackRefused, Unrollable
  <2> QED
    BY <1>6, <1>b, <1>c, <1>d, <2>1, <2>4 DEF RollbackRefused, Refuse
<1>7. CASE RollbackRemoveTarget
  BY <1>7, <1>b, <1>c, <1>d DEF RollbackRemoveTarget
<1>8. CASE RollbackMoveBack
  BY <1>8, <1>b, <1>c, <1>d DEF RollbackMoveBack
<1>9. CASE RollbackInPlace
  <2>1. cur \in Ops /\ jstate = "open"
    BY <1>9, <1>b, <1>d DEF RollbackInPlace
  <2>2. saved[cur] = Absent
    BY <1>9, <1>b, <2>1 DEF RollbackInPlace
  <2>3. files'[cur] = prior.files[cur]
    BY <1>9, <1>b, <2>1, <2>2 DEF RollbackInPlace
  <2>4. \A i \in Ops : i # cur => files'[i] = files[i]
    BY <1>9, <1>b, <2>1 DEF RollbackInPlace
  <2>5. cur \notin existed /\ cur <= begun => files'[cur] = Absent
    BY <2>1, <2>3
  <2>6. files'[cur] # Absent => HasDir(cur)
    BY <1>b, <2>1, <2>3
  <2> QED
    BY <1>9, <1>b, <1>c, <1>d, <2>1, <2>2, <2>3, <2>4, <2>5, <2>6 DEF RollbackInPlace
<1>10. CASE RollbackDirectory
  <2>1. cur \in Ops /\ jstate = "open"
    BY <1>10, <1>b, <1>d DEF RollbackDirectory
  <2>2. dirs' \subseteq dirs /\ prior.dirs \subseteq dirs'
    BY <1>10, <2>1 DEF RollbackDirectory
  <2>3. \A i \in Ops : files[i] # Absent => DirOf[i] \in dirs' \cup {TopDir}
    BY <1>10, <1>b DEF RollbackDirectory, InUse
  <2>4. \A x \in dirs' : x \in prior.dirs \/ \E i \in made : i <= cur - 1 /\ DirOf[i] = x
    BY <1>10, <1>b, <2>1 DEF RollbackDirectory
  <2>5. \A i \in Ops : i > cur - 1 => files[i] = prior.files[i] /\ saved[i] = Absent
    BY <1>10, <1>b, <2>1 DEF RollbackDirectory
  <2> QED
    BY <1>10, <1>b, <1>d, <2>1, <2>2, <2>3, <2>4, <2>5 DEF RollbackDirectory
<1>11. CASE RollbackDone
  <2>1. \A i \in Ops : files[i] = prior.files[i] /\ saved[i] = Absent
    BY <1>11, <1>b DEF RollbackDone
  <2>2. files = prior.files /\ saved = NoFiles
    BY <1>b, <1>c, <2>1
  <2>3. dirs \subseteq prior.dirs
    BY <1>11, <1>b DEF RollbackDone
  <2>4. prior.dirs \subseteq dirs
    BY <1>11, <1>d DEF RollbackDone
  <2>5. dirs = prior.dirs
    BY <2>3, <2>4
  <2> QED
    BY <1>11, <1>b, <1>d, <2>2, <2>5 DEF RollbackDone
<1>12. CASE CleanupFile
  BY <1>12, <1>b, <1>c, <1>d DEF CleanupFile
<1>13. CASE CleanupDone
  BY <1>13, <1>b, <1>c, <1>d DEF CleanupDone
<1>14. CASE RemoveJournal
  BY <1>14, <1>b, <1>c, <1>d DEF RemoveJournal
<1>15. CASE EndCommand
  BY <1>15, <1>b, <1>c, <1>d DEF EndCommand
<1>16. CASE CreateJournal
  <2>1. prior'.files = files /\ prior'.dirs = dirs
    BY <1>16 DEF CreateJournal, Current
  <2> QED
    BY <1>16, <1>b, <1>c, <1>d, <2>1 DEF CreateJournal
<1>17. CASE WriteHeader
  BY <1>17, <1>b, <1>c, <1>d DEF WriteHeader
<1>18. CASE Stage
  <2>1. 1 \in Ops
    BY RestoreAssumption DEF Ops
  <2> QED
    BY <1>18, <1>b, <1>d, <2>1 DEF Stage
<1>19. CASE Begin
  BY <1>0, <1>19, BeginStep
<1>20. CASE MakeDirectory
  BY <1>20, <1>b, <1>c, <1>d DEF MakeDirectory
<1>21. CASE BackUp
  BY <1>21, <1>b, <1>c, <1>d DEF BackUp
<1>22. CASE AppendBackedUp
  BY <1>22, <1>b, <1>c, <1>d DEF AppendBackedUp, RecordBackedUp
<1>23. CASE Promote
  BY <1>0, <1>23, PromoteStep
<1>24. CASE AppendPromoted
  <2>1. cur \in Ops /\ cur' = cur + 1 /\ begun = cur /\ files[cur] = archive[cur] /\ HasDir(cur)
    BY <1>24, <1>b DEF AppendPromoted
  <2>2. \A i \in Ops : i < cur + 1 => files[i] = archive[i] /\ HasDir(i)
    BY <1>24, <1>b, <2>1 DEF AppendPromoted
  <2>3. CASE cur = N
    BY <1>24, <1>b, <1>d, <2>1, <2>2, <2>3 DEF AppendPromoted, RecordPromoted
  <2>4. CASE cur # N
    <3>1. cur + 1 \in Ops /\ cur + 1 \in stage
      BY <1>24, <1>b, <2>1, <2>4 DEF AppendPromoted
    <3> QED
      BY <1>24, <1>b, <1>d, <2>1, <2>2, <2>4, <3>1 DEF AppendPromoted, RecordPromoted
  <2> QED
    BY <2>3, <2>4
<1>25. CASE Validate
  BY <1>25, <1>b, <1>c, <1>d DEF Validate
<1>26. CASE Commit
  BY <1>26, <1>b, <1>c, <1>d DEF Commit
<1>27. CASE OperationFails
  BY <1>27, <1>b, <1>c, <1>d DEF OperationFails, Fail
<1>28. CASE LoadFails
  BY <1>28, <1>b, <1>c, <1>d DEF LoadFails, Refuse
<1>29. CASE RollbackFails
  BY <1>29, <1>b, <1>c, <1>d DEF RollbackFails, Refuse
<1>30. CASE CleanupFails
  <2>1. /\ pc \in {"cleanup", "unjournal"} /\ pc' = "idle" /\ failed' = TRUE
        /\ UNCHANGED <<tree, jstate, records, archive, prior, cur, mode>>
    BY <1>30 DEF CleanupFails, Refuse
  <2> QED
    BY <1>b, <1>d, <2>1
<1>31. CASE WriteHeaderFails
  BY <1>31, <1>b, <1>c, <1>d DEF WriteHeaderFails
<1>32. CASE MoveFails
  BY <1>32, <1>b, <1>c, <1>d DEF MoveFails, Fail
<1>33. CASE AppendFails
  <2>1. pc' = "loading" /\ reply' = "error" /\ UNCHANGED <<tree, archive, prior, cur>>
    BY <1>33 DEF AppendFails, Fail
  <2>2. CASE /\ pc \in {"begin", "recordbackup", "recordpromote", "commit"}
             /\ jstate' \in {"open", "torn"}
             /\ UNCHANGED records
    BY <1>b, <1>d, <2>1, <2>2
  <2>3. CASE pc = "begin" /\ RecordBegin /\ UNCHANGED jstate
    BY <1>b, <1>d, <2>1, <2>3 DEF RecordBegin
  <2>4. CASE pc = "recordbackup" /\ RecordBackedUp /\ UNCHANGED jstate
    BY <1>b, <1>d, <2>1, <2>4 DEF RecordBackedUp
  <2>5. CASE pc = "recordpromote" /\ RecordPromoted /\ UNCHANGED jstate
    BY <1>b, <1>d, <2>1, <2>5 DEF RecordPromoted
  <2>6. CASE pc = "commit" /\ jstate' = "committed" /\ UNCHANGED records
    BY <1>b, <1>d, <2>1, <2>6
  <2> QED
    BY <1>33, <2>2, <2>3, <2>4, <2>5, <2>6 DEF AppendFails
<1>34. CASE Kill
  BY <1>34, <1>b, <1>c, <1>d DEF Kill, Die
<1>35. CASE HostStop
  BY <1>35, <1>b, <1>c, <1>d DEF HostStop, Die
<1>36. CASE UNCHANGED vars
  BY <1>36 DEF vars
<1> QED
  BY <1>1, <1>2, <1>3, <1>4, <1>5, <1>6, <1>7, <1>8, <1>9, <1>10, <1>11, <1>12, <1>13, <1>14, <1>15, <1>16, <1>17, <1>18, <1>19, <1>20, <1>21, <1>22, <1>23, <1>24, <1>25, <1>26, <1>27, <1>28, <1>29, <1>30, <1>31, <1>32, <1>33, <1>34, <1>35, <1>36
     DEF Next, Step, IOError, Recovery, Restore

LEMMA Inductive == Spec => []IInv
<1>1. Init => IInv
  <2> SUFFICES ASSUME Init PROVE IInv
    OBVIOUS
  <2>1. TypeOK
    BY TypeInit
  <2>2. prior.files = files /\ prior.dirs = dirs
    BY DEF Init, Current
  <2>3. Ops = 1..N /\ N \in Nat
    BY Positions
  <2> QED
    BY <2>1, <2>2, <2>3
       DEF Init, IInv, JournalShape, NoLeftovers, HeaderFirst, Placed, PriorPlaced, AllUndoable, Undoing,
           UndoneWhole, CleanedUp, Forward, RefusedWhereUndone, Uncommitted, HasDir, Moving
<1> QED
  BY <1>1, InvStep, PTL DEF Spec

---------------------------------------------------------------------------
(* Recovery gets stuck only where all that it meets is undone.             *)

LEMMA Bounds ==
    IInv => /\ N \in Nat /\ Ops = 1..N /\ begun \in 0..N /\ cur \in 0..(N + 1)
            /\ 1..begun \subseteq Ops
            /\ files \in [Ops -> Value] /\ saved \in [Ops -> Value] /\ dirs \subseteq Dirs
            /\ DirOf \in [Ops -> Dirs \cup {TopDir}] /\ TopDir \notin Dirs
            /\ existed \subseteq Ops /\ made \subseteq Ops
            /\ stage \subseteq Ops /\ backed \subseteq Ops /\ promoted \subseteq Ops
            /\ pc \in Steps /\ jstate \in {"none", "torn", "open", "committed"}
  BY Positions, RestoreAssumption DEF IInv, TypeOK

\* The records of operation cur, each made where the disk bears it out.
LEMMA RecordsRecoverable ==
    ASSUME IInv, ForwardRecoverable, UNCHANGED <<tree, prior>>,
           \/ pc = "begin" /\ RecordBegin
           \/ pc = "recordbackup" /\ RecordBackedUp
           \/ pc = "recordpromote" /\ RecordPromoted
    PROVE  Recoverable'
<1>a. /\ cur \in Ops /\ jstate = "open" /\ N \in Nat /\ Ops = 1..N /\ Undoable(cur)
      /\ \A i \in 1..begun : ~Unrollable(i)
  <2>1. pc \in {"begin", "recordbackup", "recordpromote"}
    OBVIOUS
  <2>2. cur \in Ops /\ jstate = "open"
    BY <2>1, Bounds DEF IInv, Forward, Moving, JournalShape
  <2>3. N \in Nat /\ Ops = 1..N
    BY Bounds
  <2>4. \A i \in 1..begun : ~Unrollable(i)
    BY <2>1 DEF ForwardRecoverable, Recoverable, Before, Moving
  <2> QED
    BY <2>2, <2>3, <2>4 DEF IInv, AllUndoable, Uncommitted
<1>b. /\ UNCHANGED <<files, saved, dirs, stage>>
      /\ \A i \in Ops : HasDir(i)' <=> HasDir(i)
  BY DEF tree, HasDir
<1>1. CASE pc = "begin" /\ RecordBegin
  <2>1. /\ begun = cur - 1 /\ cur \in stage /\ begun' = cur
        /\ UNCHANGED <<backed, promoted>>
        /\ \A i \in Ops : i # cur => (i \in existed' <=> i \in existed)
        /\ cur \notin backed \cup promoted /\ saved[cur] = Absent /\ cur \notin existed
        /\ cur \in existed' <=> files[cur] # Absent
    BY <1>1, <1>a DEF IInv, Forward, RecordBegin, Undoable
  <2>2. \A i \in Ops : i = cur => ~Unrollable(i)'
    BY <1>a, <1>b, <2>1 DEF Unrollable
  <2>3. \A i \in 1..begun : i \in Ops /\ i # cur
    BY <1>a, <2>1
  <2>4. \A i \in 1..begun : ~Unrollable(i)'
    BY <1>a, <1>b, <2>1, <2>3 DEF Unrollable
  <2> QED
    BY <1>a, <2>1, <2>2, <2>4 DEF Recoverable
<1>2. CASE pc \in {"recordbackup", "recordpromote"} /\ (RecordBackedUp \/ RecordPromoted)
  <2>1. /\ begun = cur /\ HasDir(cur) /\ UNCHANGED <<begun, existed>>
        /\ \A i \in Ops : i # cur => /\ i \in backed' <=> i \in backed
                                     /\ i \in promoted' <=> i \in promoted
    BY <1>2 DEF IInv, Forward, Moving, RecordBackedUp, RecordPromoted
  <2>2. cur \in existed => saved[cur] # Absent
    BY <1>2, <1>a, <2>1 DEF IInv, Forward, Undoable
  <2>3. \A i \in Ops : i = cur => ~Unrollable(i)'
    BY <1>a, <1>b, <2>1, <2>2 DEF Unrollable
  <2>4. \A i \in 1..begun : i # cur => ~Unrollable(i)'
    <3>1. \A i \in 1..begun : i \in Ops
      BY <1>a, <2>1
    <3> QED
      BY <1>a, <1>b, <2>1, <3>1 DEF Unrollable
  <2> QED
    BY <1>a, <2>1, <2>3, <2>4 DEF Recoverable
<1> QED
  BY <1>1, <1>2

\* Every step of a restore, its failures and its death leave it recoverable.
LEMMA ForwardStays == IInv /\ IInv' /\ ForwardRecoverable /\ pc \in Before /\ [Next]_vars => Recoverable'
<1> SUFFICES ASSUME IInv, IInv', ForwardRecoverable, pc \in Before, [Next]_vars PROVE Recoverable'
  OBVIOUS
<1>a. \A i \in 1..begun : i \in Ops /\ ~Unrollable(i)
  BY Bounds DEF ForwardRecoverable, Recoverable
<1>b. N \in Nat /\ Ops = 1..N /\ begun \in 0..N
      /\ files \in [Ops -> Value] /\ saved \in [Ops -> Value]
      /\ jstate \in {"none", "torn", "open", "committed"}
  BY Bounds
<1>1. CASE UNCHANGED <<tree, begun, existed, backed, promoted>>
  BY <1>1, <1>a DEF Recoverable, Unrollable, HasDir, tree
<1>2. CASE Stage \/ OperationFails
  <2>1. CASE pc = "staging"
    <3>1. begun' = 0
      BY <1>2, <2>1 DEF IInv, Forward, Stage, OperationFails, records
    <3> QED
      BY <3>1 DEF Recoverable
  <2>2. CASE pc = "validate"
    <3>1. UNCHANGED <<tree, begun, existed, backed, promoted>>
      BY <1>2, <2>2 DEF Stage, OperationFails, records, tree
    <3> QED
      BY <1>1, <3>1
  <2> QED
    BY <1>2, <2>1, <2>2 DEF Stage, OperationFails
<1>3. CASE Begin
  BY <1>3, RecordsRecoverable DEF Begin, tree
<1>4. CASE MakeDirectory
  <2>1. /\ UNCHANGED <<files, saved, stage, begun, existed, backed, promoted>>
        /\ \A i \in Ops : HasDir(i) => HasDir(i)'
    BY <1>4 DEF MakeDirectory, HasDir, records
  <2> QED
    BY <1>a, <2>1 DEF Recoverable, Unrollable
<1>5. CASE BackUp
  <2>1. /\ cur \in Ops /\ begun = cur /\ HasDir(cur) /\ cur \in existed
        /\ files[cur] = prior.files[cur] /\ prior.files[cur] # Absent
    BY <1>5, <1>b DEF BackUp, IInv, Forward, Moving, AllUndoable, Uncommitted, Undoable, JournalShape
  <2>2. /\ saved'[cur] # Absent
        /\ \A i \in Ops : i # cur => files'[i] = files[i] /\ saved'[i] = saved[i]
        /\ UNCHANGED <<dirs, stage, begun, existed, backed, promoted>>
    BY <1>5, <1>b, <2>1 DEF BackUp, records
  <2>3. ASSUME NEW i \in 1..begun PROVE ~Unrollable(i)'
    BY <1>a, <2>1, <2>2 DEF Unrollable, HasDir
  <2> QED
    BY <2>2, <2>3 DEF Recoverable
<1>6. CASE AppendBackedUp
  BY <1>6, RecordsRecoverable DEF AppendBackedUp, tree
<1>7. CASE Promote
  <2>1. cur \in Ops /\ begun = cur /\ HasDir(cur) /\ saved[cur] = prior.files[cur]
        /\ (cur \in existed <=> prior.files[cur] # Absent)
    BY <1>7, <1>b DEF Promote, IInv, Forward, Moving, AllUndoable, Uncommitted, Undoable, JournalShape
  <2>2. /\ \A i \in Ops : i # cur => files'[i] = files[i] /\ (i \in stage' <=> i \in stage)
        /\ UNCHANGED <<dirs, saved, begun, existed, backed, promoted>>
    BY <1>7, <1>b, <2>1 DEF Promote, records
  <2>3. ASSUME NEW i \in 1..begun PROVE ~Unrollable(i)'
    BY <1>a, <2>1, <2>2 DEF Unrollable, HasDir
  <2> QED
    BY <2>2, <2>3 DEF Recoverable
<1>8. CASE AppendPromoted
  BY <1>8, RecordsRecoverable DEF AppendPromoted, tree
<1>9. CASE AppendFails
  <2>1. UNCHANGED <<tree, prior>>
    BY <1>9 DEF AppendFails, Fail
  <2>2. CASE UNCHANGED records
    BY <1>1, <2>1, <2>2 DEF records
  <2> QED
    BY <1>9, <1>1, <2>1, <2>2, RecordsRecoverable DEF AppendFails, records
<1>10. CASE Validate \/ Commit \/ MoveFails \/ Kill \/ HostStop
  <2>1. UNCHANGED <<tree, begun, existed, backed, promoted>>
    BY <1>10 DEF Validate, Commit, MoveFails, Kill, HostStop, Die, tree, records
  <2> QED
    BY <1>1, <2>1
<1>11. CASE UNCHANGED vars
  BY <1>1, <1>11 DEF vars, records
<1>12. ~Start /\ ~Recovery /\ ~EndCommand /\ ~CreateJournal /\ ~WriteHeader /\ ~LoadFails
       /\ ~RollbackFails /\ ~CleanupFails /\ ~WriteHeaderFails
  BY DEF Before, Moving, Start, Recovery, LoadNothing, LoadTorn, LoadOpen, LoadCommitted,
         RollbackRefused, RollbackRemoveTarget, RollbackMoveBack, RollbackInPlace,
         RollbackDirectory, RollbackDone, CleanupFile, CleanupDone, RemoveJournal, EndCommand,
         CreateJournal, WriteHeader, LoadFails, RollbackFails, CleanupFails, WriteHeaderFails
<1> QED
  BY <1>2, <1>3, <1>4, <1>5, <1>6, <1>7, <1>8, <1>9, <1>10, <1>11, <1>12
     DEF Next, Step, Restore, IOError

LEMMA MadeFirstStep == IInv /\ MadeFirst /\ [Next]_vars => MadeFirst'
<1> SUFFICES ASSUME IInv, MadeFirst, [Next]_vars PROVE MadeFirst'
  OBVIOUS
<1>1. made' = made \/ made' = {} \/ (pc = "begin" /\ RecordBegin)
  BY DEF Next, Step, IOError, Recovery, Restore, Start, LoadNothing, LoadTorn, LoadOpen,
         LoadCommitted, RollbackRefused, RollbackRemoveTarget, RollbackMoveBack,
         RollbackInPlace, RollbackDirectory, RollbackDone, CleanupFile, CleanupDone,
         RemoveJournal, EndCommand, CreateJournal, WriteHeader, Stage, Begin, MakeDirectory,
         BackUp, AppendBackedUp, Promote, AppendPromoted, Validate, Commit, OperationFails,
         LoadFails, RollbackFails, CleanupFails, WriteHeaderFails, MoveFails, AppendFails,
         Kill, HostStop, Refuse, Fail, Die, RecordBackedUp, RecordPromoted, vars, records
<1>2. CASE pc = "begin" /\ RecordBegin
  <2>1. /\ cur \in Ops /\ \A i \in Ops : i < cur => HasDir(i)
        /\ \A k \in made : k <= begun /\ k \in Ops /\ begun = cur - 1
        /\ Ops = 1..N /\ N \in Nat
    BY <1>2, Bounds DEF IInv, Forward, AllUndoable, Uncommitted, Undoable, JournalShape
  <2>2. made' = IF HasDir(cur) THEN made ELSE made \cup {cur}
    BY <1>2 DEF RecordBegin
  <2> QED
    BY <2>1, <2>2 DEF MadeFirst, HasDir
<1> QED
  BY <1>1, <1>2 DEF MadeFirst

LEMMA SuccessStep == IInv /\ SuccessIsCommitted /\ [Next]_vars => SuccessIsCommitted'
<1> SUFFICES ASSUME IInv, SuccessIsCommitted, [Next]_vars PROVE SuccessIsCommitted'
  OBVIOUS
<1>1. pc \in Steps /\ jstate \in {"none", "torn", "open", "committed"} /\ JournalShape
  BY Bounds DEF IInv
<1> USE DEF Before, Moving
<1>2. CASE UNCHANGED <<reply, jstate, pc, mode>>
  BY <1>2 DEF SuccessIsCommitted
<1>3. CASE reply' \in {"none", "error", "refused"} /\ pc' \in {"idle", "loading"}
  BY <1>3 DEF SuccessIsCommitted
<1>4. CASE Recovery \/ EndCommand
  BY <1>1, <1>4
     DEF SuccessIsCommitted, JournalShape, Recovery, LoadNothing, LoadTorn, LoadOpen, LoadCommitted,
         RollbackRefused, RollbackRemoveTarget, RollbackMoveBack, RollbackInPlace,
         RollbackDirectory, RollbackDone, CleanupFile, CleanupDone, RemoveJournal, EndCommand, Refuse
<1>5. CASE Commit
  BY <1>1, <1>5 DEF SuccessIsCommitted, Commit
<1>6. CASE CreateJournal
  BY <1>1, <1>6 DEF SuccessIsCommitted, CreateJournal
<1>7. CASE Restore /\ ~Commit /\ ~CreateJournal
  <2>1. /\ pc \in {"header"} \cup Before /\ reply' = reply /\ mode' = mode
        /\ pc' \notin {"idle", "cleanup", "unjournal"}
    BY <1>7 DEF Restore, WriteHeader, Stage, Begin, MakeDirectory, BackUp, AppendBackedUp, Promote,
                AppendPromoted, Validate
  <2> QED
    BY <2>1 DEF SuccessIsCommitted
<1>8. CASE Start \/ OperationFails \/ IOError \/ Kill \/ HostStop
  BY <1>3, <1>8 DEF Start, OperationFails, IOError, LoadFails, RollbackFails, CleanupFails,
                    WriteHeaderFails, MoveFails, AppendFails, Refuse, Fail, Kill, HostStop, Die
<1> QED
  BY <1>2, <1>4, <1>5, <1>6, <1>7, <1>8 DEF Next, Step, vars

\* What a rollback has passed is done, its directories included.
LEMMA PassedIsDone ==
    IInv /\ MadeFirst /\ pc \in {"rollback", "undir"} => \A j \in Ops : j > cur => Done(j)
<1> SUFFICES ASSUME IInv, MadeFirst, pc \in {"rollback", "undir"}, NEW j \in Ops, j > cur
             PROVE  Done(j)
  OBVIOUS
<1>1. files[j] = prior.files[j] /\ saved[j] = Absent
  BY DEF IInv, Undoing
<1>2. ASSUME j \in made, DirOf[j] \in dirs PROVE FALSE
  <2>1. jstate = "open"
    BY Bounds DEF IInv, JournalShape
  <2>2. DirOf[j] \notin prior.dirs
    BY <1>2, <2>1 DEF IInv, AllUndoable, Uncommitted, UndoableDirs
  <2>3. PICK i \in made : i <= cur /\ DirOf[i] = DirOf[j]
    BY <1>2, <2>2 DEF IInv, Undoing
  <2>4. i \in Ops /\ i < j
    BY <2>3, Bounds
  <2> QED
    BY <1>2, <2>3, <2>4 DEF MadeFirst
<1> QED
  BY <1>1, <1>2 DEF Done

LEMMA RollbackStays ==
    ASSUME IInv, MadeFirst, StuckIsDone,
           RollbackRemoveTarget \/ RollbackMoveBack \/ RollbackInPlace \/ RollbackDirectory
    PROVE  StuckIsDone'
<1>a. /\ N \in Nat /\ Ops = 1..N /\ begun \in 0..N /\ cur \in Ops /\ cur <= begun /\ jstate = "open"
      /\ pc \in {"rollback", "undir"}
      /\ files \in [Ops -> Value] /\ saved \in [Ops -> Value]
      /\ Undoable(cur) /\ UndoableDirs
      /\ \A j \in Ops : j > cur => Done(j)
      /\ \A i \in 1..begun : Unrollable(i) => \A j \in i..begun : Done(j)
  <2>1. pc \in {"rollback", "undir"} /\ cur > 0
    BY DEF RollbackRemoveTarget, RollbackMoveBack, RollbackInPlace, RollbackDirectory, IInv, JournalShape
  <2>2. cur \in Ops /\ cur <= begun /\ jstate = "open"
    BY <2>1, Bounds DEF IInv, JournalShape
  <2> QED
    BY <2>1, <2>2, Bounds, PassedIsDone DEF StuckIsDone, IInv, AllUndoable, Uncommitted
<1>b. UNCHANGED <<stage, records, prior>>
  BY DEF RollbackRemoveTarget, RollbackMoveBack, RollbackInPlace, RollbackDirectory
<1>c. SUFFICES ASSUME NEW i \in 1..begun, Unrollable(i)', NEW j \in i..begun PROVE Done(j)'
  BY <1>b DEF StuckIsDone, records
<1>d. i \in Ops /\ j \in Ops /\ i <= j
  BY <1>a
<1>1. CASE RollbackRemoveTarget
  <2>1. /\ ~Unrollable(cur) /\ cur \in existed /\ saved[cur] # Absent /\ UNCHANGED <<dirs, saved>>
        /\ \A k \in Ops : k # cur => files'[k] = files[k]
    BY <1>1, <1>a DEF RollbackRemoveTarget
  <2>2. i > cur
    <3>1. CASE i = cur
      BY <1>b, <1>c, <2>1, <3>1 DEF Unrollable, HasDir, records
    <3>2. CASE i < cur
      <4>1. Unrollable(i)
        BY <1>b, <1>c, <1>d, <2>1, <3>2 DEF Unrollable, HasDir, records
      <4>2. cur \in i..begun
        BY <1>a, <1>d, <3>2
      <4> QED
        BY <1>a, <2>1, <4>1, <4>2 DEF Done
    <3> QED
      BY <1>a, <1>d, <3>1, <3>2
  <2> QED
    BY <1>a, <1>b, <1>d, <2>1, <2>2 DEF Done, records
<1>2. CASE RollbackMoveBack
  <2>1. /\ ~Unrollable(cur) /\ cur \in existed /\ saved[cur] # Absent /\ UNCHANGED dirs
        /\ files'[cur] = saved[cur] /\ saved'[cur] = Absent
        /\ \A k \in Ops : k # cur => files'[k] = files[k] /\ saved'[k] = saved[k]
    BY <1>2, <1>a DEF RollbackMoveBack
  <2>2. i >= cur
    <3>1. CASE i < cur
      <4>1. Unrollable(i)
        BY <1>b, <1>c, <1>d, <2>1, <3>1 DEF Unrollable, HasDir, records
      <4>2. cur \in i..begun
        BY <1>a, <1>d, <3>1
      <4> QED
        BY <1>a, <2>1, <4>1, <4>2 DEF Done
    <3> QED
      BY <1>a, <1>d, <3>1
  <2>3. files'[cur] = prior.files[cur] /\ prior.files[cur] # Absent
    BY <1>a, <2>1 DEF Undoable
  <2>4. cur \in made => DirOf[cur] \notin dirs
    <3>1. DirOf[cur] \in prior.dirs \cup {TopDir}
      BY <1>a, <2>3 DEF IInv, PriorPlaced
    <3> QED
      BY <1>a, <3>1, Bounds DEF UndoableDirs
  <2>5. CASE j = cur
    BY <1>b, <2>1, <2>3, <2>4, <2>5 DEF Done, records
  <2>6. CASE j > cur
    BY <1>a, <1>b, <1>d, <2>1, <2>6 DEF Done, records
  <2> QED
    BY <1>a, <1>d, <2>2, <2>5, <2>6
<1>3. CASE RollbackInPlace
  <2>1. /\ ~Unrollable(cur) /\ (cur \in existed => saved[cur] = Absent) /\ UNCHANGED <<dirs, saved>>
        /\ \A k \in Ops : k # cur => files'[k] = files[k]
        /\ cur \in existed => files'[cur] = files[cur]
        /\ files'[cur] \in {files[cur], Absent}
    BY <1>3, <1>a DEF RollbackInPlace
  <2>2. ~Unrollable(i) => i > cur
    <3>1. i # cur
      BY <1>a, <1>b, <1>c, <2>1 DEF Unrollable, HasDir, records
    <3>2. i < cur => Unrollable(i)
      BY <1>a, <1>b, <1>c, <1>d, <2>1 DEF Unrollable, HasDir, records
    <3> QED
      BY <1>a, <1>d, <3>1, <3>2
  <2>3. Done(j)
    BY <1>a, <1>d, <2>2
  <2>4. j = cur => files'[cur] = files[cur]
    BY <1>a, <2>1, <2>3 DEF Done, Undoable
  <2> QED
    BY <1>b, <1>d, <2>1, <2>3, <2>4 DEF Done, records
<1>4. CASE RollbackDirectory
  <2>1. /\ pc = "undir" /\ UNCHANGED <<files, saved>> /\ dirs' \subseteq dirs
        /\ cur \in made => DirOf[cur] \notin dirs'
        /\ \A x \in dirs \ dirs' : cur \in made /\ x = DirOf[cur]
    BY <1>4 DEF RollbackDirectory
  <2>2. CASE j >= cur
    <3>1. files[cur] = prior.files[cur] /\ saved[cur] = Absent
      BY <2>1 DEF IInv, Undoing
    <3>2. CASE j = cur
      BY <1>b, <2>1, <3>1, <3>2 DEF Done, records
    <3>3. CASE j > cur
      BY <1>a, <1>b, <1>d, <2>1, <3>3 DEF Done, records
    <3> QED
      BY <1>a, <1>d, <2>2, <3>2, <3>3
  <2>3. CASE j < cur
    <3>1. i < cur
      BY <1>a, <1>d, <2>3
    <3>2. HasDir(i) => HasDir(i)'
      BY <1>a, <1>d, <2>1, <3>1 DEF HasDir, MadeFirst
    <3>3. Unrollable(i)
      BY <1>b, <1>c, <2>1, <3>2 DEF Unrollable, records
    <3>4. Done(j)
      BY <1>a, <3>3
    <3> QED
      BY <1>b, <2>1, <3>4 DEF Done, records
  <2> QED
    BY <1>a, <1>d, <2>2, <2>3
<1> QED
  BY <1>1, <1>2, <1>3, <1>4

LEMMA StuckIsDoneStep ==
    IInv /\ IInv' /\ MadeFirst /\ ForwardRecoverable /\ StuckIsDone /\ [Next]_vars => StuckIsDone'
<1> SUFFICES ASSUME IInv, IInv', MadeFirst, ForwardRecoverable, StuckIsDone, [Next]_vars
             PROVE  StuckIsDone'
  OBVIOUS
<1>1. CASE pc \in Before
  BY <1>1, ForwardStays DEF StuckIsDone, Recoverable
<1>2. CASE jstate' # "open"
  BY <1>2 DEF StuckIsDone
<1>3. CASE UNCHANGED <<tree, records, prior, jstate>>
  BY <1>3 DEF StuckIsDone, Done, Unrollable, HasDir, tree, records
<1>4. CASE RollbackRemoveTarget \/ RollbackMoveBack \/ RollbackInPlace \/ RollbackDirectory
  BY <1>4, RollbackStays
<1>5. CASE WriteHeader
  <2>1. begun' = 0
    BY <1>5 DEF WriteHeader, IInv, NoLeftovers, records
  <2> QED
    BY <2>1 DEF StuckIsDone
<1>6. CASE CleanupFile /\ jstate' = "open"
  <2>1. /\ pc' = "cleanup" /\ jstate = "open"
    BY <1>6 DEF CleanupFile
  <2>2. files' = prior'.files /\ dirs' = prior'.dirs /\ saved' = NoFiles
    BY <1>6, <2>1 DEF IInv, UndoneWhole
  <2>3. \A j \in made' : DirOf[j] \notin prior'.dirs
    BY <1>6 DEF IInv, AllUndoable, Uncommitted, UndoableDirs
  <2>4. N \in Nat /\ Ops = 1..N /\ begun' \in 0..N
    BY Positions DEF IInv, TypeOK
  <2>5. ASSUME NEW j \in 1..begun' PROVE Done(j)'
    BY <2>2, <2>3, <2>4 DEF Done, NoFiles
  <2> QED
    BY <2>4, <2>5 DEF StuckIsDone
<1>7. CASE Start \/ EndCommand \/ LoadFails \/ RollbackFails \/ CleanupFails \/ Kill
  BY <1>3, <1>7 DEF Start, EndCommand, LoadFails, RollbackFails, CleanupFails, Kill, Die, Refuse, records, tree
<1>8. CASE \/ LoadNothing \/ LoadTorn \/ LoadOpen \/ LoadCommitted \/ RollbackRefused
           \/ RollbackDone \/ CleanupDone
  BY <1>3, <1>8 DEF LoadNothing, LoadTorn, LoadOpen, LoadCommitted, RollbackRefused, RollbackDone,
                    CleanupDone, Refuse, records, tree
<1>9. CASE RemoveJournal \/ CreateJournal \/ WriteHeaderFails \/ HostStop
  BY <1>2, <1>9 DEF RemoveJournal, CreateJournal, WriteHeaderFails, HostStop
<1>10. CASE UNCHANGED vars
  BY <1>3, <1>10 DEF vars
<1>11. pc \notin Before => /\ ~(Restore /\ ~CreateJournal /\ ~WriteHeader)
                           /\ ~OperationFails /\ ~MoveFails /\ ~AppendFails
  BY DEF Before, Moving, Restore, Stage, Begin, MakeDirectory, BackUp, AppendBackedUp, Promote,
         AppendPromoted, Validate, Commit, OperationFails, MoveFails, AppendFails
<1>12. CASE CleanupFile
  BY <1>2, <1>6, <1>12
<1> QED
  BY <1>1, <1>4, <1>5, <1>7, <1>8, <1>9, <1>10, <1>11, <1>12 DEF Next, Step, Recovery, IOError

LEMMA StuckStep == IInv /\ IInv' /\ StuckInv /\ [Next]_vars => StuckInv'
<1> SUFFICES ASSUME IInv, IInv', StuckInv, [Next]_vars PROVE StuckInv'
  OBVIOUS
<1>1. MadeFirst' /\ SuccessIsCommitted' /\ StuckIsDone'
  BY MadeFirstStep, SuccessStep, StuckIsDoneStep DEF StuckInv
<1>2. ForwardRecoverable'
  <2>1. CASE pc \in Before
    BY <2>1, ForwardStays DEF StuckInv, ForwardRecoverable
  <2>2. CASE WriteHeader
    <3>1. begun' = 0
      BY <2>2 DEF WriteHeader, IInv, NoLeftovers, records
    <3> QED
      BY <3>1 DEF ForwardRecoverable, Recoverable
  <2>3. CASE pc \notin Before /\ ~WriteHeader
    <3>1. pc' \notin Before
      BY <2>3 DEF Before, Moving, Next, Step, IOError, Recovery, Restore, Start, LoadNothing, LoadTorn,
           LoadOpen, LoadCommitted, RollbackRefused, RollbackRemoveTarget, RollbackMoveBack,
           RollbackInPlace, RollbackDirectory, RollbackDone, CleanupFile, CleanupDone,
           RemoveJournal, EndCommand, CreateJournal, Stage, Begin, MakeDirectory,
           BackUp, AppendBackedUp, Promote, AppendPromoted, Validate, Commit, OperationFails,
           LoadFails, RollbackFails, CleanupFails, WriteHeaderFails, MoveFails, AppendFails,
           Kill, HostStop, Refuse, Fail, Die, vars
    <3> QED
      BY <3>1 DEF ForwardRecoverable
  <2> QED
    BY <2>1, <2>2, <2>3
<1> QED
  BY <1>1, <1>2 DEF StuckInv

LEMMA StuckInductive == Spec => []StuckInv
<1>1. Init => StuckInv
  BY Positions DEF Init, StuckInv, MadeFirst, ForwardRecoverable, Before, Moving, StuckIsDone, SuccessIsCommitted
<1> QED
  BY <1>1, StuckStep, Inductive, PTL DEF Spec

\* A restore that is killed or fails while it stages, promotes or validates can be
\* undone: only a cut record, or an undo or a cleanup that is interrupted, sticks.
THEOREM StuckOnly == Spec => StuckOnlyInUndo
<1>1. IInv /\ IInv' /\ StuckInv /\ [Next]_vars
        => [~Stuck /\ Stuck' =>
              jstate' = "torn" \/ pc \in {"rollback", "undir", "cleanup", "unjournal"}]_vars
  <2> SUFFICES ASSUME IInv, IInv', StuckInv, [Next]_vars, ~Stuck, Stuck', jstate' # "torn",
                      pc \notin {"rollback", "undir", "cleanup", "unjournal"}
               PROVE  FALSE
    OBVIOUS
  <2>1. jstate' = "open" /\ ~Recoverable'
    <3>1. jstate' = "open" /\ \E i \in Remaining' : Unrollable(i)'
      BY DEF Stuck
    <3>2. Remaining' \subseteq (1..begun)'
      BY DEF Remaining, IInv, JournalShape, TypeOK
    <3> QED
      BY <3>1, <3>2 DEF Recoverable
  <2>2. pc \notin Before
    BY <2>1, ForwardStays DEF StuckInv
  <2>3. pc \in {"idle", "loading", "ready", "header"}
    BY <2>2, Bounds DEF Steps, Before, Moving
  <2>4. ~WriteHeader
    <3>1. WriteHeader => begun' = 0
      BY DEF WriteHeader, IInv, NoLeftovers, records
    <3> QED
      BY <2>1, <3>1 DEF Recoverable
  <2>5. UNCHANGED <<tree, records, jstate>>
    BY <2>1, <2>3, <2>4
       DEF Next, Step, IOError, Recovery, Restore, Start, LoadNothing, LoadTorn, LoadOpen, LoadCommitted,
           RollbackRefused, RollbackRemoveTarget, RollbackMoveBack, RollbackInPlace,
           RollbackDirectory, RollbackDone, CleanupFile, CleanupDone, RemoveJournal, EndCommand,
           CreateJournal, Stage, Begin, MakeDirectory, BackUp, AppendBackedUp, Promote,
           AppendPromoted, Validate, Commit, OperationFails, LoadFails, RollbackFails,
           CleanupFails, WriteHeaderFails, MoveFails, AppendFails, Kill, HostStop, Refuse, Die, vars
  <2>6. \E i \in 1..begun : Unrollable(i)
    BY <2>1, <2>5 DEF Recoverable, Unrollable, HasDir, tree, records
  <2>7. Remaining = 1..begun
    BY <2>3 DEF Remaining
  <2> QED
    BY <2>1, <2>5, <2>6, <2>7 DEF Stuck
<1> QED
  BY <1>1, Inductive, StuckInductive, PTL DEF Spec, StuckOnlyInUndo

\* Type correctness, in every state of every run.
THEOREM TypeCorrect == Spec => []TypeOK
<1>1. IInv => TypeOK
  BY DEF IInv
<1> QED
  BY <1>1, Inductive, PTL

\* Until the commit record, no original file is lost: not by a kill, not by an
\* error, not by a rollback that is itself interrupted.
THEOREM OriginalsKept == Spec => []OriginalsSurvive
<1>1. IInv => OriginalsSurvive
  <2> SUFFICES ASSUME IInv, Uncommitted, NEW i \in Ops, prior.files[i] # Absent
               PROVE prior.files[i] \in {files[i], saved[i]}
    BY DEF OriginalsSurvive, Uncommitted
  <2>1. Undoable(i)
    BY DEF IInv, AllUndoable
  <2>2. i > begun \/ i <= begun
    BY Positions DEF IInv, TypeOK
  <2> QED
    BY <2>1, <2>2 DEF Undoable
<1> QED
  BY <1>1, Inductive, PTL

\* A recovery that is not stopped by a file system error never gives up an
\* operation that still has to be undone.
THEOREM RefusalHarmless == Spec => []RefusedWhereUndone
<1>1. IInv => RefusedWhereUndone
  BY DEF IInv
<1> QED
  BY <1>1, Inductive, PTL

---------------------------------------------------------------------------
(* The refinement.  As long as recovery is not stuck, Commit is the append of *)
(* the commit record, Request is the staging, and everything else is a       *)
(* stutter or an abandoned request.                                         *)

Answer == IF reply = "refused" THEN "error" ELSE reply

\* What the journal stands for: Effective, unless recovery is stuck.
Recovered == IF Uncommitted THEN prior ELSE Current

\* What each step does, in terms of the project, the request and the answer.
StepKept ==
    \/ UNCHANGED <<Recovered, Requested, Answer>>
    \/ Requested = Absent /\ Requested' \in Projects /\ UNCHANGED <<Recovered, Answer>>
    \/ Requested \in Projects /\ Recovered' = Requested
         /\ Requested' = Absent /\ Answer' \in {"ok", "error"}
    \/ Requested' = Absent /\ Answer' \in {"none", "error"} /\ UNCHANGED Recovered

\* What the commit installs is what was requested.
LEMMA CommitInstalls ==
    IInv /\ pc = "commit" => Recovered = prior /\ Current = Requested /\ Requested \in Projects
<1> SUFFICES ASSUME IInv, pc = "commit"
             PROVE Recovered = prior /\ Current = Requested /\ Requested \in Projects
  OBVIOUS
<1>1. TypeOK /\ jstate = "open"
  BY DEF IInv, JournalShape, TypeOK
<1>2. files = archive
  BY <1>1 DEF IInv, Forward, TypeOK
<1>3. dirs \subseteq prior.dirs \cup ({DirOf[i] : i \in Ops} \ {TopDir})
  BY <1>1, RestoreAssumption DEF IInv, TypeOK, AllUndoable, Uncommitted, UndoableDirs
<1>4. prior.dirs \cup ({DirOf[i] : i \in Ops} \ {TopDir}) \subseteq dirs
  BY <1>1 DEF IInv, AllUndoable, Uncommitted, UndoableDirs, Forward, HasDir
<1>5. Current = Requested
  BY <1>2, <1>3, <1>4 DEF Current, Requested
<1>6. Current \in Projects
  BY <1>1 DEF Current, Projects, TypeOK
<1> QED
  BY <1>1, <1>5, <1>6 DEF Recovered, Uncommitted

LEMMA StepPromise == IInv /\ [Next]_vars => StepKept
<1> SUFFICES ASSUME IInv, [Next]_vars PROVE StepKept
  OBVIOUS
<1>a. TypeOK /\ TypeOK' /\ JournalShape /\ UndoneWhole
  BY TypeStep DEF IInv
<1>b. pc = "commit" => Recovered = prior /\ Current = Requested /\ Requested \in Projects
  BY CommitInstalls
<1>c. pc \in Steps /\ jstate \in {"none", "torn", "open", "committed"}
  BY <1>a DEF TypeOK
<1> USE DEF StepKept, Recovered, Uncommitted, Answer, Current, JournalShape, Steps, tree, records
<1>1. CASE Start
  BY <1>1, <1>a, <1>b, <1>c DEF Start, Requested
<1>2. CASE LoadNothing
  BY <1>2, <1>a, <1>b, <1>c DEF LoadNothing, Requested
<1>3. CASE LoadTorn
  BY <1>3, <1>a, <1>b, <1>c DEF LoadTorn, Refuse, Requested
<1>4. CASE LoadOpen
  BY <1>4, <1>a, <1>b, <1>c DEF LoadOpen, Requested
<1>5. CASE LoadCommitted
  BY <1>5, <1>a, <1>b, <1>c DEF LoadCommitted, Requested
<1>6. CASE RollbackRefused
  BY <1>6, <1>a, <1>b, <1>c DEF RollbackRefused, Refuse, Requested
<1>7. CASE RollbackRemoveTarget
  BY <1>7, <1>a, <1>b, <1>c DEF RollbackRemoveTarget, Requested
<1>8. CASE RollbackMoveBack
  BY <1>8, <1>a, <1>b, <1>c DEF RollbackMoveBack, Requested
<1>9. CASE RollbackInPlace
  BY <1>9, <1>a, <1>b, <1>c DEF RollbackInPlace, Requested
<1>10. CASE RollbackDirectory
  BY <1>10, <1>a, <1>b, <1>c DEF RollbackDirectory, Requested
<1>11. CASE RollbackDone
  BY <1>11, <1>a, <1>b, <1>c DEF RollbackDone, Requested
<1>12. CASE CleanupFile
  BY <1>12, <1>a, <1>b, <1>c DEF CleanupFile, Requested
<1>13. CASE CleanupDone
  BY <1>13, <1>a, <1>b, <1>c DEF CleanupDone, Requested
<1>14. CASE RemoveJournal
  <2>1. prior = [files |-> prior.files, dirs |-> prior.dirs]
    BY <1>a DEF TypeOK, Projects
  <2>2. jstate = "open" => prior = Current
    BY <1>14, <1>a, <2>1 DEF RemoveJournal, UndoneWhole
  <2> QED
    BY <1>14, <1>a, <1>c, <2>2 DEF RemoveJournal, Requested
<1>15. CASE EndCommand
  BY <1>15, <1>a, <1>b, <1>c DEF EndCommand, Requested
<1>16. CASE CreateJournal
  BY <1>16, <1>a, <1>b, <1>c DEF CreateJournal, Requested
<1>17. CASE WriteHeader
  BY <1>17, <1>a, <1>b, <1>c DEF WriteHeader, Requested
<1>18. CASE Stage
  <2>1. prior.dirs \cup ({DirOf[i] : i \in Ops} \ {TopDir}) \subseteq Dirs
    BY <1>a, RestoreAssumption DEF TypeOK, Projects
  <2>2. archive' \in [Ops -> Value]
    BY <1>a DEF TypeOK
  <2>3. Requested' \in Projects
    BY <1>18, <2>1, <2>2 DEF Stage, Requested, Projects
  <2>4. Requested = Absent /\ UNCHANGED <<Recovered, Answer>>
    BY <1>18, <1>c DEF Stage, Requested
  <2> QED
    BY <2>3, <2>4
<1>19. CASE Begin
  BY <1>19, <1>a, <1>b, <1>c DEF Begin, RecordBegin, Requested
<1>20. CASE MakeDirectory
  BY <1>20, <1>a, <1>b, <1>c DEF MakeDirectory, Requested
<1>21. CASE BackUp
  BY <1>21, <1>a, <1>b, <1>c DEF BackUp, Requested
<1>22. CASE AppendBackedUp
  BY <1>22, <1>a, <1>b, <1>c DEF AppendBackedUp, RecordBackedUp, Requested
<1>23. CASE Promote
  BY <1>23, <1>a, <1>b, <1>c DEF Promote, Requested
<1>24. CASE AppendPromoted
  BY <1>24, <1>a, <1>b, <1>c DEF AppendPromoted, RecordPromoted, Requested
<1>25. CASE Validate
  BY <1>25, <1>a, <1>b, <1>c DEF Validate, Requested
<1>26. CASE Commit
  BY <1>26, <1>a, <1>b, <1>c DEF Commit, Requested
<1>27. CASE OperationFails
  BY <1>27, <1>a, <1>b, <1>c DEF OperationFails, Fail, Requested
<1>28. CASE LoadFails
  BY <1>28, <1>a, <1>b, <1>c DEF LoadFails, Refuse, Requested
<1>29. CASE RollbackFails
  BY <1>29, <1>a, <1>b, <1>c DEF RollbackFails, Refuse, Requested
<1>30. CASE CleanupFails
  BY <1>30, <1>a, <1>b, <1>c DEF CleanupFails, Refuse, Requested
<1>31. CASE WriteHeaderFails
  <2>1. prior = [files |-> prior.files, dirs |-> prior.dirs]
    BY <1>a DEF TypeOK, Projects
  <2>2. prior = Current
    BY <1>31, <2>1 DEF WriteHeaderFails, IInv, HeaderFirst
  <2> QED
    BY <1>31, <1>c, <2>2 DEF WriteHeaderFails, Requested
<1>32. CASE MoveFails
  BY <1>32, <1>a, <1>b, <1>c DEF MoveFails, Fail, Requested
<1>33. CASE AppendFails
  BY <1>33, <1>a, <1>b, <1>c DEF AppendFails, Fail, RecordBegin, RecordBackedUp, RecordPromoted, Requested
<1>34. CASE Kill
  BY <1>34, <1>a, <1>b, <1>c DEF Kill, Die, Requested
<1>35. CASE HostStop
  BY <1>35, <1>a, <1>b, <1>c DEF HostStop, Die, Requested
<1>36. CASE UNCHANGED vars
  BY <1>36 DEF vars, Requested
<1> QED
  BY <1>1, <1>2, <1>3, <1>4, <1>5, <1>6, <1>7, <1>8, <1>9, <1>10, <1>11, <1>12, <1>13, <1>14, <1>15, <1>16, <1>17, <1>18, <1>19, <1>20, <1>21, <1>22, <1>23, <1>24, <1>25, <1>26, <1>27, <1>28, <1>29, <1>30, <1>31, <1>32, <1>33, <1>34, <1>35, <1>36
     DEF Next, Step, IOError, Recovery, Restore

\* Where recovery is stuck nothing is requested and nobody has been told "ok".
LEMMA StuckIsQuiet ==
    IInv /\ StuckInv /\ Stuck =>
        /\ Requested = Absent /\ Answer \in {"none", "error"} /\ Effective = Current
        /\ pc \in {"idle", "loading", "ready", "rollback", "undir"} /\ Uncommitted
        /\ jstate = "open" => Remaining \subseteq 1..begun
<1> SUFFICES ASSUME IInv, StuckInv, Stuck
             PROVE  /\ Requested = Absent /\ Answer \in {"none", "error"} /\ Effective = Current
                    /\ pc \in {"idle", "loading", "ready", "rollback", "undir"} /\ Uncommitted
                    /\ jstate = "open" => Remaining \subseteq 1..begun
  OBVIOUS
<1>1. TypeOK /\ JournalShape
  BY DEF IInv
<1>2. Uncommitted /\ Effective = Current
  BY DEF Stuck, Uncommitted, Effective
<1>3. jstate = "open" => /\ Remaining \subseteq 1..begun
                         /\ pc \notin {"cleanup", "unjournal"} \cup Before
  <2> SUFFICES ASSUME jstate = "open" PROVE /\ Remaining \subseteq 1..begun
                                            /\ pc \notin {"cleanup", "unjournal"} \cup Before
    OBVIOUS
  <2>1. PICK i \in Remaining : Unrollable(i)
    BY DEF Stuck
  <2>2. Remaining \subseteq 1..begun
    BY <1>1 DEF Remaining, JournalShape, TypeOK
  <2>3. pc \notin {"cleanup", "unjournal"}
    BY <2>1 DEF Remaining
  <2>4. pc \notin Before
    BY <2>1, <2>2 DEF StuckInv, ForwardRecoverable, Recoverable
  <2> QED
    BY <2>2, <2>3, <2>4
<1>4. pc \in {"idle", "loading", "ready", "rollback", "undir"}
  <2>1. CASE jstate = "torn"
    BY <1>1, <2>1 DEF Stuck, JournalShape
  <2>2. CASE jstate = "open"
    <3>1. begun = 0 => Remaining = {}
      BY <1>1, <1>3, <2>2 DEF TypeOK
    <3>2. pc # "header"
      BY <1>1, <2>2, <3>1 DEF Stuck, IInv, NoLeftovers
    <3> QED
      BY <1>1, <1>3, <2>2, <3>2 DEF TypeOK, Steps, Before, Moving
  <2> QED
    BY <1>2, <2>1, <2>2 DEF Uncommitted
<1>5. Requested = Absent
  BY <1>4 DEF Requested
<1>6. Answer \in {"none", "error"}
  BY <1>1, <1>2 DEF Answer, TypeOK, StuckInv, SuccessIsCommitted, Uncommitted
<1> QED
  BY <1>2, <1>3, <1>4, <1>5, <1>6

Quiet == Requested = Absent /\ Answer \in {"none", "error"} /\ Effective = Current

LEMMA StuckIsQuietNext == IInv' /\ StuckInv' /\ Stuck' => Quiet'
<1>1. IInv /\ StuckInv /\ Stuck => Quiet
  BY StuckIsQuiet DEF Quiet
<1> QED
  BY <1>1, PTL

\* Once stuck, always stuck, and no file changes again.
LEMMA StuckStaysStuck ==
    IInv /\ StuckInv /\ Stuck /\ [Next]_vars => Stuck' /\ UNCHANGED Current
<1> SUFFICES ASSUME IInv, StuckInv, Stuck, [Next]_vars PROVE Stuck' /\ UNCHANGED Current
  OBVIOUS
<1>a. /\ pc \in {"idle", "loading", "ready", "rollback", "undir"} /\ Uncommitted
      /\ jstate = "open" => Remaining \subseteq 1..begun
  BY StuckIsQuiet
<1>b. N \in Nat /\ Ops = 1..N /\ begun \in 0..N /\ cur \in 0..(N + 1)
      /\ files \in [Ops -> Value] /\ saved \in [Ops -> Value]
  BY Bounds
<1>c. pc \in {"rollback", "undir"} => cur <= begun /\ jstate = "open"
  BY Bounds DEF IInv, JournalShape
<1>1. ASSUME UNCHANGED <<tree, jstate, records>>, pc' # "header",
             jstate = "open" => Remaining \subseteq Remaining'
      PROVE  Stuck' /\ UNCHANGED Current
  BY <1>1 DEF Stuck, Unrollable, HasDir, Current, tree, records
<1>2. CASE Start \/ EndCommand
  BY <1>1, <1>2 DEF Start, EndCommand, Remaining, records
<1>3. CASE LoadTorn \/ LoadFails \/ RollbackRefused \/ RollbackFails \/ Kill
  <2>1. UNCHANGED <<tree, jstate, records>> /\ pc' = "idle"
    BY <1>3 DEF LoadTorn, LoadFails, RollbackRefused, RollbackFails, Kill, Refuse, Die
  <2>2. Remaining' = 1..begun
    BY <2>1 DEF Remaining, records
  <2> QED
    BY <1>1, <1>a, <2>1, <2>2
<1>4. CASE LoadOpen
  BY <1>1, <1>4 DEF LoadOpen, Remaining, records
<1>5. CASE RollbackRemoveTarget \/ RollbackMoveBack \/ RollbackInPlace \/ RollbackDirectory
  <2>1. pc \in {"rollback", "undir"} /\ jstate = "open" /\ cur \in Ops
    BY <1>5, <1>b, <1>c DEF RollbackRemoveTarget, RollbackMoveBack, RollbackInPlace, RollbackDirectory,
                            IInv, JournalShape
  <2>2. PICK i \in Remaining : Unrollable(i)
    BY <2>1 DEF Stuck
  <2>3. i \in Ops /\ i <= cur /\ (pc = "undir" => i < cur)
    BY <1>b, <1>c, <2>1 DEF Remaining
  <2>4. Done(cur)
    BY <1>b, <1>c, <2>1, <2>2, <2>3, <1>a DEF StuckInv, StuckIsDone
  <2>5. UNCHANGED <<jstate, records, stage>> /\ pc' \in {"rollback", "undir"}
    BY <1>5, <2>1 DEF RollbackRemoveTarget, RollbackMoveBack, RollbackInPlace, RollbackDirectory
  <2>6. pc = "rollback" /\ ~Unrollable(cur) => i < cur
    BY <1>b, <2>1, <2>2, <2>3
  <2>7. UNCHANGED <<files, dirs, saved>> /\ i \in Remaining'
    <3>1. ~RollbackRemoveTarget /\ ~RollbackMoveBack
      BY <2>4 DEF Done, RollbackRemoveTarget, RollbackMoveBack
    <3>2. CASE RollbackInPlace
      <4>1. cur \notin existed => prior.files[cur] = Absent
        BY <1>c, <2>1 DEF IInv, AllUndoable, Uncommitted, Undoable
      <4>2. UNCHANGED files
        BY <1>b, <2>1, <2>4, <3>2, <4>1 DEF RollbackInPlace, Done
      <4>3. i \in Remaining'
        BY <1>b, <2>3, <2>6, <3>2 DEF RollbackInPlace, Remaining
      <4> QED
        BY <3>2, <4>2, <4>3 DEF RollbackInPlace
    <3>3. CASE RollbackDirectory
      BY <1>b, <2>3, <2>4, <3>3 DEF RollbackDirectory, Done, Remaining
    <3> QED
      BY <1>5, <3>1, <3>2, <3>3
  <2> QED
    BY <2>1, <2>2, <2>5, <2>7 DEF Stuck, Unrollable, HasDir, Current, records
<1>6. CASE UNCHANGED vars
  BY <1>1, <1>6, <1>a DEF vars, Remaining, records
<1>7. ~LoadNothing /\ ~LoadCommitted /\ ~CreateJournal
  BY <1>a DEF Uncommitted, LoadNothing, LoadCommitted, CreateJournal
<1>8. ~RollbackDone
  BY <1>b, <1>c DEF RollbackDone, Stuck, Remaining
<1>9. /\ ~CleanupFile /\ ~CleanupDone /\ ~RemoveJournal /\ ~CleanupFails
      /\ ~(Restore /\ ~CreateJournal) /\ ~WriteHeaderFails
      /\ ~OperationFails /\ ~MoveFails /\ ~AppendFails /\ ~HostStop
  BY <1>a DEF CleanupFile, CleanupDone, RemoveJournal, CleanupFails, Restore, WriteHeader, Stage, Begin,
         MakeDirectory, BackUp, AppendBackedUp, Promote, AppendPromoted, Validate, Commit,
         WriteHeaderFails, OperationFails, MoveFails, AppendFails, HostStop
<1> QED
  BY <1>2, <1>3, <1>4, <1>5, <1>6, <1>7, <1>8, <1>9 DEF Next, Step, Recovery, IOError

\* The journaled restore implements the atomic installation that may get stuck.
THEOREM Refinement == Spec => ImplementsInterruptibleInstall
<1>1. Init => Promise!InterruptibleInit
  <2> SUFFICES ASSUME Init PROVE Promise!InterruptibleInit
    OBVIOUS
  <2>1. Current \in Projects
    BY TypeInit DEF TypeOK, Current, Projects
  <2>2. ~Stuck
    BY DEF Init, Stuck
  <2> QED
    BY <2>1, <2>2 DEF Init, Promise!InterruptibleInit, Promise!Init, Effective, Requested
<1>2. IInv /\ IInv' /\ StuckInv /\ StuckInv' /\ [Next]_vars
        => [Promise!InterruptibleNext]_<<Promise!vars, Stuck>>
  <2> SUFFICES ASSUME IInv, IInv', StuckInv, StuckInv', [Next]_vars
               PROVE  [Promise!InterruptibleNext]_<<Promise!vars, Stuck>>
    OBVIOUS
  <2>1. CASE Stuck
    <3>1. Stuck' /\ UNCHANGED Current
      BY <2>1, StuckStaysStuck
    <3>2. Effective = Current /\ Effective' = Current'
      BY <2>1, <3>1 DEF Stuck, Effective
    <3>3. Requested' = Absent /\ Answer' \in {"none", "error"}
      BY <3>1, StuckIsQuietNext DEF Quiet
    <3> QED
      BY <2>1, <3>1, <3>2, <3>3 DEF Promise!InterruptibleNext, Promise!Refuse, Answer
  <2>2. CASE ~Stuck /\ Stuck'
    <3>1. Requested' = Absent /\ Answer' \in {"none", "error"} /\ Effective' = Current'
      BY <2>2, StuckIsQuietNext DEF Quiet
    <3>2. Current' \in Projects
      BY DEF IInv, TypeOK, Current, Projects
    <3> QED
      BY <2>2, <3>1, <3>2 DEF Promise!InterruptibleNext, Promise!GetStuck, Answer
  <2>3. CASE ~Stuck /\ ~Stuck'
    <3>0. UNCHANGED Stuck
      BY <2>3 DEF Stuck
    <3>1. Effective = Recovered /\ Effective' = Recovered'
      BY <2>3 DEF Effective, Recovered, Uncommitted
    <3>2. CASE UNCHANGED <<Recovered, Requested, Answer>>
      BY <3>0, <3>1, <3>2 DEF Promise!vars, Answer
    <3>3. CASE Requested = Absent /\ Requested' \in Projects /\ UNCHANGED <<Recovered, Answer>>
      <4>1. Promise!Request(Requested')
        BY <3>1, <3>3 DEF Promise!Request, Answer
      <4> QED
        BY <2>3, <3>0, <3>3, <4>1 DEF Promise!InterruptibleNext, Promise!Proceed, Promise!Next
    <3>4. CASE /\ Requested \in Projects /\ Recovered' = Requested
               /\ Requested' = Absent /\ Answer' \in {"ok", "error"}
      <4>1. Requested # Absent
        BY <3>4, RestoreAssumption
      <4>2. Promise!Commit
        BY <3>1, <3>4, <4>1 DEF Promise!Commit, Answer
      <4> QED
        BY <2>3, <3>0, <4>2 DEF Promise!InterruptibleNext, Promise!Proceed, Promise!Next
    <3>5. CASE Requested' = Absent /\ Answer' \in {"none", "error"} /\ UNCHANGED Recovered
      <4>1. Promise!Abandon
        BY <3>1, <3>5 DEF Promise!Abandon, Answer
      <4> QED
        BY <2>3, <3>0, <4>1 DEF Promise!InterruptibleNext, Promise!Proceed, Promise!Next
    <3> QED
      BY <3>2, <3>3, <3>4, <3>5, StepPromise DEF StepKept
  <2> QED
    BY <2>1, <2>2, <2>3
<1> QED
  BY <1>1, <1>2, Inductive, StuckInductive, PTL
     DEF Spec, ImplementsInterruptibleInstall, Promise!InterruptibleSpec

=============================================================================
