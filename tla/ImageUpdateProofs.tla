-------------------------- MODULE ImageUpdateProofs --------------------------
(***************************************************************************)
(* What ImageUpdate promises for every set of services, every way they      *)
(* share images and every set of digests.  The inductive invariant says     *)
(* what each stage of an update knows of the lock on disk, of the baseline  *)
(* and of the candidate.                                                    *)
(***************************************************************************)
EXTENDS ImageUpdate, TLAPS

---------------------------------------------------------------------------
(* The inductive invariant. *)

\* Between updates their variables are gone.
Gone ==
    pc = "idle" => selected = {} /\ ~restoring /\ ~apply

\* An update knows the whole, consistent lock it started from, and has not
\* answered yet.
Baseline ==
    pc # "idle" =>
        /\ reply = "none"
        /\ previous \in Locks
        /\ Consistent(previous)
        /\ ~Splits(selected)

\* What is resolved so far is a consistent lock that keeps the other pins.
Resolved ==
    pc \in Stages \ {"idle"} =>
        LET done == IF pc = "resolve" THEN Services \ todo ELSE Services IN
        /\ \A s \in done : next[s] \in Digest
        /\ \A s, t \in done : Image[s] = Image[t] => next[s] = next[t]
        /\ \A s \in done : ~Refreshed(s) => next[s] = previous[s]

\* Nothing is written before the candidate is, and that is asked for.
BeforeWrite ==
    /\ pc \in {"resolve", "compare", "write"} => lock = previous /\ ~restoring
    /\ pc \in Stages \ {"idle", "resolve", "compare"} => apply /\ next # previous

\* Which lock the stages after it converge.
Converging ==
    /\ pc \in {"pull", "up", "wait"} => lock = IF restoring THEN previous ELSE next
    /\ pc = "down" => lock = previous
    /\ pc \in {"restore", "down"} => restoring
    /\ pc = "restore" => lock \in {previous, next}
    /\ pc = "wait" => running = lock

IInv ==
    /\ TypeOK
    /\ LockConsistent
    /\ Gone
    /\ Baseline
    /\ Resolved
    /\ BeforeWrite
    /\ Converging

---------------------------------------------------------------------------
(* The invariant is inductive. *)

\* What Compose leaves behind is a state of the stack, whatever it is asked for.
LEMMA StackStep ==
    ASSUME TypeOK
    PROVE  /\ Nothing \in Partial /\ Locks \subseteq Partial
           /\ ComposeUp \/ ComposeUpPartly \/ ComposeDown \/ ComposeDownPartly
                => running' \in Partial
BY UpdateAssumption
   DEF TypeOK, Locks, Partial, Nothing, ComposeUp, ComposeUpPartly, ComposeDown,
       ComposeDownPartly

\* Whenever an update returns and leaves a consistent lock, all is well.
LEMMA EndStep ==
    ASSUME IInv, NEW answer, End(answer),
           answer \in {"none", "refused", "error", "current", "preview",
                       "applied", "restored", "unrestored"},
           lock' \in Locks, Consistent(lock)', running' \in Partial, faulty' \in BOOLEAN
    PROVE  IInv'
<1>1. TypeOK'
    BY StackStep DEF IInv, TypeOK, End, Stages
<1>2. Gone' /\ Baseline' /\ Resolved' /\ BeforeWrite' /\ Converging' /\ LockConsistent'
    BY DEF End, Gone, Baseline, Resolved, BeforeWrite, Converging, LockConsistent, Stages
<1> QED
    BY <1>1, <1>2 DEF IInv

\* So it is when a stage fails, and the lock on disk is one of the two.
LEMMA FailStep ==
    ASSUME IInv, pc \in {"write", "restore", "down", "pull", "up", "wait"},
           NEW containers \in BOOLEAN, NEW fault \in BOOLEAN, FailAt(containers, fault),
           lock' \in {previous, next}, running' \in Partial
    PROVE  IInv'
<1>1. previous \in Locks /\ Consistent(previous) /\ next \in Locks /\ Consistent(next)
    BY UpdateAssumption DEF IInv, Baseline, Resolved, Stages, Locks, Partial, TypeOK, Consistent
<1>2. lock' \in Locks /\ Consistent(lock') /\ faulty' \in BOOLEAN
    BY <1>1 DEF FailAt, IInv, TypeOK
<1>3. CASE End("unrestored")
    BY <1>2, <1>3, EndStep DEF Consistent
<1>4. CASE ~End("unrestored")
    <2>1. /\ pc' = "restore" /\ restoring' = TRUE /\ reset' = containers
          /\ UNCHANGED <<selected, apply, previous, next, todo, cancelled, reply>>
        BY <1>4 DEF FailAt, plan
    <2>2. TypeOK'
        BY <2>1, <1>2 DEF IInv, TypeOK, Stages
    <2>3. LockConsistent' /\ Gone' /\ Baseline' /\ BeforeWrite' /\ Converging'
        BY <2>1, <1>1, <1>2
           DEF IInv, LockConsistent, Consistent, Gone, Baseline, Splits, BeforeWrite,
               Converging, Stages
    <2>4. Resolved'
        BY <2>1 DEF IInv, Resolved, Refreshed, Stages
    <2> QED
        BY <2>2, <2>3, <2>4 DEF IInv
<1> QED
    BY <1>3, <1>4

\* One service more is resolved: it has the digest of those it shares its image
\* with, or its pin, or no other service of its image is resolved yet.
LEMMA ResolveStep ==
    ASSUME IInv, Resolve
    PROVE  IInv'
<1>1. PICK s \in todo : \E d \in Answers(s) :
        /\ next' = [next EXCEPT ![s] = d]
        /\ todo' = todo \ {s}
        /\ pc' = IF todo = {s} THEN "compare" ELSE "resolve"
    BY DEF Resolve
<1>2. PICK d \in Answers(s) :
        /\ next' = [next EXCEPT ![s] = d]
        /\ todo' = todo \ {s}
        /\ pc' = IF todo = {s} THEN "compare" ELSE "resolve"
    BY <1>1
<1>3. /\ pc = "resolve"
      /\ UNCHANGED <<lock, running, selected, apply, previous, reset, restoring,
                     cancelled, faulty, reply>>
    BY DEF Resolve
<1> DEFINE done == Services \ todo
<1>4. /\ s \in Services
      /\ previous \in Locks
      /\ next \in Partial
      /\ done' = done \cup {s}
      /\ \A t \in done : next'[t] = next[t]
      /\ next'[s] = d
    BY <1>2, <1>3 DEF IInv, TypeOK, Baseline, Partial
<1>5. /\ \A t \in done : next[t] \in Digest
      /\ \A t, u \in done : Image[t] = Image[u] => next[t] = next[u]
      /\ \A t \in done : ~Refreshed(t) => next[t] = previous[t]
    BY <1>3 DEF IInv, Resolved, Stages
<1>6. /\ d \in Digest
      /\ \A t \in done : Image[t] = Image[s] => next[t] = d
      /\ ~Refreshed(s) => d = previous[s]
    <2>1. CASE ~Refreshed(s)
        <3>1. d = previous[s]
            BY <2>1 DEF Answers
        <3>2. \A t \in done : Image[t] = Image[s] => ~Refreshed(t)
            BY <2>1 DEF Refreshed
        <3>3. \A t \in done : Image[t] = Image[s] => previous[t] = previous[s]
            BY <1>3, <1>4 DEF IInv, Baseline, Consistent
        <3> QED
            BY <3>1, <3>2, <3>3, <1>4, <1>5 DEF Locks
    <2>2. CASE Refreshed(s) /\ {t \in done : Image[t] = Image[s]} = {}
        BY <2>2 DEF Answers
    <2>3. CASE Refreshed(s) /\ {t \in done : Image[t] = Image[s]} # {}
        BY <2>3, <1>5 DEF Answers
    <2> QED
        BY <2>1, <2>2, <2>3
<1>7. /\ \A t \in done' : next'[t] \in Digest
      /\ \A t, u \in done' : Image[t] = Image[u] => next'[t] = next'[u]
      /\ \A t \in done' : ~Refreshed(t) => next'[t] = previous[t]
    BY <1>4, <1>5, <1>6
<1>8. pc' = "compare" => done' = Services
    BY <1>2, <1>3 DEF IInv, TypeOK
<1>9. Resolved'
    BY <1>2, <1>3, <1>7, <1>8 DEF Resolved, Refreshed, Stages
<1>10. TypeOK'
    BY <1>2, <1>3, <1>6 DEF IInv, TypeOK, Stages, Partial
<1>11. LockConsistent' /\ Gone' /\ Baseline' /\ BeforeWrite' /\ Converging'
    BY <1>2, <1>3
       DEF IInv, LockConsistent, Consistent, Gone, Baseline, Splits, BeforeWrite,
           Converging, Stages
<1> QED
    BY <1>9, <1>10, <1>11 DEF IInv

\* What the stages of a running update have in common: they write one of its
\* two locks or none.
LEMMA ForwardStep ==
    ASSUME IInv,
           Apply \/ Write \/ RestoreLock \/ TakeDown \/ Pull \/ Up \/ WaitHealthy
    PROVE  IInv'
<1>1. /\ pc \notin {"idle", "resolve"} /\ pc \in Stages
      /\ pc' \notin {"idle", "resolve", "compare"}
      /\ UNCHANGED <<selected, apply, previous, next, restoring, reset, cancelled,
                     faulty, reply>>
    BY DEF Apply, Write, RestoreLock, TakeDown, Pull, Up, WaitHealthy, plan, IInv, TypeOK,
           Stages
<1>2. previous \in Locks /\ Consistent(previous) /\ next \in Locks /\ Consistent(next)
    BY <1>1 DEF IInv, Baseline, Resolved, Stages, Locks, Partial, TypeOK, Consistent
<1>3. lock' \in Locks /\ LockConsistent'
    BY <1>2
       DEF Apply, Write, RestoreLock, TakeDown, Pull, Up, WaitHealthy, LockConsistent,
           Consistent, IInv, TypeOK
<1>4. running' \in Partial /\ todo' \subseteq Services /\ pc' \in Stages
    BY StackStep
       DEF Apply, Write, RestoreLock, TakeDown, Pull, Up, WaitHealthy, IInv, TypeOK, Stages
<1>5. TypeOK'
    BY <1>1, <1>3, <1>4 DEF IInv, TypeOK
<1>6. Gone' /\ Baseline' /\ Resolved'
    BY <1>1, <1>2 DEF IInv, Gone, Baseline, Resolved, Consistent, Splits, Refreshed, Stages
<1>7. BeforeWrite' /\ Converging'
    BY <1>1
       DEF Apply, Write, RestoreLock, TakeDown, Pull, Up, WaitHealthy, ComposeUp, IInv,
           BeforeWrite, Converging, Stages
<1> QED
    BY <1>3, <1>5, <1>6, <1>7 DEF IInv

LEMMA InvStep ==
    ASSUME IInv, [Next]_vars
    PROVE  IInv'
<1> USE DEF plan
<1>1. (previous \in Locks /\ next \in Locks) \/ pc \in {"idle", "resolve"}
    BY DEF IInv, Baseline, Resolved, Stages, Locks, Partial, TypeOK
<1>2. CASE UNCHANGED vars
    BY <1>2
       DEF vars, IInv, TypeOK, LockConsistent, Consistent, Gone, Baseline, Splits, Resolved,
           Refreshed, BeforeWrite, Converging
<1>3. CASE UpCommand \/ DownCommand
    <2>1. pc = "idle" /\ UNCHANGED <<lock, pc, plan, todo, reset, restoring, cancelled,
                                     faulty, reply>>
        BY <1>3 DEF UpCommand, DownCommand
    <2>2. running' \in Partial
        BY <1>3, StackStep DEF UpCommand, DownCommand, IInv
    <2> QED
        BY <2>1, <2>2
           DEF IInv, TypeOK, LockConsistent, Consistent, Gone, Baseline, Resolved,
               BeforeWrite, Converging, Stages
<1>4. ASSUME NEW sel \in SUBSET Services, NEW app \in BOOLEAN, Begin(sel, app)
      PROVE  IInv'
    <2>1. Nothing \in Partial /\ lock \in Partial
        BY UpdateAssumption DEF Nothing, Partial, Locks, IInv, TypeOK
    <2>2. TypeOK'
        BY <1>4, <2>1 DEF Begin, IInv, TypeOK, Stages
    <2>3. LockConsistent' /\ Baseline' /\ Gone'
        BY <1>4 DEF Begin, IInv, TypeOK, LockConsistent, Consistent, Baseline, Splits, Gone
    <2>4. Resolved' /\ BeforeWrite' /\ Converging'
        BY <1>4 DEF Begin, IInv, Gone, Resolved, BeforeWrite, Converging, Stages
    <2> QED
        BY <2>2, <2>3, <2>4 DEF IInv
<1>5. ASSUME NEW sel \in SUBSET Services, Refuse(sel)
      PROVE  IInv'
    BY <1>5
       DEF Refuse, IInv, TypeOK, LockConsistent, Consistent, Gone, Baseline, Resolved,
           BeforeWrite, Converging, Stages
<1>6. CASE Resolve
    BY <1>6, ResolveStep
<1>7. CASE Apply \/ Write \/ RestoreLock \/ TakeDown \/ Pull \/ Up \/ WaitHealthy
    BY <1>7, ForwardStep
<1>8. CASE AlreadyCurrent \/ Preview \/ Finish \/ ResolveFails \/ ApplyRefused
    <2>1. UNCHANGED <<lock, running, faulty>>
        BY <1>8 DEF AlreadyCurrent, Preview, Finish, ResolveFails, ApplyRefused
    <2>2. PICK answer \in {"current", "preview", "applied", "restored", "error"} : End(answer)
        BY <1>8 DEF AlreadyCurrent, Preview, Finish, ResolveFails, ApplyRefused
    <2> QED
        BY <2>1, <2>2, EndStep DEF IInv, TypeOK, LockConsistent, Consistent
<1>9. CASE WriteFails \/ RestoreLockFails \/ DownFails \/ PullFails \/ UpFails \/ WaitFails
    <2>1. pc \in {"write", "restore", "down", "pull", "up", "wait"}
        BY <1>9 DEF WriteFails, RestoreLockFails, DownFails, PullFails, UpFails, WaitFails
    <2>2. running' \in Partial
        BY <1>9, StackStep
           DEF WriteFails, RestoreLockFails, DownFails, PullFails, UpFails, WaitFails, IInv,
               TypeOK
    <2>3. lock' \in {previous, next}
        BY <1>9, <2>1
           DEF WriteFails, RestoreLockFails, DownFails, PullFails, UpFails, WaitFails, IInv,
               BeforeWrite, Converging
    <2>4. PICK containers \in BOOLEAN, fault \in BOOLEAN : FailAt(containers, fault)
        <3>1. (~cancelled) \in BOOLEAN
            OBVIOUS
        <3> QED
            BY <1>9, <3>1
               DEF WriteFails, RestoreLockFails, DownFails, PullFails, UpFails, WaitFails
    <2> QED
        BY <2>1, <2>2, <2>3, <2>4, FailStep
<1>10. CASE Cancel
    BY <1>10
       DEF Cancel, IInv, TypeOK, LockConsistent, Consistent, Gone, Baseline, Splits, Resolved,
           Refreshed, BeforeWrite, Converging
<1>11. CASE Crash
    <2>1. End("none") /\ UNCHANGED faulty /\ pc # "idle"
        BY <1>11 DEF Crash
    <2>2. running' \in Partial
        BY <1>11, StackStep DEF Crash, IInv, TypeOK
    <2>3. lock' = lock \/ (pc \in {"write", "restore"} /\ lock' \in {previous, next})
        BY <1>11 DEF Crash
    <2>4. lock' \in Locks /\ Consistent(lock')
        BY <2>3, <1>1
           DEF IInv, TypeOK, LockConsistent, Consistent, Baseline, Resolved, Stages
    <2> QED
        BY <2>1, <2>2, <2>4, EndStep DEF IInv, TypeOK, Consistent
<1> QED
    BY <1>2, <1>3, <1>4, <1>5, <1>6, <1>7, <1>8, <1>9, <1>10, <1>11
       DEF Next, Command, Progress, Failure

LEMMA Inductive == Spec => []IInv
<1>1. Init => IInv
    <2> SUFFICES ASSUME Init PROVE IInv
        OBVIOUS
    <2>1. TypeOK
        BY UpdateAssumption DEF Init, TypeOK, Stages, Partial, Nothing
    <2>2. LockConsistent /\ Gone /\ Baseline /\ Resolved /\ BeforeWrite /\ Converging
        BY DEF Init, LockConsistent, Gone, Baseline, Resolved, BeforeWrite, Converging, Stages
    <2> QED
        BY <2>1, <2>2 DEF IInv
<1>2. IInv /\ [Next]_vars => IInv'
    BY InvStep
<1> QED
    BY <1>1, <1>2, PTL DEF Spec

---------------------------------------------------------------------------
(* The theorems. *)

\* The variables have their types.
THEOREM TypeCorrect == Spec => []TypeOK
<1>1. IInv => TypeOK
    BY DEF IInv
<1> QED
    BY <1>1, Inductive, PTL

\* However tags move while the services are resolved, whichever services are
\* named, and wherever updates fail or die: one digest for one image reference.
THEOREM OneDigest == Spec => []LockConsistent
<1>1. IInv => LockConsistent
    BY DEF IInv
<1> QED
    BY <1>1, Inductive, PTL

\* update --service leaves the pins of the services that were not named alone.
THEOREM OthersKept == Spec => []UnselectedKept
<1>1. IInv => UnselectedKept
    <2> SUFFICES ASSUME IInv, selected # {}, pc \in {"resolve", "compare", "write"},
                        NEW s \in Services \ (selected \cup todo)
                 PROVE  next[s] = previous[s]
        BY DEF UnselectedKept
    <2>1. ~Refreshed(s)
        BY DEF IInv, Baseline, Splits, Refreshed, TypeOK
    <2> QED
        BY <2>1 DEF IInv, Resolved, Stages
<1> QED
    BY <1>1, Inductive, PTL


\* The steps with which an update returns are the only ones that answer.
LEMMA Answering ==
    ASSUME IInv, Next, pc # "idle", reply' # "none"
    PROVE  \/ AlreadyCurrent \/ Preview \/ ResolveFails \/ ApplyRefused \/ Finish
           \/ /\ WriteFails \/ RestoreLockFails \/ DownFails \/ PullFails \/ UpFails
                            \/ WaitFails
              /\ restoring
              /\ reply' = "unrestored"
<1>1. reply = "none"
    BY DEF IInv, Baseline
<1>2. ~Crash
    BY DEF Crash, End
<1>3. ~(UpCommand \/ DownCommand \/ Command)
    BY DEF UpCommand, DownCommand, Command, Begin, Refuse
<1>4. ~(Resolve \/ Apply \/ Write \/ RestoreLock \/ TakeDown \/ Pull \/ Up \/ WaitHealthy
        \/ Cancel)
    BY <1>1
       DEF Resolve, Apply, Write, RestoreLock, TakeDown, Pull, Up, WaitHealthy, Cancel
<1>5. ASSUME NEW containers, NEW fault, FailAt(containers, fault)
      PROVE  restoring /\ reply' = "unrestored"
    BY <1>1, <1>5 DEF FailAt, End
<1>6. WriteFails \/ RestoreLockFails \/ DownFails \/ PullFails \/ UpFails \/ WaitFails
        => restoring /\ reply' = "unrestored"
    BY <1>5 DEF WriteFails, RestoreLockFails, DownFails, PullFails, UpFails, WaitFails
<1> QED
    BY <1>2, <1>3, <1>4, <1>6 DEF Next, Progress, Failure

\* An update that answers "applied" or "restored" says the truth about the lock on
\* disk and the containers that run.
THEOREM TrueAnswers == Spec => AnswerIsTrue
<1> DEFINE Says ==
        /\ pc # "idle" /\ reply' = "applied" =>
            running' = lock' /\ lock' = next /\ next # previous
        /\ pc # "idle" /\ reply' = "restored" =>
            running' = lock' /\ lock' = previous
<1>1. IInv /\ [Next]_vars => [Says]_vars
    <2> SUFFICES ASSUME IInv, Next, pc # "idle", reply' \in {"applied", "restored"}
                 PROVE  Says
        OBVIOUS
    <2>1. Finish
        BY Answering DEF AlreadyCurrent, Preview, ResolveFails, ApplyRefused, End
    <2>2. reply' = IF restoring THEN "restored" ELSE "applied"
        BY <2>1 DEF Finish, End
    <2> QED
        BY <2>1, <2>2 DEF Finish, IInv, Converging, BeforeWrite, Stages
<1> QED
    BY <1>1, Inductive, PTL DEF Spec, AnswerIsTrue

\* A failure that is answered has put the baseline back on disk, unless the
\* transaction that does so failed.
THEOREM BaselineKept == Spec => FailureKeepsBaseline
<1> DEFINE Keeps ==
        pc \notin {"idle", "restore"} /\ reply' \in {"error", "unrestored"}
            => lock' = previous
<1>1. IInv /\ [Next]_vars => [Keeps]_vars
    <2> SUFFICES ASSUME IInv, Next, pc \notin {"idle", "restore"},
                        reply' \in {"error", "unrestored"}
                 PROVE  lock' = previous
        OBVIOUS
    <2>1. CASE ResolveFails \/ ApplyRefused
        BY <2>1 DEF ResolveFails, ApplyRefused, IInv, BeforeWrite
    <2>2. CASE /\ WriteFails \/ RestoreLockFails \/ DownFails \/ PullFails \/ UpFails
                             \/ WaitFails
               /\ restoring
        <3>1. DownFails \/ PullFails \/ UpFails \/ WaitFails
            BY <2>2 DEF WriteFails, RestoreLockFails, IInv, BeforeWrite
        <3> QED
            BY <2>2, <3>1
               DEF DownFails, PullFails, UpFails, WaitFails, IInv, Converging
    <2> QED
        BY <2>1, <2>2, Answering DEF AlreadyCurrent, Preview, Finish, End
<1> QED
    BY <1>1, Inductive, PTL DEF Spec, FailureKeepsBaseline

\* An update that was not asked to apply anything has touched nothing.
THEOREM PreviewIsHarmless == Spec => PreviewChangesNothing
<1> DEFINE Harmless == pc # "idle" /\ ~apply => UNCHANGED <<lock, running>>
<1>1. IInv /\ [Next]_vars => [Harmless]_vars
    <2> SUFFICES ASSUME IInv, Next, pc # "idle", ~apply
                 PROVE  UNCHANGED <<lock, running>>
        OBVIOUS
    <2>1. pc \in {"resolve", "compare"}
        BY DEF IInv, TypeOK, BeforeWrite
    <2> QED
        BY <2>1
           DEF Next, UpCommand, DownCommand, Command, Begin, Refuse, Progress, Failure,
               Resolve, AlreadyCurrent, Preview, Apply, Write, RestoreLock, TakeDown, Pull,
               Up, WaitHealthy, WaitFails, Finish, ResolveFails, ApplyRefused, WriteFails,
               RestoreLockFails, DownFails, PullFails, UpFails, Cancel, Crash
<1> QED
    BY <1>1, Inductive, PTL DEF Spec, PreviewChangesNothing
=============================================================================
