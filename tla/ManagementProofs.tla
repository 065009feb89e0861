-------------------------- MODULE ManagementProofs --------------------------
(***************************************************************************)
(* What Management promises for any number of clients, keys and values, and *)
(* whatever is asked.  The inductive invariant ties the token of the gate,  *)
(* what an operation has read, and the audit log to the place where the     *)
(* handler is.                                                              *)
(***************************************************************************)
EXTENDS Management, TLAPS

---------------------------------------------------------------------------
(* The inductive invariant. *)

\* What an operation verified is still the project.
Verified == \A c \in Clients : pc[c] = "verified" => loaded[c] = project

\* A mutation past the middleware has its first record, and no other, in the log.
Recorded ==
    \A c \in Clients :
        Mutates(c) /\ pc[c] \notin {"none", "received"} => record[c] = "started"

\* An operation that returned without an error did what it was asked.
Answered == \A c \in Clients : pc[c] = "returned" /\ outcome[c] = "ok" => effect[c]

IInv ==
    /\ TypeOK
    /\ GateExclusive
    /\ Verified
    /\ Recorded
    /\ Answered

---------------------------------------------------------------------------
(* What an operation can do to the project and to the containers. *)

\* Done is one of the outcomes of MayHaveDone.
LEMMA DoneMayBe ==
    ASSUME NEW c, Done(c)
    PROVE  MayHaveDone(c)
  BY DEF Done, MayHaveDone

\* Whatever an operation did, and however it ended, a project and a stack are left;
\* it acted on the project it verified; and only a mutation did anything.
LEMMA OperationEffect ==
    ASSUME TypeOK, NEW c \in Clients, pc[c] = "verified", loaded[c] = project,
           MayHaveDone(c)
    PROVE  /\ project' \in Projects
           /\ running' \in Stacks
           /\ project' # project =>
                 /\ request[c].kind = "set"
                 /\ project' = [project EXCEPT ![request[c].key] = request[c].value]
           /\ running' \notin {running, None, Mixed} => running' = loaded[c]
           /\ <<project, running>>' # <<project, running>> => Mutates(c)
  <1>1. CASE request[c].kind = "set"
    <2>1. request[c] \in Requests
      BY DEF TypeOK
    <2>2. request[c].key \in Keys /\ request[c].value \in Values
      BY <1>1, <2>1 DEF Requests, Settings
    <2>3. Changed(c) \in Projects
      BY <2>2 DEF TypeOK, Changed, Projects
    <2>4. project' \in {project, Changed(c)} /\ running' = running
      BY <1>1 DEF MayHaveDone
    <2> QED
      BY <1>1, <2>3, <2>4 DEF TypeOK, Changed, Mutates
  <1>2. CASE request[c].kind = "stack"
    <2>1. running' \in {running, None, Mixed, project} /\ project' = project
      BY <1>2 DEF MayHaveDone
    <2> QED
      BY <1>2, <2>1 DEF TypeOK, Stacks, Mutates
  <1>3. CASE request[c].kind \notin {"set", "stack"}
    <2>1. project' = project /\ running' = running
      BY <1>3 DEF MayHaveDone
    <2> QED
      BY <2>1 DEF TypeOK
  <1> QED
    BY <1>1, <1>2, <1>3

---------------------------------------------------------------------------
(* The invariant is inductive. *)

LEMMA InitIInv == Init => IInv
  <1> SUFFICES ASSUME Init PROVE IInv
    OBVIOUS
  <1>1. Blank \in Requests
    BY DEF Blank, Requests
  <1>2. TypeOK
    BY <1>1 DEF Init, TypeOK, Stacks, Places
  <1>3. GateExclusive
    BY DEF Init, GateExclusive, Inside
  <1> QED
    BY <1>2, <1>3 DEF Init, IInv, Verified, Recorded, Answered

\* A step of one handler, described by what it does to that client, keeps the
\* invariant when it keeps the type and the gate.
LEMMA SendStep ==
    ASSUME IInv, NEW c \in Clients, NEW r \in Asked, Send(c, r)
    PROVE  IInv'
  <1>1. r \in Requests
    BY AskedAssumption
  <1>2. TypeOK'
    BY <1>1 DEF IInv, TypeOK, Send, Places
  <1>3. GateExclusive'
    BY DEF IInv, TypeOK, GateExclusive, Inside, Send
  <1>4. Verified' /\ Recorded' /\ Answered'
    BY DEF IInv, TypeOK, Verified, Recorded, Answered, Mutates, Send
  <1> QED
    BY <1>2, <1>3, <1>4 DEF IInv

LEMMA DecodeStep ==
    ASSUME IInv, NEW c \in Clients, Decode(c)
    PROVE  IInv'
  <1>1. TypeOK'
    BY DEF IInv, TypeOK, Decode, AuditStart, Places
  <1>2. GateExclusive'
    BY DEF IInv, TypeOK, GateExclusive, Inside, Decode, AuditStart
  <1>3. Verified' /\ Recorded' /\ Answered'
    BY DEF IInv, TypeOK, Verified, Recorded, Answered, Mutates, Decode, AuditStart
  <1> QED
    BY <1>1, <1>2, <1>3 DEF IInv

LEMMA UndecodableStep ==
    ASSUME IInv, NEW c \in Clients, Undecodable(c)
    PROVE  IInv'
  <1>1. TypeOK'
    BY DEF IInv, TypeOK, Undecodable, AuditStart, Return, Places
  <1>2. GateExclusive'
    BY DEF IInv, TypeOK, GateExclusive, Inside, Undecodable, AuditStart, Return
  <1>3. Verified' /\ Recorded' /\ Answered'
    BY DEF IInv, TypeOK, Verified, Recorded, Answered, Mutates, Undecodable,
           AuditStart, Return
  <1> QED
    BY <1>1, <1>2, <1>3 DEF IInv

\* The three ways a handler ends.
LEMMA EndStep ==
    ASSUME IInv, NEW c \in Clients,
           AuditStartFails(c) \/ AuditEnd(c) \/ AuditEndFails(c)
    PROVE  IInv'
  <1>1. /\ pc[c] \in {"received", "returned"}
        /\ End(c)
        /\ UNCHANGED <<daemon, project, running, token, loaded>>
    BY DEF AuditStartFails, AuditEnd, AuditEndFails
  <1>2. \E s \in {"started", "succeeded", "failed"} :
            record' = record \/ record' = [record EXCEPT ![c] = s]
    BY DEF AuditStartFails, AuditEnd, AuditEndFails
  <1>3. Blank \in Requests /\ Blank.kind = "read"
    BY DEF Blank, Requests
  <1>4. TypeOK'
    BY <1>1, <1>2, <1>3 DEF IInv, TypeOK, End, Places
  <1>5. GateExclusive'
    BY <1>1 DEF IInv, TypeOK, GateExclusive, Inside, End
  <1>6. Verified' /\ Answered'
    BY <1>1 DEF IInv, TypeOK, Verified, Answered, End
  <1>7. Recorded'
    BY <1>1, <1>2, <1>3 DEF IInv, TypeOK, Recorded, Mutates, End
  <1> QED
    BY <1>4, <1>5, <1>6, <1>7 DEF IInv

LEMMA AcquireStep ==
    ASSUME IInv, NEW c \in Clients, Acquire(c)
    PROVE  IInv'
  <1>1. TypeOK'
    BY DEF IInv, TypeOK, Acquire, Places
  <1>2. GateExclusive'
    BY DEF IInv, TypeOK, GateExclusive, Inside, Acquire
  <1>3. Verified' /\ Recorded' /\ Answered'
    BY DEF IInv, TypeOK, Verified, Recorded, Answered, Mutates, Acquire
  <1> QED
    BY <1>1, <1>2, <1>3 DEF IInv

LEMMA LoadStep ==
    ASSUME IInv, NEW c \in Clients, Load(c)
    PROVE  IInv'
  <1>1. TypeOK'
    BY DEF IInv, TypeOK, Load, Places
  <1>2. GateExclusive'
    BY DEF IInv, TypeOK, GateExclusive, Inside, Load
  <1>3. Verified' /\ Recorded' /\ Answered'
    BY DEF IInv, TypeOK, Verified, Recorded, Answered, Mutates, Load
  <1> QED
    BY <1>1, <1>2, <1>3 DEF IInv

\* A caller that gives up, before it is inside.
LEMMA GiveUpStep ==
    ASSUME IInv, NEW c \in Clients, GiveUp(c)
    PROVE  IInv'
  <1>1. TypeOK'
    BY DEF IInv, TypeOK, GiveUp, Return, Places
  <1>2. GateExclusive'
    BY DEF IInv, TypeOK, GateExclusive, Inside, GiveUp, Return
  <1>3. Verified' /\ Recorded' /\ Answered'
    BY DEF IInv, TypeOK, Verified, Recorded, Answered, Mutates, GiveUp, Return
  <1> QED
    BY <1>1, <1>2, <1>3 DEF IInv

\* An operation that is inside returns: the token goes with it, and nobody else is
\* inside to notice what became of the project.
LEMMA ReturnStep ==
    ASSUME IInv, NEW c \in Clients,
           Refuse(c) \/ Operate(c) \/ OperateFails(c)
    PROVE  IInv'
  <1>1. /\ pc[c] \in Inside
        /\ token' = FALSE
        /\ record' = record
        /\ \E s \in {"ok", "error"} :
              Return(c, s) /\ (s = "ok" => effect' = [effect EXCEPT ![c] = TRUE])
        /\ effect' = effect \/ effect' = [effect EXCEPT ![c] = TRUE]
    BY DEF Refuse, Operate, OperateFails, Inside
  <1>2. project' \in Projects /\ running' \in Stacks
    <2>1. CASE Refuse(c)
      BY <2>1 DEF Refuse, IInv, TypeOK
    <2>2. CASE Operate(c) \/ OperateFails(c)
      <3>1. pc[c] = "verified" /\ MayHaveDone(c)
        BY <2>2, DoneMayBe DEF Operate, OperateFails
      <3>2. loaded[c] = project
        BY <3>1 DEF IInv, Verified
      <3> QED
        BY <3>1, <3>2, OperationEffect DEF IInv
    <2> QED
      BY <2>1, <2>2
  <1>3. TypeOK'
    <2>1. effect' \in [Clients -> BOOLEAN]
      BY <1>1 DEF IInv, TypeOK
    <2>2. token' \in BOOLEAN
      BY <1>1
    <2>3. /\ daemon' = daemon /\ request' = request /\ cancelled' = cancelled
          /\ pc' \in [Clients -> Places]
          /\ loaded' \in [Clients -> Projects \cup {None}]
          /\ outcome' \in [Clients -> {"none", "ok", "error"}]
      BY <1>1 DEF IInv, TypeOK, Return, Places
    <2> QED
      BY <1>1, <1>2, <2>1, <2>2, <2>3 DEF IInv, TypeOK
  <1>4. \A d \in Clients : pc'[d] \notin Inside
    BY <1>1 DEF IInv, TypeOK, GateExclusive, Inside, Return
  <1>5. GateExclusive'
    BY <1>1, <1>4 DEF GateExclusive
  <1>6. Verified'
    BY <1>4 DEF Verified, Inside
  <1>7. Recorded'
    BY <1>1 DEF IInv, TypeOK, Recorded, Mutates, Return, Inside
  <1>8. Answered'
    BY <1>1 DEF IInv, TypeOK, Answered, Return
  <1> QED
    BY <1>3, <1>5, <1>6, <1>7, <1>8 DEF IInv

LEMMA CancelStep ==
    ASSUME IInv, NEW c \in Clients, Cancel(c)
    PROVE  IInv'
  <1>1. TypeOK'
    BY DEF IInv, TypeOK, Cancel
  <1>2. GateExclusive'
    BY DEF IInv, GateExclusive, Cancel
  <1>3. Verified' /\ Recorded' /\ Answered'
    BY DEF IInv, Verified, Recorded, Answered, Mutates, Cancel
  <1> QED
    BY <1>1, <1>2, <1>3 DEF IInv

\* The daemon starts, is told to stop, or has stopped.
LEMMA LifeStep ==
    ASSUME IInv, StartDaemon \/ Stop \/ Stopped
    PROVE  IInv'
  <1>1. /\ UNCHANGED <<project, running, token, handler>>
        /\ daemon' \in {"down", "up", "stopping"}
    BY DEF StartDaemon, Stop, Stopped
  <1>2. TypeOK'
    BY <1>1 DEF IInv, TypeOK, handler
  <1>3. GateExclusive'
    BY <1>1 DEF IInv, GateExclusive, handler
  <1>4. Verified' /\ Recorded' /\ Answered'
    BY <1>1 DEF IInv, Verified, Recorded, Answered, Mutates, handler
  <1> QED
    BY <1>2, <1>3, <1>4 DEF IInv

\* All handlers die at once.
LEMMA DieStep ==
    ASSUME IInv, Die
    PROVE  IInv'
  <1>1. project' \in Projects /\ running' \in Stacks
    <2>1. CASE UNCHANGED <<project, running>>
      BY <2>1 DEF IInv, TypeOK
    <2>2. CASE \E c \in Clients : pc[c] = "verified" /\ MayHaveDone(c)
      <3>1. PICK c \in Clients : pc[c] = "verified" /\ MayHaveDone(c)
        BY <2>2
      <3>2. loaded[c] = project
        BY <3>1 DEF IInv, Verified
      <3> QED
        BY <3>1, <3>2, OperationEffect DEF IInv
    <2> QED
      BY <2>1, <2>2 DEF Die
  <1>2. Blank \in Requests /\ Blank.kind = "read"
    BY DEF Blank, Requests
  <1>3. TypeOK'
    BY <1>1, <1>2 DEF IInv, TypeOK, Die, Places
  <1>4. GateExclusive'
    BY DEF Die, GateExclusive, Inside
  <1>5. Verified' /\ Recorded' /\ Answered'
    BY DEF Die, Verified, Recorded, Answered
  <1> QED
    BY <1>3, <1>4, <1>5 DEF IInv

LEMMA NextIInv == IInv /\ [Next]_vars => IInv'
  <1> SUFFICES ASSUME IInv, [Next]_vars PROVE IInv'
    OBVIOUS
  <1>1. CASE Request
    <2>1. PICK c \in Clients :
              (\E r \in Asked : Send(c, r)) \/ Acquire(c) \/ Handle(c) \/ Fail(c)
              \/ Cancel(c)
      BY <1>1 DEF Request
    <2> QED
      BY <2>1, SendStep, AcquireStep, DecodeStep, EndStep, GiveUpStep, LoadStep,
         ReturnStep, UndecodableStep, CancelStep DEF Handle, Fail
  <1>2. CASE \E c \in Clients : AuditFault(c)
    BY <1>2, EndStep DEF AuditFault
  <1>3. CASE Life
    BY <1>3, LifeStep, DieStep DEF Life, StopForced
  <1>4. CASE Kill
    BY <1>4, DieStep DEF Kill
  <1>5. CASE UNCHANGED vars
    <2>1. TypeOK'
      BY <1>5 DEF IInv, TypeOK, vars, handler
    <2>2. GateExclusive'
      BY <1>5 DEF IInv, GateExclusive, vars, handler
    <2>3. Verified' /\ Recorded' /\ Answered'
      BY <1>5 DEF IInv, Verified, Recorded, Answered, Mutates, vars, handler
    <2> QED
      BY <2>1, <2>2, <2>3 DEF IInv
  <1> QED
    BY <1>1, <1>2, <1>3, <1>4, <1>5 DEF Next

\* The invariant holds in every state.
THEOREM Invariant == Spec => []IInv
  BY InitIInv, NextIInv, PTL DEF Spec

---------------------------------------------------------------------------
(* The promises. *)

\* Every variable keeps its type: no operation, finished, failed or killed, leaves
\* behind a project that is not one.
THEOREM TypeCorrect == Spec => []TypeOK
  BY Invariant, PTL DEF IInv

\* The token is in the channel exactly while one operation is inside.
THEOREM OneInside == Spec => []GateExclusive
  BY Invariant, PTL DEF IInv

\* Only what an operation does, finished or cut short, changes project or containers.
LEMMA OnlyOperations ==
    ASSUME IInv, Next, <<project, running>>' # <<project, running>>
    PROVE  \E c \in Clients :
              /\ pc[c] = "verified"
              /\ loaded[c] = project
              /\ MayHaveDone(c)
  <1>1. \E c \in Clients : pc[c] = "verified" /\ MayHaveDone(c)
    <2>1. CASE \E c \in Clients : Operate(c) \/ OperateFails(c)
      BY <2>1, DoneMayBe DEF Operate, OperateFails
    <2>2. CASE Die
      BY <2>2 DEF Die
    <2>3. CASE ~Die /\ ~\E c \in Clients : Operate(c) \/ OperateFails(c)
      <3>1. \/ \E c \in Clients : (\E r \in Asked : Send(c, r)) \/ Acquire(c)
                \/ Decode(c) \/ AuditEnd(c) \/ GiveUp(c) \/ Load(c)
                \/ Undecodable(c) \/ Refuse(c) \/ Cancel(c)
                \/ AuditStartFails(c) \/ AuditEndFails(c)
            \/ StartDaemon \/ Stop \/ Stopped
        BY <2>3 DEF Next, Request, Handle, Fail, AuditFault, Life, StopForced, Kill
      <3> QED
        BY <3>1 DEF Send, Acquire, Decode, AuditEnd, GiveUp, Load, Undecodable,
               Refuse, Cancel, AuditStartFails, AuditEndFails, StartDaemon, Stop,
               Stopped
    <2> QED
      BY <2>1, <2>2, <2>3
  <1> QED
    BY <1>1 DEF IInv, Verified

LEMMA StepActsOnWhatIsThere ==
    ASSUME IInv, Next, <<project, running>>' # <<project, running>>
    PROVE  /\ project' # project =>
                \E c \in Clients :
                    /\ request[c].kind = "set"
                    /\ project' = [project EXCEPT ![request[c].key] = request[c].value]
           /\ running' \notin {running, None, Mixed} =>
                \E c \in Clients : running' = loaded[c]
           /\ \E c \in Clients : Mutates(c) /\ record[c] = "started"
  <1>1. PICK c \in Clients :
            pc[c] = "verified" /\ loaded[c] = project /\ MayHaveDone(c)
    BY OnlyOperations
  <1>2. Mutates(c) => record[c] = "started"
    BY <1>1 DEF IInv, Recorded
  <1> QED
    BY <1>1, <1>2, OperationEffect DEF IInv

\* No change is lost: a mutation changes the one key it names of the project as it
\* is then, and containers are made from the project verified for it.
THEOREM NoLostChange == Spec => ActsOnWhatIsThere
  <1>1. IInv /\ [Next]_vars =>
          [/\ project' # project =>
                \E c \in Clients :
                    /\ request[c].kind = "set"
                    /\ project' = [project EXCEPT ![request[c].key] = request[c].value]
           /\ running' \notin {running, None, Mixed} =>
                \E c \in Clients : running' = loaded[c]]_vars
    BY StepActsOnWhatIsThere DEF vars
  <1> QED
    BY <1>1, Invariant, PTL DEF Spec, ActsOnWhatIsThere

\* Whatever changes project or containers has its first record in the log.
THEOREM NothingUnrecorded == Spec => ChangesAreRecorded
  <1>1. IInv /\ [Next]_vars =>
          [<<project, running>>' # <<project, running>> =>
              \E c \in Clients : Mutates(c) /\ record[c] = "started"]_vars
    BY StepActsOnWhatIsThere DEF vars
  <1> QED
    BY <1>1, Invariant, PTL DEF Spec, ChangesAreRecorded

\* A record that says succeeded is written by AuditEnd alone, of an operation that
\* returned without an error.
LEMMA StepSucceeds ==
    ASSUME IInv, Next, NEW c \in Clients, record'[c] = "succeeded",
           record[c] # "succeeded"
    PROVE  effect[c]
  <1>1. \E d \in Clients : AuditEnd(d)
    <2>1. \A d \in Clients : ~\E r \in Asked : Send(d, r)
      BY DEF Send, IInv, TypeOK
    <2>2. \A d \in Clients : ~Decode(d) /\ ~Undecodable(d) /\ ~AuditStartFails(d)
      BY DEF Decode, Undecodable, AuditStart, AuditStartFails, IInv, TypeOK
    <2>3. record' # record
      OBVIOUS
    <2>4. ~Die /\ ~StartDaemon /\ ~Stop /\ ~Stopped
      BY <2>3 DEF Die, StartDaemon, Stop, Stopped, handler
    <2>5. \A d \in Clients : ~Acquire(d) /\ ~GiveUp(d) /\ ~Load(d) /\ ~Refuse(d)
              /\ ~Operate(d) /\ ~OperateFails(d) /\ ~Cancel(d) /\ ~AuditEndFails(d)
      BY <2>3 DEF Acquire, GiveUp, Load, Refuse, Operate, OperateFails, Cancel,
             AuditEndFails
    <2> QED
      BY <2>1, <2>2, <2>4, <2>5 DEF Next, Request, Handle, Fail, AuditFault, Life,
         StopForced, Kill
  <1>2. PICK d \in Clients : AuditEnd(d)
    BY <1>1
  <1>3. d = c /\ outcome[c] = "ok" /\ pc[c] = "returned"
    BY <1>2 DEF AuditEnd, IInv, TypeOK
  <1> QED
    BY <1>3 DEF IInv, Answered

\* A record that says succeeded is that of a mutation that did what it was asked.
THEOREM RecordsAreTrue == Spec => SucceededIsTrue
  <1>1. IInv /\ [Next]_vars =>
          [\A c \in Clients :
              record'[c] = "succeeded" /\ record[c] # "succeeded" => effect[c]]_vars
    BY StepSucceeds DEF vars
  <1> QED
    BY <1>1, Invariant, PTL DEF Spec, SucceededIsTrue
=============================================================================
