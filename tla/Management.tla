------------------------------ MODULE Management ------------------------------
(***************************************************************************)
(* The management daemon: src/internal/broker/server.go handles each HTTP   *)
(* request in a goroutine of its own, writes the audit records of a         *)
(* mutation (audit.go) and calls src/internal/management/operator.go, whose *)
(* gate lets one operation at a time read, verify and change the project.   *)
(* A caller may go away or time out at any moment, the daemon may be         *)
(* stopped (cmd/sdbxd/main.go, httplifecycle/serve.go) or killed.            *)
(*                                                                         *)
(* The project is a record of settings that is replaced as a whole:         *)
(* ProjectTransaction is the reason.  Requests that a policy turns away      *)
(* change nothing and are left out.  Docker is external: Compose converges   *)
(* to the project on disk, or fails and leaves a mixture.                    *)
(***************************************************************************)
EXTENDS FiniteSets

CONSTANTS
    Clients,   \* who may have a request under way, one at a time each
    Keys,      \* what can be set: the settings and the add-ons
    Values,    \* what a key can be set to
    Asked,     \* the requests that are made
    None,      \* no containers; nothing read
    Mixed      \* containers of different projects, or only some of them

Projects == [Keys -> Values]
Stacks == Projects \cup {None, Mixed}

ASSUME ManagementAssumption ==
    /\ Keys # {}
    /\ Values # {}
    /\ None \notin Projects
    /\ Mixed \notin Projects

\* SetSetting and SetAddon; Stack; RestoreBackup; what only reads.
Settings == [kind : {"set"}, key : Keys, value : Values]
Requests == Settings \cup [kind : {"stack", "restore", "read"}]

ASSUME AskedAssumption == Asked \subseteq Requests

VARIABLES
    daemon,     \* "down", "up", or "stopping": it accepts nothing more
    project,    \* the settings in the project on disk
    running,    \* the project the containers were made from
    token,      \* the gate's channel holds its token: somebody is inside
    pc,         \* where the handler of each client's request is
    request,    \* that request
    cancelled,  \* its context is cancelled
    loaded,     \* the verified project it read
    outcome,    \* what its operation returned
    effect,     \* history: the operation did what it was asked
    record      \* the last audit record of it in the log

handler == <<pc, request, cancelled, loaded, outcome, effect, record>>
vars == <<daemon, project, running, token, handler>>

Places == {"none", "received", "waiting", "entered", "verified", "returned"}
Inside == {"entered", "verified"}

\* A handler never leaves a project behind that is not one.
TypeOK ==
    /\ daemon \in {"down", "up", "stopping"}
    /\ project \in Projects
    /\ running \in Stacks
    /\ token \in BOOLEAN
    /\ pc \in [Clients -> Places]
    /\ request \in [Clients -> Requests]
    /\ cancelled \in [Clients -> BOOLEAN]
    /\ loaded \in [Clients -> Projects \cup {None}]
    /\ outcome \in [Clients -> {"none", "ok", "error"}]
    /\ effect \in [Clients -> BOOLEAN]
    /\ record \in [Clients -> {"none", "started", "succeeded", "failed"}]

Mutates(c) == request[c].kind # "read"

Blank == [kind |-> "read"]

Init ==
    /\ daemon = "down"
    /\ project \in Projects
    /\ running = None
    /\ token = FALSE
    /\ pc = [c \in Clients |-> "none"]
    /\ request = [c \in Clients |-> Blank]
    /\ cancelled = [c \in Clients |-> FALSE]
    /\ loaded = [c \in Clients |-> None]
    /\ outcome = [c \in Clients |-> "none"]
    /\ effect = [c \in Clients |-> FALSE]
    /\ record = [c \in Clients |-> "none"]

---------------------------------------------------------------------------
(* The middleware of server.go.                                             *)

Send(c, r) ==
    /\ daemon = "up"
    /\ pc[c] = "none"
    /\ pc' = [pc EXCEPT ![c] = "received"]
    /\ request' = [request EXCEPT ![c] = r]
    /\ record' = [record EXCEPT ![c] = "none"]
    /\ UNCHANGED <<daemon, project, running, token, cancelled, loaded, outcome, effect>>

\* The handler returns.
End(c) ==
    /\ pc' = [pc EXCEPT ![c] = "none"]
    /\ request' = [request EXCEPT ![c] = Blank]
    /\ cancelled' = [cancelled EXCEPT ![c] = FALSE]
    /\ outcome' = [outcome EXCEPT ![c] = "none"]
    /\ effect' = [effect EXCEPT ![c] = FALSE]

\* The operation returns, through the deferred Unlock when it is inside.
Return(c, result) ==
    /\ pc' = [pc EXCEPT ![c] = "returned"]
    /\ outcome' = [outcome EXCEPT ![c] = result]
    /\ loaded' = [loaded EXCEPT ![c] = None]
    /\ UNCHANGED <<daemon, request, cancelled>>

\* Mutated form: a mutation goes on although its first record is not written.
AuditStartIgnored(c) ==
    /\ pc[c] = "received"
    /\ UNCHANGED record

\* A read goes on at once, a mutation when its first record is synced.
AuditStart(c) ==
    /\ pc[c] = "received"
    /\ ~cancelled[c] \/ ~Mutates(c)
    /\ record' = IF Mutates(c) THEN [record EXCEPT ![c] = "started"] ELSE record

Decode(c) ==
    /\ AuditStart(c)
    /\ pc' = [pc EXCEPT ![c] = "waiting"]
    /\ UNCHANGED <<daemon, project, running, token, request, cancelled, loaded,
                   outcome, effect>>

\* The operator is not called.
Undecodable(c) ==
    /\ AuditStart(c)
    /\ Return(c, "error")
    /\ UNCHANGED <<project, running, token, effect>>

\* audit_unavailable: the context is cancelled, or the write or its sync fails.
AuditStartFails(c) ==
    /\ pc[c] = "received"
    /\ Mutates(c)
    /\ \/ record' = record
       \/ ~cancelled[c] /\ record' = [record EXCEPT ![c] = "started"]
    /\ End(c)
    /\ UNCHANGED <<daemon, project, running, token, loaded>>

\* Mutated form: the status is read from a recorder that nobody writes to.
AuditEndUnseen(c) ==
    /\ pc[c] = "returned"
    /\ record' = IF Mutates(c) THEN [record EXCEPT ![c] = "succeeded"] ELSE record
    /\ End(c)
    /\ UNCHANGED <<daemon, project, running, token, loaded>>

\* The response is written, and the second record of a mutation by its status.
AuditEnd(c) ==
    /\ pc[c] = "returned"
    /\ record' = IF Mutates(c)
                 THEN [record EXCEPT ![c] = IF outcome[c] = "ok" THEN "succeeded" ELSE "failed"]
                 ELSE record
    /\ End(c)
    /\ UNCHANGED <<daemon, project, running, token, loaded>>

\* Only a line on stderr tells of it.
AuditEndFails(c) ==
    /\ pc[c] = "returned"
    /\ Mutates(c)
    /\ End(c)
    /\ UNCHANGED <<daemon, project, running, token, loaded, record>>

---------------------------------------------------------------------------
(* ProjectOperator.                                                         *)

\* contextGate.Lock: select takes either branch that is ready, also when both are.
Acquire(c) ==
    /\ pc[c] = "waiting"
    /\ ~token
    /\ token' = TRUE
    /\ pc' = [pc EXCEPT ![c] = "entered"]
    /\ UNCHANGED <<daemon, project, running, request, cancelled, loaded,
                   outcome, effect, record>>

\* Mutated form: a caller that gives up takes the token out of the channel.
GiveUpUnlocking(c) ==
    /\ pc[c] = "waiting"
    /\ cancelled[c]
    /\ token' = FALSE
    /\ Return(c, "error")
    /\ UNCHANGED <<project, running, effect, record>>

GiveUp(c) ==
    /\ pc[c] = "waiting"
    /\ cancelled[c]
    /\ Return(c, "error")
    /\ UNCHANGED <<project, running, token, effect, record>>

\* Mutated form: the confirmation is checked before the deferred Unlock is set up.
RefuseInside(c) ==
    /\ pc[c] = "entered"
    /\ Return(c, "error")
    /\ UNCHANGED <<project, running, token, effect, record>>

\* The confirmation is not exact, the key is read-only, or the project is missing,
\* stale or modified (load).
Refuse(c) ==
    /\ pc[c] = "entered"
    /\ token' = FALSE
    /\ Return(c, "error")
    /\ UNCHANGED <<project, running, effect, record>>

\* Mutated form: the project is read before the gate is entered.
LoadOutside(c) ==
    /\ pc[c] = "entered"
    /\ pc' = [pc EXCEPT ![c] = "verified"]
    /\ token' = FALSE
    /\ loaded' = [loaded EXCEPT ![c] = project]
    /\ UNCHANGED <<daemon, project, running, request, cancelled, outcome, effect, record>>

\* load: configuration, lock, graph and generated files are read and agree.
Load(c) ==
    /\ pc[c] = "entered"
    /\ pc' = [pc EXCEPT ![c] = "verified"]
    /\ loaded' = [loaded EXCEPT ![c] = project]
    /\ UNCHANGED <<daemon, project, running, token, request, cancelled, outcome,
                   effect, record>>

\* Manager.Set and Manager.apply: the project read, with one key changed, is
\* regenerated as a whole.
Changed(c) == [loaded[c] EXCEPT ![request[c].key] = request[c].value]

\* What the operation of c can have done when it is over, or when it dies.  A
\* restore preserves the project: it brings back the applications' own state.
MayHaveDone(c) ==
    CASE request[c].kind = "set" ->
            project' \in {project, Changed(c)} /\ UNCHANGED running
      [] request[c].kind = "stack" ->
            running' \in {running, None, Mixed, project} /\ UNCHANGED project
      [] OTHER -> UNCHANGED <<project, running>>

\* Compose up, down, and restart, which starts the same containers again.
Done(c) ==
    CASE request[c].kind = "set" -> project' = Changed(c) /\ UNCHANGED running
      [] request[c].kind = "stack" -> running' \in {project, None, running} /\ UNCHANGED project
      [] OTHER -> UNCHANGED <<project, running>>

Operate(c) ==
    /\ pc[c] = "verified"
    /\ Done(c)
    /\ effect' = [effect EXCEPT ![c] = TRUE]
    /\ token' = FALSE
    /\ Return(c, "ok")
    /\ UNCHANGED record

\* An error or a cancellation: nothing is done, some of it, or all of it.
OperateFails(c) ==
    /\ pc[c] = "verified"
    /\ MayHaveDone(c)
    /\ token' = FALSE
    /\ Return(c, "error")
    /\ UNCHANGED <<effect, record>>

---------------------------------------------------------------------------
(* The caller, and the daemon's life.                                       *)

\* The caller goes away, the handler's timeout expires, or the connections of a
\* stopping daemon are closed.
Cancel(c) ==
    /\ pc[c] # "none"
    /\ ~cancelled[c]
    /\ cancelled' = [cancelled EXCEPT ![c] = TRUE]
    /\ UNCHANGED <<daemon, project, running, token, pc, request, loaded, outcome,
                   effect, record>>

StartDaemon ==
    /\ daemon = "down"
    /\ daemon' = "up"
    /\ UNCHANGED <<project, running, token, handler>>

\* SIGTERM: http.Server.Shutdown closes the listener and waits for the handlers ...
Stop ==
    /\ daemon = "up"
    /\ daemon' = "stopping"
    /\ UNCHANGED <<project, running, token, handler>>

Stopped ==
    /\ daemon = "stopping"
    /\ \A c \in Clients : pc[c] = "none"
    /\ daemon' = "down"
    /\ UNCHANGED <<project, running, token, handler>>

\* Every handler is gone, wherever it was; the log and the project stay.
Die ==
    /\ daemon' = "down"
    /\ token' = FALSE
    /\ pc' = [c \in Clients |-> "none"]
    /\ request' = [c \in Clients |-> Blank]
    /\ cancelled' = [c \in Clients |-> FALSE]
    /\ loaded' = [c \in Clients |-> None]
    /\ outcome' = [c \in Clients |-> "none"]
    /\ \/ UNCHANGED <<project, running>>
       \/ \E c \in Clients : pc[c] = "verified" /\ MayHaveDone(c)
    /\ effect' = [c \in Clients |-> FALSE]
    /\ UNCHANGED record

\* ... for ten seconds; then it closes the connections, main returns and the
\* process exits.
StopForced ==
    /\ daemon = "stopping"
    /\ \E c \in Clients : pc[c] # "none"
    /\ Die

Kill ==
    /\ daemon # "down"
    /\ Die

---------------------------------------------------------------------------

Handle(c) ==
    \/ Decode(c)
    \/ AuditEnd(c)
    \/ GiveUp(c)
    \/ Load(c)
    \/ Operate(c)

Fail(c) ==
    \/ Undecodable(c)
    \/ Refuse(c)
    \/ OperateFails(c)

AuditFault(c) ==
    \/ AuditStartFails(c)
    \/ AuditEndFails(c)

Request ==
    \E c \in Clients :
        \/ \E r \in Asked : Send(c, r)
        \/ Acquire(c)
        \/ Handle(c)
        \/ Fail(c)
        \/ Cancel(c)

Life == StartDaemon \/ Stop \/ Stopped \/ StopForced

Next ==
    \/ Request
    \/ \E c \in Clients : AuditFault(c)
    \/ Life
    \/ Kill

Spec == Init /\ [][Next]_vars

\* A handler goes on, and the callers queue for the gate in order (a Go channel).
FairSpec ==
    /\ Spec
    /\ \A c \in Clients :
        /\ WF_vars(Handle(c) \/ Fail(c) \/ AuditFault(c))
        /\ SF_vars(Acquire(c))

\* The daemon is stopped and started in order, and its log can be written.
StopSpec == Init /\ [][Request \/ Life]_vars

---------------------------------------------------------------------------
(* Properties *)

\* contextGate: the token is in the channel exactly while one operation is inside,
\* through cancelled waits, refusals and failures.
GateExclusive ==
    /\ token <=> \E c \in Clients : pc[c] \in Inside
    /\ \A c, d \in Clients : pc[c] \in Inside /\ pc[d] \in Inside => c = d

\* No change is lost: a mutation of the project changes the one key it names, of the
\* project as it is then and not as it was when the caller asked; and containers are
\* made from the project that was verified for it.
ActsOnWhatIsThere ==
    [][/\ project' # project =>
            \E c \in Clients :
                /\ request[c].kind = "set"
                /\ project' = [project EXCEPT ![request[c].key] = request[c].value]
       /\ running' \notin {running, None, Mixed} =>
            \E c \in Clients : running' = loaded[c]]_vars

\* The broker, audit: whatever changes project or containers belongs to a mutation
\* whose first record is in the log, however it ends.
ChangesAreRecorded ==
    [][<<project, running>>' # <<project, running>> =>
            \E c \in Clients : Mutates(c) /\ record[c] = "started"]_vars

\* A record that says succeeded is that of a mutation which did what it was asked.
SucceededIsTrue ==
    [][\A c \in Clients :
            record'[c] = "succeeded" /\ record[c] # "succeeded" => effect[c]]_vars

\* Nobody waits at the gate for ever: the token comes back on every path.
GetsItsTurn == \A c \in Clients : pc[c] = "waiting" ~> pc[c] # "waiting"

\* docs/threat-model.md:137 "records start and completion audit events for
\* mutations": a mutation that is over has not left the first record alone.
MutationsComplete ==
    [][\A c \in Clients :
            pc[c] # "none" /\ pc'[c] = "none" => record'[c] # "started"]_vars
=============================================================================
