------------------------ MODULE ManagedCredentials ------------------------
(***************************************************************************)
(* The credential phases of `sdbx integrate`.  Each managed service keeps   *)
(* a password of its own (qBittorrent.conf, File Browser's database, an     *)
(* Arr's host configuration) and SDBX keeps the plaintext in a recovery     *)
(* file under secrets/.  Installing or rotating a password touches both,    *)
(* one after the other, around a stop and a start of the container or an    *)
(* API call that may be lost, and any step may fail, be cancelled or be the *)
(* last one before a crash.  An Arr also has an API key that its config.xml *)
(* holds and its process read when it started.                              *)
(*                                                                         *)
(* A password and a key are numbers; 0 stands for none.  A PBKDF2 hash is   *)
(* the password it was made from: that is all a comparison with it tells.   *)
(***************************************************************************)
EXTENDS Naturals, Sequences, FiniteSets

CONSTANTS QBittorrent,   \* rotated by editing its file while it is stopped
          Filebrowser,   \* rotated by its own command while it is stopped
          Arrs,          \* the Arr services, in the order of their specs
          Passwords,     \* more than a service and a run can hold at a time
          Keys,          \* API keys
          MaxFaults,     \* failures, cancellations, crashes, outside changes
          MaxRotations   \* runs with --rotate-managed-credentials

ArrSet == {Arrs[i] : i \in 1..Len(Arrs)}
Services == {QBittorrent, Filebrowser} \cup ArrSet

ASSUME NamesAreDistinct ==
    /\ Arrs \in Seq(ArrSet)
    /\ \A i, j \in 1..Len(Arrs) : Arrs[i] = Arrs[j] => i = j
    /\ QBittorrent # Filebrowser
    /\ QBittorrent \notin ArrSet
    /\ Filebrowser \notin ArrSet

ASSUME Pools ==
    /\ Passwords \subseteq Nat \ {0}
    /\ \A a, b, c \in Passwords \cup {0} : \E p \in Passwords : p \notin {a, b, c}
    /\ Keys \subseteq Nat \ {0}
    /\ MaxFaults \in Nat
    /\ MaxRotations \in Nat

VARIABLES
    secret,     \* the recovery file of each service
    held,       \* the password each service's own store holds; 0: no store yet
    stamp,      \* .sdbx-init-stamp of the two services that have one
    apiKey,     \* <ApiKey> in the config.xml of each Arr
    up,         \* the containers that run
    memory,     \* the password the qBittorrent process holds while it runs
    liveKey,    \* the key the process of each Arr accepts
    mode,       \* "idle", or the kind of run that is going on
    todo,       \* what is left of the run: pairs of a phase and a service
    step,       \* the next step of the first of them
    fresh,      \* the password the step at hand installs
    previous,   \* the password a rotation replaces
    loaded,     \* the API keys read when the services were loaded
    cancelled,  \* the command's context is done
    report,     \* what the last run said of each service
    faults,
    rotations

disk == <<secret, held, stamp, apiKey>>
world == <<up, memory, liveKey>>
run == <<mode, todo, step, fresh, previous, loaded, cancelled>>
bounds == <<faults, rotations>>
vars == <<disk, world, run, report, bounds>>

Modes == {"idle", "ordinary", "rotate"}
Steps == {"begin", "provision", "stop", "edit", "persist", "revert", "start",
          "stamp", "rollbackStore", "rollbackSecret", "restart", "put",
          "verify"}
Phases == {"init", "load", "runtime", "wait", "auth"}
Reports == {"none", "kept", "installed", "deferred", "failed"}

TypeOK ==
    /\ secret \in [Services -> Passwords \cup {0}]
    /\ held \in [Services -> Passwords \cup {0}]
    /\ stamp \in [Services -> {"absent", "current", "pending"}]
    /\ apiKey \in [ArrSet -> Keys \cup {0}]
    /\ up \in [Services -> BOOLEAN]
    /\ memory \in Passwords \cup {0}
    /\ liveKey \in [ArrSet -> Keys]
    /\ mode \in Modes
    /\ todo \in Seq(Phases \X Services)
    /\ step \in Steps
    /\ fresh \in Passwords \cup {0}
    /\ previous \in Passwords \cup {0}
    /\ loaded \in [ArrSet -> Keys \cup {0}]
    /\ cancelled \in BOOLEAN
    /\ report \in [Services -> Reports]
    /\ faults \in 0..MaxFaults
    /\ rotations \in 0..MaxRotations

\* A project that has just been generated and started: each service made a
\* password of its own on its first start, and SDBX knows none of them.
Init ==
    /\ secret = [s \in Services |-> 0]
    /\ held = [s \in Services |-> CHOOSE p \in Passwords : TRUE]
    /\ stamp = [s \in Services |-> "absent"]
    /\ \E k \in Keys : apiKey = [a \in ArrSet |-> k] /\ liveKey = apiKey
    /\ up = [s \in Services |-> TRUE]
    /\ memory = held[QBittorrent]
    /\ mode = "idle"
    /\ todo = <<>>
    /\ step = "begin"
    /\ fresh = 0
    /\ previous = 0
    /\ loaded = [a \in ArrSet |-> 0]
    /\ cancelled = FALSE
    /\ report = [s \in Services |-> "none"]
    /\ faults = 0
    /\ rotations = 0

-----------------------------------------------------------------------------
(* Helpers.                                                                 *)

At(phase, s, name) ==
    /\ mode # "idle"
    /\ todo # <<>>
    /\ Head(todo) = <<phase, s>>
    /\ step = name

\* The run goes on with what follows, and says this of the service.
GoOn(s, said) ==
    /\ todo' = Tail(todo)
    /\ step' = "begin"
    /\ report' = [report EXCEPT ![s] = said]
    /\ mode' = IF Tail(todo) = <<>> THEN "idle" ELSE mode
    /\ UNCHANGED <<fresh, previous, loaded, cancelled>>

Goto(name) ==
    /\ step' = name
    /\ UNCHANGED <<mode, todo, fresh, previous, loaded, cancelled, report>>

\* A docker command or a request under the command's context fails because
\* the context is done, or for a reason of its own.
Fails ==
    \/ cancelled /\ UNCHANGED faults
    \/ faults < MaxFaults /\ faults' = faults + 1

\* A file SDBX writes itself does not depend on the context.
WriteFails == faults < MaxFaults /\ faults' = faults + 1

Works == ~cancelled /\ UNCHANGED faults

\* A random password: none that anybody holds.
Unused(s) ==
    CHOOSE p \in Passwords :
        p \notin {secret[s], held[s]} \cup (IF s = QBittorrent THEN {memory} ELSE {})

\* qBittorrent writes what it holds in memory to its file when it stops
\* gracefully.
Stopped(s) ==
    /\ up' = [up EXCEPT ![s] = FALSE]
    /\ IF s = QBittorrent /\ up[s]
       THEN memory' = 0 /\ held' = [held EXCEPT ![s] = memory]
       ELSE UNCHANGED <<memory, held>>
    /\ UNCHANGED liveKey

\* A process reads its file when it starts; an Arr without a key makes one.
Started(s) ==
    /\ up' = [up EXCEPT ![s] = TRUE]
    /\ memory' = IF s = QBittorrent /\ ~up[s] THEN held[s] ELSE memory
    /\ IF s \in ArrSet /\ ~up[s]
       THEN \E k \in Keys :
              /\ apiKey[s] # 0 => k = apiKey[s]
              /\ liveKey' = [liveKey EXCEPT ![s] = k]
              /\ apiKey' = [apiKey EXCEPT ![s] = k]
       ELSE UNCHANGED <<liveKey, apiKey>>

\* Mutant: the stamp and any recovery file are believed.
CredentialPresent == secret[QBittorrent] # 0

\* qbtManagedCredentialMatches: the recovery file is the password the file
\* of qBittorrent holds the hash of.
qbtManagedCredentialMatches ==
    /\ secret[QBittorrent] # 0
    /\ secret[QBittorrent] = held[QBittorrent]

-----------------------------------------------------------------------------
(* A run.                                                                   *)

\* runIntegrate: qBittorrent, then File Browser, then the services.
runIntegrate(m) ==
    /\ mode = "idle"
    /\ mode' = m
    /\ m = "rotate" => rotations < MaxRotations
    /\ rotations' = IF m = "rotate" THEN rotations + 1 ELSE rotations
    /\ todo' = << <<"init", QBittorrent>>, <<"init", Filebrowser>>,
                  <<"load", QBittorrent>> >>
    /\ step' = "begin"
    /\ report' = [s \in Services |-> "none"]
    /\ loaded' = [a \in ArrSet |-> 0]
    /\ cancelled' = FALSE
    /\ fresh' = 0
    /\ previous' = 0
    /\ UNCHANGED <<disk, world, faults>>

\* A rotation starts from the recovery file and a new random password.
Replace(s) ==
    /\ previous' = secret[s]
    /\ fresh' = Unused(s)
    /\ UNCHANGED <<mode, todo, loaded, cancelled, report>>

\* A stamp that is current and not believed is marked as pending first; a
\* rotation leaves it alone.
Marked(s) ==
    /\ UNCHANGED faults
    /\ stamp' = [stamp EXCEPT ![s] = IF mode = "ordinary" /\ @ = "current"
                                    THEN "pending" ELSE @]
MarkFails(s) ==
    /\ mode = "ordinary" /\ stamp[s] = "current" /\ WriteFails
    /\ GoOn(s, "failed")
    /\ UNCHANGED stamp

\* ensureQBittorrentInitialised, up to the password it will install.
QbtBegin ==
    LET s == QBittorrent
        kept == mode = "ordinary" /\ stamp[s] = "current" /\ qbtManagedCredentialMatches
    IN
    /\ At("init", s, "begin")
    /\ UNCHANGED <<secret, held, apiKey, world, rotations>>
    /\ \/ held[s] = 0 /\ GoOn(s, "deferred") /\ UNCHANGED <<stamp, faults>>
       \/ held[s] # 0 /\ kept /\ GoOn(s, "kept") /\ UNCHANGED <<stamp, faults>>
       \/ held[s] # 0 /\ ~kept /\ MarkFails(s)
       \/ held[s] # 0 /\ ~kept /\ mode = "ordinary" /\ Marked(s) /\ Goto("provision")
       \/ /\ held[s] # 0 /\ mode = "rotate"
          /\ Marked(s)
          /\ IF qbtManagedCredentialMatches
             THEN Replace(s) /\ step' = "stop"
             ELSE GoOn(s, "failed")

\* ensureFilebrowserInitialised: the stamp and the presence of a recovery
\* file are enough to skip, and the database is looked at afterwards.
FbBegin ==
    LET s == Filebrowser IN
    /\ At("init", s, "begin")
    /\ UNCHANGED <<secret, held, apiKey, world, rotations>>
    /\ IF mode = "ordinary" /\ stamp[s] = "current" /\ secret[s] # 0
       THEN GoOn(s, "kept") /\ UNCHANGED <<stamp, faults>>
       ELSE \/ MarkFails(s)
            \/ /\ Marked(s)
               /\ \/ held[s] = 0 /\ GoOn(s, "deferred")
                  \/ held[s] # 0 /\ mode = "ordinary" /\ Goto("provision")
                  \/ held[s] # 0 /\ mode = "rotate" /\ secret[s] # 0
                     /\ Replace(s) /\ step' = "stop"
                  \/ held[s] # 0 /\ mode = "rotate" /\ secret[s] = 0
                     /\ GoOn(s, "failed")

\* readOrCreateSecret: the recovery file as it is, or a new one.
readOrCreateSecret(s, phase, then) ==
    /\ At(phase, s, "provision")
    /\ UNCHANGED <<held, stamp, apiKey, world, rotations>>
    /\ \/ /\ fresh' = IF secret[s] # 0 THEN secret[s] ELSE Unused(s)
          /\ secret' = [secret EXCEPT ![s] = fresh']
          /\ step' = then
          /\ UNCHANGED <<mode, todo, previous, loaded, cancelled, report, faults>>
       \/ secret[s] = 0 /\ WriteFails /\ GoOn(s, "failed") /\ UNCHANGED secret

\* dockerComposeStop: an error leaves the container stopped or not.
dockerComposeStop(s) ==
    /\ At("init", s, "stop")
    /\ UNCHANGED <<secret, stamp, apiKey, rotations>>
    /\ \/ Works /\ Stopped(s) /\ Goto("edit")
       \/ /\ Fails
          /\ GoOn(s, "failed")
          /\ \/ Stopped(s)
             \/ UNCHANGED <<held, world>>

Edited(s, p) == held' = [held EXCEPT ![s] = p] /\ UNCHANGED <<stamp, apiKey, world>>

\* Mutant: an edit that failed is passed over.
QbtEditUnchecked ==
    LET s == QBittorrent IN
    /\ At("init", s, "edit")
    /\ UNCHANGED <<secret, rotations>>
    /\ Goto(IF mode = "rotate" THEN "persist" ELSE "start")
    /\ \/ Edited(s, fresh) /\ UNCHANGED faults
       \/ WriteFails /\ UNCHANGED <<held, stamp, apiKey, world>>

\* updateQBTConfSections on the stopped service.
QbtEdit ==
    LET s == QBittorrent IN
    /\ At("init", s, "edit")
    /\ UNCHANGED <<secret, rotations>>
    /\ \/ /\ Edited(s, fresh)
          /\ Goto(IF mode = "rotate" THEN "persist" ELSE "start")
          /\ UNCHANGED faults
       \/ /\ WriteFails
          /\ Goto("restart")
          /\ UNCHANGED <<held, stamp, apiKey, world>>

\* setFilebrowserAdminPassword, by a one-shot container.
FbEdit ==
    LET s == Filebrowser IN
    /\ At("init", s, "edit")
    /\ UNCHANGED <<secret, rotations>>
    /\ \/ /\ Works
          /\ Edited(s, fresh)
          /\ Goto(IF mode = "rotate" THEN "persist" ELSE "start")
       \/ /\ Fails
          /\ Goto("restart")
          /\ \/ Edited(s, fresh)
             \/ UNCHANGED <<held, stamp, apiKey, world>>

Persist(s) ==
    /\ At("init", s, "persist")
    /\ UNCHANGED <<held, stamp, apiKey, world, rotations>>
    /\ \/ secret' = [secret EXCEPT ![s] = fresh] /\ Goto("start") /\ UNCHANGED faults
       \/ WriteFails /\ Goto("revert") /\ UNCHANGED secret

\* The new recovery file, or the store put back to the previous password.
QbtPersist == Persist(QBittorrent)
FbPersist == Persist(Filebrowser)

Revert(s, name, then) ==
    /\ At("init", s, name)
    /\ UNCHANGED <<secret, rotations>>
    /\ Goto(then)
    /\ \/ (s = QBittorrent \/ ~cancelled) /\ Edited(s, previous) /\ UNCHANGED faults
       \/ /\ IF s = QBittorrent THEN WriteFails ELSE Fails
          /\ UNCHANGED <<held, stamp, apiKey, world>>

QbtRevert == Revert(QBittorrent, "revert", "restart")
FbRevert == Revert(Filebrowser, "revert", "restart")

Start(s) ==
    /\ At("init", s, "start")
    /\ UNCHANGED <<secret, held, stamp, rotations>>
    /\ \/ Works /\ Started(s) /\ Goto("stamp")
       \/ /\ Fails
          /\ IF mode = "rotate" THEN Goto("rollbackStore") ELSE GoOn(s, "failed")
          /\ \/ Started(s)
             \/ UNCHANGED <<apiKey, world>>

\* The container is started again; a rotation that cannot be started is
\* rolled back, the store first and the recovery file after it.
QbtStart == Start(QBittorrent)
FbStart == Start(Filebrowser)
QbtRollback == Revert(QBittorrent, "rollbackStore", "rollbackSecret")
FbRollback == Revert(Filebrowser, "rollbackStore", "rollbackSecret")

RollbackSecret(s) ==
    /\ At("init", s, "rollbackSecret")
    /\ Goto("restart")
    /\ UNCHANGED <<held, stamp, apiKey, world, rotations>>
    /\ \/ secret' = [secret EXCEPT ![s] = previous] /\ UNCHANGED faults
       \/ WriteFails /\ UNCHANGED secret

\* dockerComposeStart whose error nobody looks at.
BestEffortStart(s) ==
    /\ At("init", s, "restart")
    /\ GoOn(s, "failed")
    /\ UNCHANGED <<secret, held, stamp, rotations>>
    /\ \/ Works /\ Started(s)
       \/ Fails /\ UNCHANGED <<apiKey, world>>

\* writeStamp.
writeStamp(s) ==
    /\ At("init", s, "stamp")
    /\ UNCHANGED <<secret, held, apiKey, world, rotations>>
    /\ \/ stamp' = [stamp EXCEPT ![s] = "current"] /\ GoOn(s, "installed")
          /\ UNCHANGED faults
       \/ WriteFails /\ GoOn(s, "failed") /\ UNCHANGED stamp

-----------------------------------------------------------------------------
(* The Arr services.                                                        *)

GiveUp ==
    /\ mode' = "idle"
    /\ todo' = <<>>
    /\ step' = "begin"
    /\ UNCHANGED <<fresh, previous, loaded, cancelled, report>>

\* The services of S in the order of their specs: there is one such list.
InOrder(S) ==
    {names \in [1..Cardinality(S) -> S] :
        \A i, j \in 1..Cardinality(S) : i < j =>
            \E k, l \in 1..Len(Arrs) : k < l /\ names[i] = Arrs[k] /\ names[j] = Arrs[l]}

Pairs(phase, names) == [i \in 1..Len(names) |-> <<phase, names[i]>>]

\* LoadServicesFromGraph and ResolveHostServiceEndpoints: the keys are read
\* now; every service that has a credential must have an address.
LoadServices ==
    LET present == {a \in ArrSet : apiKey[a] # 0}
        needed == present \cup (IF secret[QBittorrent] # 0 THEN {QBittorrent} ELSE {})
    IN
    /\ At("load", QBittorrent, "begin")
    /\ UNCHANGED <<disk, world, rotations>>
    /\ \/ /\ Works
          /\ present # {} /\ \A s \in needed : up[s]
          /\ loaded' = apiKey
          /\ \E names \in InOrder(present) :
               todo' = Pairs("runtime", names)
                       \o << <<"wait", QBittorrent>> >> \o Pairs("auth", names)
          /\ UNCHANGED <<mode, step, fresh, previous, cancelled, report>>
       \/ /\ \/ Fails
             \/ Works /\ (present = {} \/ \E s \in needed : ~up[s])
          /\ GiveUp

Accepted(a) == up[a] /\ loaded[a] = liveKey[a]

\* Mutant: a rejected key is taken for any other failure.
ProbeNeverRestarts(a) ==
    /\ At("runtime", a, "begin")
    /\ UNCHANGED <<disk, world, bounds>>
    /\ GoOn(a, report[a])

\* reconcileArrRuntimeState: a service that rejects the key on disk has not
\* read it yet and is restarted; any other failure is left to the wait.
RuntimeProbe(a) ==
    /\ At("runtime", a, "begin")
    /\ UNCHANGED <<disk, world, rotations>>
    /\ \/ Works /\ (Accepted(a) \/ ~up[a]) /\ GoOn(a, report[a])
       \/ Fails /\ GoOn(a, report[a])
       \/ Works /\ up[a] /\ ~Accepted(a) /\ Goto("stop")

RuntimeStop(a) ==
    /\ At("runtime", a, "stop")
    /\ UNCHANGED <<secret, stamp, apiKey, rotations>>
    /\ \/ Works /\ Stopped(a) /\ Goto("start")
       \/ Fails /\ GoOn(a, "failed") /\ (Stopped(a) \/ UNCHANGED <<held, world>>)

RuntimeStart(a) ==
    /\ At("runtime", a, "start")
    /\ UNCHANGED <<secret, held, stamp, rotations>>
    /\ \/ Works /\ Started(a) /\ Goto("verify")
       \/ Fails /\ GoOn(a, "failed") /\ (Started(a) \/ UNCHANGED <<apiKey, world>>)

\* The poll ends when the service accepts the key, or after a minute.
RuntimePoll(a) ==
    /\ At("runtime", a, "verify")
    /\ UNCHANGED <<disk, world, rotations>>
    /\ \/ Works /\ Accepted(a) /\ GoOn(a, report[a])
       \/ (Fails \/ (Works /\ ~Accepted(a))) /\ GoOn(a, "failed")

\* waitForServices: a failed restart ends the run, and so does a service
\* that does not answer in its time.
WaitForServices ==
    LET wanted == {a \in ArrSet : loaded[a] # 0}
        answers == /\ \A a \in wanted : Accepted(a)
                   /\ secret[QBittorrent] # 0 =>
                        up[QBittorrent] /\ memory = secret[QBittorrent]
        restarted == \A a \in wanted : report[a] # "failed"
    IN
    /\ At("wait", QBittorrent, "begin")
    /\ UNCHANGED <<disk, world, rotations>>
    /\ \/ Works /\ restarted /\ answers /\ GoOn(QBittorrent, report[QBittorrent])
       \/ (Fails \/ (UNCHANGED faults /\ ~(restarted /\ answers))) /\ GiveUp

\* ensureArrNativeAuthentication, up to the reading of the host settings.
AuthBegin(a) ==
    /\ At("auth", a, "begin")
    /\ UNCHANGED <<disk, world, bounds>>
    /\ \/ mode = "ordinary" /\ Goto("provision")
       \/ mode = "rotate" /\ secret[a] = 0 /\ GoOn(a, "failed")
       \/ mode = "rotate" /\ secret[a] # 0 /\ Replace(a) /\ step' = "start"

\* The host settings are read, and without a rotation a login with the
\* recovery password shows that nothing is to be done.
AuthRead(a) ==
    /\ At("auth", a, "start")
    /\ UNCHANGED <<disk, world, rotations>>
    /\ \/ Works /\ Accepted(a) /\ mode = "ordinary" /\ held[a] = fresh
          /\ GoOn(a, "kept")
       \/ Works /\ Accepted(a) /\ (mode = "rotate" \/ held[a] # fresh) /\ Goto("put")
       \/ (Fails \/ (Works /\ ~Accepted(a))) /\ GoOn(a, "failed")

\* PUT config/host: an error leaves the password applied or not.
AuthPut(a) ==
    /\ At("auth", a, "put")
    /\ UNCHANGED <<secret, rotations>>
    /\ \/ Works /\ Accepted(a) /\ Edited(a, fresh) /\ Goto("verify")
       \/ /\ Fails \/ (Works /\ ~Accepted(a))
          /\ GoOn(a, "failed")
          /\ \/ Accepted(a) /\ Edited(a, fresh)
             \/ UNCHANGED <<held, stamp, apiKey, world>>

\* verifyArrFormsCredential: the login a browser makes.
verifyArrFormsCredential(a) ==
    /\ At("auth", a, "verify")
    /\ UNCHANGED <<disk, world, rotations>>
    /\ \/ /\ Works /\ up[a] /\ held[a] = fresh
          /\ IF mode = "rotate" THEN Goto("persist") ELSE GoOn(a, "installed")
       \/ /\ Fails \/ (Works /\ ~(up[a] /\ held[a] = fresh))
          /\ GoOn(a, "failed")

AuthPersist(a) ==
    /\ At("auth", a, "persist")
    /\ UNCHANGED <<held, stamp, apiKey, world, rotations>>
    /\ \/ secret' = [secret EXCEPT ![a] = fresh] /\ GoOn(a, "installed") /\ UNCHANGED faults
       \/ WriteFails /\ Goto("revert") /\ UNCHANGED secret

AuthRevert(a) ==
    /\ At("auth", a, "revert")
    /\ UNCHANGED <<secret, rotations>>
    /\ GoOn(a, "failed")
    /\ \/ Works /\ Accepted(a) /\ Edited(a, previous)
       \/ (Fails \/ (Works /\ ~Accepted(a))) /\ UNCHANGED <<held, stamp, apiKey, world>>

-----------------------------------------------------------------------------
(* What happens around a run.                                               *)

\* The command is interrupted: what runs under its context fails from now on.
Cancel ==
    /\ mode # "idle" /\ ~cancelled
    /\ faults < MaxFaults /\ faults' = faults + 1
    /\ cancelled' = TRUE
    /\ UNCHANGED <<disk, world, mode, todo, step, fresh, previous, loaded, report, rotations>>

\* The command is killed: everything it knew is gone.
Crash ==
    /\ mode # "idle"
    /\ faults < MaxFaults /\ faults' = faults + 1
    /\ mode' = "idle" /\ todo' = <<>> /\ step' = "begin"
    /\ fresh' = 0 /\ previous' = 0 /\ cancelled' = FALSE
    /\ loaded' = [a \in ArrSet |-> 0]
    /\ report' = [s \in Services |-> "none"]
    /\ UNCHANGED <<disk, world, rotations>>

\* Somebody sets a password in the web interface of a running service.
OutsidePassword(s) ==
    /\ mode = "idle" /\ up[s]
    /\ faults < MaxFaults /\ faults' = faults + 1
    /\ held' = [held EXCEPT ![s] = Unused(s)]
    /\ memory' = IF s = QBittorrent THEN held'[s] ELSE memory
    /\ report' = [report EXCEPT ![s] = "none"]
    /\ UNCHANGED <<secret, stamp, apiKey, up, liveKey, run, rotations>>

\* The config.xml of an Arr is replaced, with another key or none, while its
\* process goes on with the one it read.
OutsideKey(a) ==
    /\ mode = "idle"
    /\ faults < MaxFaults /\ faults' = faults + 1
    /\ \E k \in Keys \cup {0} : apiKey' = [apiKey EXCEPT ![a] = k]
    /\ UNCHANGED <<secret, held, stamp, world, run, report, rotations>>

\* EnsureArrAPIKeys, at every generation: a key where there is none.
EnsureArrAPIKeys ==
    /\ mode = "idle"
    /\ \E a \in ArrSet : apiKey[a] = 0
    /\ \E k \in Keys : apiKey' = [a \in ArrSet |-> IF apiKey[a] = 0 THEN k ELSE apiKey[a]]
    /\ UNCHANGED <<secret, held, stamp, world, run, report, bounds>>

\* `sdbx restart` of a qBittorrent whose process and file differ: what it
\* holds in memory is what remains.
RestartQbt ==
    /\ mode = "idle" /\ up[QBittorrent] /\ memory # held[QBittorrent]
    /\ held' = [held EXCEPT ![QBittorrent] = memory]
    /\ report' = [report EXCEPT ![QBittorrent] = "none"]
    /\ UNCHANGED <<secret, stamp, apiKey, world, run, bounds>>

\* `sdbx up` starts what does not run.
Up(s) ==
    /\ mode = "idle" /\ ~up[s]
    /\ Started(s)
    /\ UNCHANGED <<secret, held, stamp, run, report, bounds>>

-----------------------------------------------------------------------------

(* sdbx secrets show.                                                       *)

\* The recovery password of qBittorrent is printed only when its file holds
\* the hash of it; the others are printed as the recovery file has them.
ShownQbt == IF qbtManagedCredentialMatches THEN secret[QBittorrent] ELSE 0
ShownFb == secret[Filebrowser]
ShownArr(a) == secret[a]

Shown(s) ==
    CASE s = QBittorrent -> ShownQbt
      [] s = Filebrowser -> ShownFb
      [] s \in ArrSet -> ShownArr(s)

-----------------------------------------------------------------------------

InitStep ==
    \/ QbtBegin \/ FbBegin \/ QbtEdit \/ FbEdit \/ QbtPersist \/ FbPersist
    \/ QbtRevert \/ FbRevert \/ QbtStart \/ FbStart \/ QbtRollback \/ FbRollback
    \/ \E s \in {QBittorrent, Filebrowser} :
         \/ readOrCreateSecret(s, "init", "stop") \/ dockerComposeStop(s)
         \/ RollbackSecret(s) \/ BestEffortStart(s) \/ writeStamp(s)

ArrStep ==
    \/ LoadServices \/ WaitForServices
    \/ \E a \in ArrSet :
         \/ RuntimeProbe(a) \/ RuntimeStop(a) \/ RuntimeStart(a) \/ RuntimePoll(a)
         \/ AuthBegin(a) \/ readOrCreateSecret(a, "auth", "start") \/ AuthRead(a)
         \/ AuthPut(a) \/ verifyArrFormsCredential(a) \/ AuthPersist(a) \/ AuthRevert(a)

RunStep == InitStep \/ ArrStep

Next ==
    \/ runIntegrate("ordinary") \/ runIntegrate("rotate")
    \/ RunStep
    \/ Cancel \/ Crash \/ EnsureArrAPIKeys \/ RestartQbt
    \/ \E s \in Services : OutsidePassword(s) \/ Up(s)
    \/ \E a \in ArrSet : OutsideKey(a)

\* A command that runs goes on until it returns, and the operator does what
\* its messages ask: generate, start what is stopped, restart what does not
\* answer, then run it again.
Spec ==
    /\ Init /\ [][Next]_vars
    /\ WF_vars(RunStep)
    /\ WF_vars(runIntegrate("ordinary"))
    /\ SF_vars(EnsureArrAPIKeys)
    /\ SF_vars(RestartQbt)
    /\ \A s \in Services : SF_vars(Up(s))

-----------------------------------------------------------------------------
(* Properties.                                                              *)

\* What a run reports done is so: `sdbx secrets show` prints the password
\* the service's store holds, and after an installation the service runs
\* with it, whatever failed and was repeated before
\* (internal/integrate/qbtinit.go:86-251, arrauth.go:112-248).  A skip of
\* File Browser is not covered: it looks at the stamp and at the presence of
\* a recovery file only.
ReportedCredentialHolds ==
    \A s \in Services :
        /\ report[s] = "installed" =>
             /\ Shown(s) # 0 /\ Shown(s) = held[s] /\ up[s]
             /\ s = QBittorrent => memory = held[s]
        /\ report[s] = "kept" /\ s # Filebrowser =>
             Shown(s) # 0 /\ Shown(s) = held[s]

\* A recovery password is given up only for one the service's store already
\* holds, except when a failed start is rolled back: a rotation that dies at
\* any point leaves either the old password on both sides or a store that is
\* ahead of its recovery file, never a recovery file ahead of its store.
RecoveryFollowsService ==
    [][\A s \in Services :
         secret'[s] # secret[s] /\ secret[s] # 0 /\ step # "rollbackSecret"
            => secret'[s] = held[s]]_vars

\* Once nothing more goes wrong, running the command again ends with every
\* recovery file of qBittorrent and of the Arrs opening its service, and
\* every Arr accepting the key on disk, wherever the failures, cancellations
\* and crashes fell.
Agreement ==
    /\ \A s \in Services \ {Filebrowser} : secret[s] # 0 /\ secret[s] = held[s]
    /\ up[QBittorrent] /\ memory = secret[QBittorrent]
    /\ \A a \in ArrSet : apiKey[a] = liveKey[a]
RerunsConverge == <>[]Agreement

\* cmd/secrets.go:276 and the help of the flag (cmd/integrate.go:95) say that
\* native credentials are rotated transactionally: a rotation that reports a
\* failure for an Arr whose recovery file opened it leaves it opening it.
RotationIsTransactional ==
    [][\A a \in ArrSet :
         mode = "rotate" /\ report[a] # "failed" /\ report'[a] = "failed"
             /\ secret[a] # 0
            => secret'[a] = held'[a]]_vars
=============================================================================
