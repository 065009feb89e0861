----------------------------- MODULE CatalogLock -----------------------------
(***************************************************************************)
(* From a configured catalog source to the containers that run: the cache   *)
(* of an external source, the lock, the generated files and `sdbx up`.      *)
(*                                                                         *)
(* One source is enough, and one service, which the embedded catalog        *)
(* defines and the source may override.  A definition is then the embedded  *)
(* one, the one of a commit, or the one of a state of a local directory.    *)
(* The operator's commands run one at a time; further processes refresh the *)
(* same cache beside them.  Writing the lock and the files is one step: it  *)
(* is the transaction of ProjectTransaction.                                *)
(***************************************************************************)
EXTENDS Naturals, Sequences, FiniteSets

CONSTANTS Main,        \* the process of the operator's command
          Others,      \* processes that each run one `sdbx source update`
          Catalogs,    \* the sources that may be configured
          Urls,        \* the repositories they name
          Refs,        \* the commits they are pinned to
          Acceptable,  \* those within the limits, and signed by the key named
          Embedded,    \* the definition compiled into the program
          Tampered,    \* what a checkout somebody edited defines
          Local,       \* the "url" of a source of type local
          None,
          ImageOf,     \* the repository and tag each definition names
          Slots,       \* checkouts that fit in the aggregate cache limit
          MaxTree,     \* states of the local directory
          MaxEdits,    \* changes from outside
          MaxFaults    \* failures, interrupts and kills

Trees == 1..MaxTree
Definitions == {Embedded, Tampered} \cup Refs \cup Trees

ASSUME Names ==
    /\ Main \notin Others
    /\ Acceptable \subseteq Refs
    /\ Local \notin Urls
    /\ {Embedded, Tampered, None} \cap (Refs \cup Trees \cup Urls) = {}
    /\ Embedded # Tampered /\ None \notin {Embedded, Tampered, Local}
    /\ None \notin [url : Urls, ref : Refs, clean : BOOLEAN]
    /\ DOMAIN ImageOf = Definitions
    /\ {Slots, MaxTree, MaxEdits, MaxFaults} \subseteq Nat /\ MaxTree # 0

ASSUME CatalogsAreSources ==
    Catalogs \subseteq [url : Urls, ref : Refs, granted : BOOLEAN]
                       \cup [url : {Local}, ref : {None}, granted : BOOLEAN]

Procs == {Main} \cup Others
Sources == Catalogs \cup {None}
Versions == 0..1
Checkouts == [url : Urls, ref : Refs, clean : BOOLEAN]
Rendered == [from : Definitions, config : Versions, digest : Versions]
Identity == [cli : Versions, config : Versions, source : Sources,
             catalog : Definitions, from : Definitions, digest : Versions]

VARIABLES
    source,    \* sources.yaml
    config,    \* .sdbx.yaml
    cli,       \* the version of the program
    registry,  \* the digest a tag of the source's image has at its registry
    tree,      \* the local directory
    lock,      \* .sdbx.lock, without the digests of the generated files
    recorded,  \* those digests: what the files were rendered from
    files,     \* compose.yaml and .env as they are; None: edited by hand
    running,   \* what the containers were started from; None: not started
    active,    \* the cached checkout; None: there is none
    litter,    \* directories in the cache that nobody removes any more
    marked,    \* cache.json says that the source is fresh
    proc,      \* the processes
    edits,
    faults

project == <<source, config, cli, registry, tree>>
written == <<lock, recorded, files, running>>
cache == <<active, litter, marked>>
vars == <<project, written, cache, proc, edits, faults>>

-----------------------------------------------------------------------------
(* The commands.  "get" and "load" each read the source: Resolve lists the   *)
(* services and gets each definition, lockSources loads them all.  The       *)
(* transaction plans twice: for what it stages and for what it promotes.     *)

Resolve == <<"get">>
GenerateLock == Resolve \o <<"load">>
ValidateProjectLock == GenerateLock \o <<"compare">>
Plan == ValidateProjectLock \o Resolve
GenerateRuntimeFiles == Plan \o <<"render">>
Transaction == GenerateRuntimeFiles \o Plan \o <<"commit">>
Verify == ValidateProjectLock \o Resolve

runSourceUpdate == <<"refresh">>
runUp == Verify \o <<"check", "start">>
runGenerate == Verify \o Transaction
runLockGenerate == GenerateLock \o <<"draft">> \o Transaction
RegenerateRuntimeWithUpdatedLock == GenerateLock \o <<"draft">> \o Transaction
Set == <<"alter">> \o RegenerateRuntimeWithUpdatedLock
Enable == <<"get", "alter">> \o RegenerateRuntimeWithUpdatedLock
runConfigSet == Verify \o Set
runAddonEnable == Verify \o Enable

Script == [
    update   |-> runSourceUpdate,
    up       |-> runUp,
    generate |-> runGenerate,
    lock     |-> runLockGenerate,
    set      |-> runConfigSet,
    enable   |-> runAddonEnable]

Commands == DOMAIN Script
Reads == {"get", "load"}
Steps == Reads \cup {"refresh", "compare", "draft", "alter", "render", "commit",
                     "check", "start"}
Points == {"idle", "done", "run", "read", "fetch", "promote", "install",
           "rollback", "mark"}
Processes ==
    [at : Points, todo : Seq(Steps), src : Sources, cfg : Versions,
     old : Identity \cup {None}, lax : BOOLEAN, got : Definitions,
     content : Definitions, made : Definitions, fresh : BOOLEAN,
     staged : BOOLEAN, kept : Checkouts \cup {None}]

\* A process before its command, and the values of no command.
Resting(at) ==
    [at |-> at, todo |-> <<>>, src |-> None, cfg |-> 0, old |-> None,
     lax |-> FALSE, got |-> Embedded, content |-> Embedded, made |-> Embedded,
     fresh |-> FALSE, staged |-> FALSE, kept |-> None]

\* A project that `sdbx init` has just made, before its first start.
Init ==
    /\ source = None
    /\ config = 0 /\ cli = 0 /\ registry = 0 /\ tree = 1
    /\ lock = [cli |-> 0, config |-> 0, source |-> None, catalog |-> Embedded,
               from |-> Embedded, digest |-> 0]
    /\ recorded = [from |-> Embedded, config |-> 0, digest |-> 0]
    /\ files = recorded
    /\ running = None
    /\ active = None /\ litter = 0 /\ marked = FALSE
    /\ proc = [p \in Procs |-> Resting("idle")]
    /\ edits = 0 /\ faults = 0

TypeOK ==
    /\ source \in Sources
    /\ {config, cli, registry} \subseteq Versions
    /\ tree \in Trees
    /\ lock \in Identity
    /\ recorded \in Rendered
    /\ {files, running} \subseteq Rendered \cup {None}
    /\ active \in Checkouts \cup {None}
    /\ litter \in 0..2 * MaxFaults
    /\ marked \in BOOLEAN
    /\ proc \in [Procs -> Processes]
    /\ \A p \in Procs :
         /\ proc[p].staged <=> proc[p].at \in {"fetch", "promote", "install", "rollback"}
         /\ proc[p].kept # None => proc[p].at \in {"install", "rollback", "mark"}
    /\ edits \in 0..MaxEdits
    /\ faults \in 0..MaxFaults

-----------------------------------------------------------------------------
(* Helpers.                                                                  *)

Quiet == \A p \in Procs : proc[p].at \in {"idle", "done"}
At(p, point) == proc[p].at = point
Doing(p, steps) ==
    At(p, "run") /\ proc[p].todo # <<>> /\ Head(proc[p].todo) \in steps
IsGit(s) == s # None /\ s.url # Local
LoadServiceDefinition(checkout) ==
    IF checkout.clean THEN checkout.ref ELSE Tampered

\* The next step of the command, with these values in the process.
Goes(p, state) == proc' = [proc EXCEPT ![p] = [state EXCEPT !.todo = Tail(@), !.at = "run"]]

\* The command returns, whether it is done or refused: what it staged is
\* removed with it.
Returns(p) ==
    proc' = [proc EXCEPT ![p] = Resting(IF p = Main THEN "idle" ELSE "done")]

\* Something outside the program fails, or the command is interrupted.
Fault == faults < MaxFaults /\ faults' = faults + 1

\* Something outside the program changes, or a command changes a setting.
Edit == edits < MaxEdits /\ edits' = edits + 1

-----------------------------------------------------------------------------
(* A process starts: it reads the sources, the configuration, the metadata   *)
(* of the cache and, but for the refresh, the lock.                          *)

newProjectContext(p, command, allowLocal) ==
    /\ At(p, "idle")
    /\ p = Main \/ command = "update"
    /\ allowLocal \in (IF command = "lock" THEN BOOLEAN
                       ELSE {lock.source # None /\ lock.source.url = Local})
    /\ proc' = [proc EXCEPT ![p] =
                  [@ EXCEPT !.at = "run", !.todo = Script[command],
                            !.src = source, !.cfg = config, !.old = lock,
                            !.lax = allowLocal, !.fresh = marked]]
    /\ IF p # Main \/ command \in {"set", "enable"} THEN Edit ELSE UNCHANGED edits
    /\ UNCHANGED <<project, written, cache, faults>>

Finish(p) ==
    /\ At(p, "run") /\ proc[p].todo = <<>>
    /\ Returns(p)
    /\ UNCHANGED <<project, written, cache, edits, faults>>

-----------------------------------------------------------------------------
(* The source: ensureCloned before every read, and the refresh.              *)

ReadsGit(p) == Doing(p, Reads) /\ IsGit(proc[p].src)
Refreshes(p) == Doing(p, {"refresh"}) /\ IsGit(proc[p].src)

\* There is nothing to fetch: no source, or a directory.
UpdateNothing(p) ==
    /\ Doing(p, {"refresh"}) /\ ~IsGit(proc[p].src)
    /\ Goes(p, proc[p])
    /\ UNCHANGED <<project, written, cache, edits, faults>>

verifyRemote(p) == active.url = proc[p].src.url

\* A signature of the key the source names, over the commit it names.
verifyRevisionSignature(ref) == ref \in Acceptable

verifyCheckout(p) ==
    /\ verifyRemote(p)
    /\ active.clean
    /\ active.ref = proc[p].src.ref
    /\ verifyRevisionSignature(active.ref)

\* The cached checkout is used after it has been verified once more.
\* Mutant: a fresh checkout is taken as it is.
EnsureUnverified(p) ==
    /\ ReadsGit(p) /\ active # None /\ proc[p].fresh
    /\ proc' = [proc EXCEPT ![p].at = "read"]
    /\ UNCHANGED <<project, written, cache, edits, faults>>
ensureCloned(p) ==
    /\ ReadsGit(p) /\ active # None /\ proc[p].fresh
    /\ IF verifyCheckout(p)
       THEN proc' = [proc EXCEPT ![p].at = "read"]
       ELSE Returns(p)
    /\ UNCHANGED <<project, written, cache, edits, faults>>

\* A checkout that is missing, expired or to be refreshed is fetched into a
\* staging directory; one of another remote is refused.
\* Mutant: a refresh is refused while the checkout is fresh.
CreateStagingDirExpired(p) ==
    /\ Refreshes(p) \/ (ReadsGit(p) /\ (active = None \/ ~proc[p].fresh))
    /\ IF active = None \/ (verifyRemote(p) /\ ~proc[p].fresh)
       THEN proc' = [proc EXCEPT ![p].at = "fetch", ![p].staged = TRUE]
       ELSE Returns(p)
    /\ UNCHANGED <<project, written, cache, edits, faults>>
CreateStagingDir(p) ==
    /\ Refreshes(p) \/ (ReadsGit(p) /\ (active = None \/ ~proc[p].fresh))
    /\ IF active = None \/ verifyRemote(p)
       THEN proc' = [proc EXCEPT ![p].at = "fetch", ![p].staged = TRUE]
       ELSE Returns(p)
    /\ UNCHANGED <<project, written, cache, edits, faults>>

\* init, remote, fetch, and the signature and the limits of what came.
fetchCheckoutAndVerify(p) ==
    /\ At(p, "fetch")
    /\ IF verifyRevisionSignature(proc[p].src.ref)
       THEN proc' = [proc EXCEPT ![p].at = "promote"]
       ELSE Returns(p)
    /\ UNCHANGED <<project, written, cache, edits, faults>>

FetchFails(p) ==
    /\ At(p, "fetch") /\ Fault
    /\ Returns(p)
    /\ UNCHANGED <<project, written, cache, edits>>

\* What the cache holds beside the active checkout.
Persistent ==
    litter + Cardinality({p \in Procs : proc[p].staged})
           + Cardinality({p \in Procs : proc[p].kept # None})
ValidatePromotionBudget == Persistent <= Slots

\* The first rename moves the active checkout away.
PromoteRepo(p) ==
    /\ At(p, "promote")
    /\ IF ValidatePromotionBudget
       THEN /\ proc' = [proc EXCEPT ![p].at = "install", ![p].kept = active]
            /\ active' = None
       ELSE Returns(p) /\ UNCHANGED active
    /\ UNCHANGED <<project, written, litter, marked, edits, faults>>

\* The second one moves the staged checkout in, where there is none.
Install(p) ==
    /\ At(p, "install") /\ active = None
    /\ active' = [url |-> proc[p].src.url, ref |-> proc[p].src.ref, clean |-> TRUE]
    /\ proc' = [proc EXCEPT ![p].at = "mark", ![p].staged = FALSE]
    /\ UNCHANGED <<project, written, litter, marked, edits, faults>>

InstallFails(p) ==
    /\ At(p, "install")
    /\ IF active # None THEN UNCHANGED faults ELSE Fault
    /\ proc' = [proc EXCEPT ![p].at = "rollback"]
    /\ UNCHANGED <<project, written, cache, edits>>

\* The previous checkout goes back; if another one is there, it is removed.
RollbackPromotion(p) ==
    /\ At(p, "rollback")
    /\ active' = IF active = None THEN proc[p].kept ELSE active
    /\ Returns(p)
    /\ UNCHANGED <<project, written, litter, marked, edits, faults>>

\* The previous checkout is removed and the metadata is saved.
\* Mutant: the previous checkout is forgotten and stays.
MarkBeforeRemoval(p) ==
    /\ At(p, "mark")
    /\ marked' = TRUE
    /\ LET done == [proc[p] EXCEPT !.fresh = TRUE] IN
       IF Head(done.todo) = "refresh"
       THEN Goes(p, done)
       ELSE proc' = [proc EXCEPT ![p] = [done EXCEPT !.at = "read"]]
    /\ UNCHANGED <<project, written, active, litter, edits, faults>>
MarkUpdated(p) ==
    /\ At(p, "mark")
    /\ marked' = TRUE
    /\ LET done == [proc[p] EXCEPT !.kept = None, !.fresh = TRUE] IN
       IF Head(done.todo) = "refresh"
       THEN Goes(p, done)
       ELSE proc' = [proc EXCEPT ![p] = [done EXCEPT !.at = "read"]]
    /\ UNCHANGED <<project, written, active, litter, edits, faults>>

\* What a read makes of a definition: an override has to be granted, and a
\* lock records a local source only where that is allowed.
Granted(s) == s = None \/ s.granted

\* Mutant: the grant is not asked for.
TakesUngranted(p, what, definition) ==
    IF what = "get"
    THEN Goes(p, [proc[p] EXCEPT !.got = definition])
    ELSE Goes(p, [proc[p] EXCEPT !.content = definition])
Takes(p, what, definition) ==
    LET s == proc[p].src IN
    CASE what = "get" ->
           IF Granted(s)
           THEN Goes(p, [proc[p] EXCEPT !.got = definition])
           ELSE Returns(p)
      [] what = "load" ->
           IF Granted(s) /\ (s # None /\ s.url = Local => proc[p].lax)
           THEN Goes(p, [proc[p] EXCEPT !.content = definition])
           ELSE Returns(p)

\* A checkout that is gone when it is read cannot be listed or loaded; a
\* definition that is not found in it is taken from the next source.
ReadSource(p) ==
    /\ At(p, "read")
    /\ IF active # None
       THEN Takes(p, Head(proc[p].todo), LoadServiceDefinition(active))
       ELSE \/ Returns(p)
            \/ Head(proc[p].todo) = "get" /\ Goes(p, [proc[p] EXCEPT !.got = Embedded])
    /\ UNCHANGED <<project, written, cache, edits, faults>>

\* The embedded catalog and a local directory are read as they are.
ReadLocal(p) ==
    /\ Doing(p, Reads) /\ ~IsGit(proc[p].src)
    /\ Takes(p, Head(proc[p].todo), IF proc[p].src = None THEN Embedded ELSE tree)
    /\ UNCHANGED <<project, written, cache, edits, faults>>

-----------------------------------------------------------------------------
(* The lock.                                                                 *)

\* The program brings the digests of the images its own catalog names; others
\* are asked of their registry.
ResolveOfficialImage(definition) ==
    IF ImageOf[definition] = ImageOf[Embedded] THEN cli ELSE registry

\* A digest the old lock has for the image is kept.
\* Mutant: every digest is resolved anew.
ResolveAnew(p, definition) == ResolveOfficialImage(definition)
ResolveImage(p, definition) ==
    IF ImageOf[definition] = ImageOf[proc[p].old.from] THEN proc[p].old.digest
    ELSE ResolveOfficialImage(definition)

GenerateLockFile(p) ==
    [cli |-> cli, config |-> proc[p].cfg, source |-> proc[p].src,
     catalog |-> proc[p].content, from |-> proc[p].got,
     digest |-> ResolveImage(p, proc[p].got)]

DraftLock(p) ==
    /\ Doing(p, {"draft"})
    /\ Goes(p, [proc[p] EXCEPT !.old = GenerateLockFile(p),
                               !.got = Embedded, !.content = Embedded])
    /\ UNCHANGED <<project, written, cache, edits, faults>>

ResolveFails(p) ==
    /\ Doing(p, {"draft"}) /\ Fault
    /\ Returns(p)
    /\ UNCHANGED <<project, written, cache, edits>>

\* The lock made now is the one that was read or drafted.
DiffLockFiles(p) ==
    /\ Doing(p, {"compare"})
    /\ IF GenerateLockFile(p) = proc[p].old
       THEN Goes(p, [proc[p] EXCEPT !.got = Embedded, !.content = Embedded])
       ELSE Returns(p)
    /\ UNCHANGED <<project, written, cache, edits, faults>>

\* `config set` and `addon enable` change their copy.
AlterConfig(p) ==
    /\ Doing(p, {"alter"})
    /\ Goes(p, [proc[p] EXCEPT !.cfg = 1 - @])
    /\ UNCHANGED <<project, written, cache, edits, faults>>

\* The files are rendered from the definition found last, if the lock has its
\* image.
writeResolvedFiles(p) ==
    /\ Doing(p, {"render"})
    /\ IF ImageOf[proc[p].got] = ImageOf[proc[p].old.from]
       THEN Goes(p, [proc[p] EXCEPT !.made = proc[p].got,
                                    !.got = Embedded, !.content = Embedded])
       ELSE Returns(p)
    /\ UNCHANGED <<project, written, cache, edits, faults>>

\* They are committed with the lock and the configuration of the command.
GenerateProjectTransactional(p) ==
    /\ Doing(p, {"commit"})
    /\ lock' = proc[p].old
    /\ recorded' = [from |-> proc[p].made, config |-> proc[p].cfg,
                    digest |-> proc[p].old.digest]
    /\ files' = recorded'
    /\ config' = proc[p].cfg
    /\ Goes(p, proc[p])
    /\ UNCHANGED <<source, cli, registry, tree, running, cache, edits, faults>>

\* Only files that are those of the lock are started.
\* Mutant: the files are not compared with their digests.
StartUnchecked(p) ==
    /\ Doing(p, {"check"})
    /\ Goes(p, proc[p])
    /\ UNCHANGED <<project, written, cache, edits, faults>>
ValidateGeneratedFiles(p) ==
    /\ Doing(p, {"check"})
    /\ IF files = recorded THEN Goes(p, proc[p]) ELSE Returns(p)
    /\ UNCHANGED <<project, written, cache, edits, faults>>

\* Compose starts the files that are there.
Up(p) ==
    /\ Doing(p, {"start"})
    /\ running' = files
    /\ Goes(p, proc[p])
    /\ UNCHANGED <<project, lock, recorded, files, cache, edits, faults>>

-----------------------------------------------------------------------------
(* From outside.                                                             *)

\* `sdbx source add` and `sdbx source remove`, or a change of the file.
runSourceAdd ==
    /\ Edit
    /\ source' \in Sources \ {source}
    /\ UNCHANGED <<config, cli, registry, tree, written, cache, proc, faults>>

EditConfig ==
    /\ Edit
    /\ config' = 1 - config
    /\ UNCHANGED <<source, cli, registry, tree, written, cache, proc, faults>>

Upgrade ==
    /\ Edit /\ Quiet /\ cli = 0
    /\ cli' = 1
    /\ UNCHANGED <<source, config, registry, tree, written, cache, proc, faults>>

TagMoves ==
    /\ Edit /\ registry = 0
    /\ registry' = 1
    /\ UNCHANGED <<source, config, cli, tree, written, cache, proc, faults>>

EditTree ==
    /\ Edit /\ tree < MaxTree
    /\ tree' = tree + 1
    /\ UNCHANGED <<source, config, cli, registry, written, cache, proc, faults>>

EditCheckout ==
    /\ Edit /\ Quiet /\ active # None /\ active.clean
    /\ active' = [active EXCEPT !.clean = FALSE]
    /\ UNCHANGED <<project, written, litter, marked, proc, faults>>

EditFiles ==
    /\ Edit /\ Quiet /\ files # None
    /\ files' = None
    /\ UNCHANGED <<project, lock, recorded, running, cache, proc, faults>>

Expire ==
    /\ Edit /\ marked
    /\ marked' = FALSE
    /\ UNCHANGED <<project, written, active, litter, proc, faults>>

\* A kill leaves the directories of a refresh where they are.
Crash(p) ==
    /\ Fault
    /\ proc[p].at \notin {"idle", "done"}
    /\ litter' = litter + (IF proc[p].staged THEN 1 ELSE 0)
                        + (IF proc[p].kept # None THEN 1 ELSE 0)
    /\ marked' \in (IF At(p, "mark") THEN {marked, FALSE} ELSE {marked})
    /\ Returns(p)
    /\ UNCHANGED <<project, written, active, edits>>

-----------------------------------------------------------------------------

SourceStep(p) ==
    \/ UpdateNothing(p) \/ ensureCloned(p) \/ CreateStagingDir(p)
    \/ fetchCheckoutAndVerify(p) \/ FetchFails(p)
    \/ PromoteRepo(p) \/ Install(p) \/ InstallFails(p) \/ RollbackPromotion(p)
    \/ MarkUpdated(p) \/ ReadSource(p) \/ ReadLocal(p)

LockStep(p) ==
    \/ DraftLock(p) \/ ResolveFails(p) \/ DiffLockFiles(p) \/ AlterConfig(p)
    \/ writeResolvedFiles(p) \/ GenerateProjectTransactional(p)
    \/ ValidateGeneratedFiles(p) \/ Up(p)

Step(p) == SourceStep(p) \/ LockStep(p) \/ Finish(p)

Outside ==
    \/ runSourceAdd \/ EditConfig \/ Upgrade \/ TagMoves
    \/ EditTree \/ EditCheckout \/ EditFiles \/ Expire

Next ==
    \/ \E p \in Procs, c \in Commands, l \in BOOLEAN : newProjectContext(p, c, l)
    \/ \E p \in Procs : Step(p) \/ Crash(p)
    \/ Outside

\* A process goes on until it returns.  The operator refreshes the source,
\* locks and starts again and again.
Spec ==
    /\ Init /\ [][Next]_vars
    /\ \A p \in Procs : WF_vars(Step(p))
    /\ SF_vars(newProjectContext(Main, "update", FALSE) \/ newProjectContext(Main, "update", TRUE))
    /\ SF_vars(newProjectContext(Main, "lock", TRUE))
    /\ SF_vars(newProjectContext(Main, "up", FALSE) \/ newProjectContext(Main, "up", TRUE))

-----------------------------------------------------------------------------
(* Properties.                                                               *)

\* No commit that is unsigned or over a limit, and nothing somebody wrote
\* into the cache, becomes an active checkout, a lock, a rendered file or a
\* container, with one refresh of the cache beside the command and edits of it
\* between commands (internal/registry/git.go:344-433, 456-489).  Of three
\* refreshes, one can put back an edited checkout, which it had moved away
\* before the command started, between the verification and the read.
OnlyVerified ==
    LET verified == {Embedded} \cup Acceptable \cup Trees IN
    /\ active # None => active.ref \in Acceptable
    /\ {lock.from, lock.catalog, recorded.from} \subseteq verified
    /\ running # None => running.from \in verified

\* What the containers are started from has the image, the digest and the
\* configuration that the lock records, whatever was edited, moved, refreshed
\* or upgraded since the files were rendered.  That it is the definition of the
\* lock as well is more than the code sees to: OverrideIsRendered
\* (cmd/sdbx/cmd/up.go:45-55, internal/generator/generator.go:248-330).
RunsWhatIsLocked ==
    [][running' # running =>
        \E d \in Definitions :
            /\ ImageOf[d] = ImageOf[lock.from]
            /\ running' = [from |-> d, config |-> lock.config, digest |-> lock.digest]]_vars

\* A lock speaks of one state of its source: the definition of its service is
\* the one its source's digest was taken of, at the commit it names, and its
\* trust grant was given (internal/registry/lock.go:119-345).
LockIsOfItsSource ==
    /\ lock.from = lock.catalog
    /\ lock.source = None => lock.from = Embedded
    /\ IsGit(lock.source) => lock.from = lock.source.ref
    /\ lock.source # None => lock.source.granted

\* A digest changes only with the image: no command of these refreshes a pin
\* (internal/registry/lock.go:75-119).
PinsKept ==
    [][lock' # lock /\ ImageOf[lock'.from] = ImageOf[lock.from]
        => lock'.digest = lock.digest]_vars

\* Once nothing fails or changes any more, refreshing, locking and starting
\* ends with what is configured running.  It does not where the source cannot
\* be used: its commit is not acceptable, its override not granted, the cache
\* holds a checkout of another repository under its name, or directories that
\* killed refreshes left take its room.
Usable ==
    /\ source # None => source.granted
    /\ IsGit(source) =>
         /\ source.ref \in Acceptable
         /\ active # None => active.url = source.url
         /\ litter < Slots
Wanted ==
    IF source = None THEN Embedded ELSE IF IsGit(source) THEN source.ref ELSE tree
RunsWhatIsConfigured ==
    <>[](Usable => running # None /\ running.from = Wanted /\ running.config = config)

\* docs/external-sources.md:156 says that one atomic directory rename makes a
\* verified checkout active: a project whose source overrides a service never
\* has files rendered from the embedded definition.
OverrideIsRendered == lock.source # None => recorded.from # Embedded
=============================================================================
