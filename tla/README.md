# SDBX in TLA+

SDBX manages a self-hosted media stack: from `.sdbx.yaml`, a service catalog and
`.sdbx.lock` it generates a complete Docker Compose project, installs it, keeps
its images pinned by digest, backs it up and restores it. What can ruin an
operator's day is not the rendering of a file but the steps around it: a host
that stops between two renames, a rollback that fails in its turn, a tag that
moves while an update looks. This directory models those steps, model-checks
them with TLC and proves the main invariants with TLAPS.

Paths below are those of the repository, with `src/` in front of them as in
`PROJECT.json`, whose `map` names the code lines of every definition.

## 1. The system

### 1.1 Components

| Component | State it keeps | Operations | What makes it correct |
|---|---|---|---|
| Project generation transaction (`internal/generator/transaction.go`) | the project's files, `.sdbx-init-transaction/` with stage, `rollback/` and `manifest.json` (phase, entries, digests) | generate: stage, back up, promote, commit, clean up; recover | a project is replaced whole or not at all, through crashes and errors |
| Restore transaction (`internal/backup/transaction.go`) | the managed files, `.sdbx-restore-transaction.jsonl`, stage and rollback directories beside each root | restore: five steps for a file; recover | as above; an original is never lost before the commit |
| Image update (`cmd/sdbx/cmd/update.go`) | the lock, the containers | resolve, preview, apply, roll back | one digest for a reference; true answers; the baseline survives a failure |
| Compose driver (`internal/docker/compose.go`) | the containers (external) | Up, Down, Pull, Restart, PS, WaitHealthy, Logs | every call ends and reports a failure |
| Lock and resolvers (`internal/registry/lock.go`, `*image_resolver.go`) | `.sdbx.lock`, a memo of references | resolve, verify, diff | a lock is complete and belongs to the project |
| Secure filesystem (`internal/securefs`) | open roots, temporary files | WriteFileAtomic, EnsureDir, Remove | a reader sees the old file or the new one |
| Backup manager (`internal/backup/backup.go`, `internal/recovery`) | archives | create, list, restore, delete | an archive leaves nothing out without a word; a restore is whole or undone |
| Generator (`internal/generator/*.go`) | none | render files, effective policy, ownership | every rendered service is within the policy of the catalog |
| Registry, resolution (`internal/registry/resolver.go`, `validator.go`) | none | load, validate, resolve the graph and its order | a service starts after what it needs |
| Registry, sources and cache (`internal/registry/git.go`, `cache.go`, `local.go`) | `sources.yaml`, checkouts, `cache.json` | add, remove, fetch, verify, promote | only a verified commit is ever read; a failed refresh can be repeated |
| Verified project (`internal/project`) | none | load and compare lock, registry, configuration and files | what runs is what the lock says |
| Project operator (`internal/management/operator.go`) | the gate, one project | settings, add-ons, stack, locks, integration on behalf of the broker | operations do not overlap and are confirmed exactly |
| Broker and daemon (`internal/broker`, `cmd/sdbxd`) | the audit log, tokens, two listeners | authenticate, authorise, audit, operate | nothing changes without a started record; each role does only what it may |
| Web console (`internal/webui`) | sessions | proxy of the broker | |
| HTTP lifecycle (`internal/httplifecycle`) | a group of endpoints | serve, stop, join | one fails, all stop; nothing is left running |
| Settings and add-ons (`internal/settings`, `internal/addons`) | the configuration in memory | read, validate, set, regenerate | memory and disk agree after a failure |
| Integration (`internal/integrate`) | third-party services over HTTP, stamps, recovery files under `secrets/` | install and rotate credentials, wire services to each other | what is reported works; a credential is never in no file; running it again repairs |
| Restart with VPN dependents (`cmd/sdbx/cmd/restart.go`) | network namespaces (external) | restart one, restart all | qBittorrent shares the namespace of the Gluetun that runs |
| Secrets and PKI (`internal/secrets`) | secret files, console certificates | generate, rotate with backup | |
| Configuration, doctor, routing, VPN, Cloudflare, redaction, TUI | none of their own | validate, inspect, format | |
| Tooling, catalog, packaging | | | |

### 1.2 How they interact

Every command of the CLI except `init` starts with a recovery of the project
transaction (`cmd/sdbx/cmd/root.go:176-197`, again in `project.go:26-59`), then
loads the configuration, the registry and the lock. Commands that change the
project (`generate`, `config set`, `addon`, `lock`, `update`, and the daemon's
equivalents) end in `GenerateProjectTransactional`, which recovers once more.
`update` runs it twice when it rolls back, with Compose calls after each. The
restore of a backup has a journal of its own, recovered at the start of a restore
and of the daemon. A project is verified before it is used: its definitions are read
again from the sources, which may fetch them, and compared with the lock. `integrate` comes after
`up`: it reads API keys from the files containers wrote, stops and starts some of them around
an edit, and talks to the rest. The daemon's broker authenticates a request, writes an audit
record, passes the operator's gate and runs the same code as a command would.
The commands and the daemon share the project directory, the two journals and
the containers; no lock excludes one process from another.

### 1.3 What is hard

* A crash between two file operations, a second crash during the recovery from
  the first, an I/O error in a rollback. Two journals with different designs.
* An fsync or a rename that reports an error after it took effect.
* An external party that moves between two looks at it: registry tags,
  containers that fail, health that comes and goes.
* Cancellation: a context that is passed to the clean-up it triggers.
* Two processes over one project, or over one cache of checkouts, with no lock between them.
* A secret that lives in two places, a file and a service, and is changed in one after the other.
* A request whose answer is lost after it took effect.

`PROJECT.json` lists the hazards, each at its line, with the properties that
cover it or the part of the plan that will.

## 2. The modules

    AtomicInstall            what an installer of file sets promises
      ProjectTransaction     INSTANCEs it: refinement of the generator's transaction
        ProjectTransactionProofs   EXTENDS it and TLAPS
        MCProjectTransaction       instances for TLC
      InterruptibleInstall   EXTENDS it: an installer that may get stuck
        RestoreTransaction   INSTANCEs that: refinement of the restore
          RestoreTransactionProofs, MCRestoreTransaction
    ImageUpdate              the update over locks that change as one
      ImageUpdateProofs, MCImageUpdate
    Management               the daemon: requests, audit log, gate, operations
      ManagementProofs, MCManagement
    ServiceGraph             from a catalog and a configuration to an installation order
      ServiceGraphProofs, MCServiceGraph
    CatalogLock              from a source to the containers: cache, lock, files, up
      CatalogLockProofs, MCCatalogLock
    ManagedCredentials       the credential phases of integrate
      ManagedCredentialsProofs, MCManagedCredentials
    Integration              the links that integrate sets up between services
      MCIntegration
    BackupArchive            creating, restoring and deleting archives while applications write
      BackupArchiveProofs, MCBackupArchive

**AtomicInstall** is the abstract specification: a request for a project, one
step in which the project becomes the requested one, and abandonment, in which it
stays what it was. It allows a commit that is answered with an error, because
both implementations do: the write of the commit mark may take effect and fail.
**InterruptibleInstall** adds a step in which the installer gets stuck, with any project
whatever left behind, after which it touches nothing and never says "ok".

**ProjectTransaction** has the destinations (`disk`), the journal directory with
its manifest phase, recorded values, staged values and backups, and the process:
`pc`, the entry at hand, the errors collected by a rollback. One action is one
durable effect: a manifest write, the promotion of one entry, the rollback of one
entry, the removal of one backup, of the manifest, of the directory. `Crash` may
happen between any two, and inside an atomic write it leaves a temporary file
(`litter`). Each `...Fails` action is the error path of the step beside it.
Staging is one action, since it touches nothing that recovery or a reader
sees. A file's content and a directory's mode are both an element of `Content`.

**RestoreTransaction** has the managed files, the directories, the stage and
rollback areas, and the journal as what its records amount to: which operations
have begun, what their begin record says, which are backed up and promoted, and
whether the last record is cut (`torn`). An operation is begin record, mkdir, rename
of the original, record, rename of the new file, record. A failure reloads the journal and
undoes it in reverse, as recovery does. `Kill` stops the process between two
steps; `HostStop` also cuts the record being written. `prior` is a history variable:
the project before the restore. `Stuck` names the two journals every recovery from then on refuses: one whose last
record is cut (`internal/backup/transaction.go:1088`), and one with an operation whose original is set aside according to the
journal and is not there, because an earlier recovery has put it back (line 1351).

**ImageUpdate** takes the lock and the generated runtime as one value,
`ProjectTransaction` being the reason why they are: a failed write leaves the old
value or the new one. An update resolves service after service while
tags move, compares, writes, pulls, ups, waits, and on a failure restores the lock and
goes through the same stages again (`restoring`). Compose is external: `up` and `down`
may stop half-way in any mixture. `Cancel` is the signal
that cancels the command's context, `Crash` kills the process. `sdbx up` and
`sdbx down` run between updates, half-way or whole.

**Management** has one handler for each client (`pc`), the gate's `token`, the project and
the containers as whole values, and for each request the last audit record of it. A handler is
admitted, syncs its first record, decodes, waits for the gate, verifies (`Load`), operates,
answers and writes its second record; each of these has its failure. `Acquire` and
`GiveUp` are both possible for a caller that was cancelled, as in Go's `select`.
`OperateFails` and `Die` may leave what `MayHaveDone` says: the project before or after
(the transactions are why), containers of any mixture. A restore preserves the project and changes what applications
keep, which is not in this module. A request is what `Asked` allows.
`Stop` and `StopForced` are the two halves of `httplifecycle.Serve`. `effect` is a history variable.

**ServiceGraph** is the resolver. The recursion of `resolveService` is a `stack` of calls, each
with the dependencies it still has to go through (`todo`), innermost first; a step is one call, one return or
one turn of Kahn's sort. `Resolve` has the four ways a call ends, of which the last is a
source that does not know the service or fails to read it, at any call: sources are read anew for each.
Errors are collected and do not stop the walk, as in the code; `Ready` is a graph that
callers may generate from. `Catalogs` and `Configs` are what the initial states choose from. Names are
numbers, in the order `sort.Strings` gives them, and the queue is a set whose front is its first. A definition
is its activation selector and its dependencies, which is what passes the validator; sources
with priorities are already merged into one definition a name, as `GetService` picks the first.

**CatalogLock** has what a project is made from (`source`, `config`, `cli`, `registry`, `tree`), what is
written (`lock`, the digests `recorded` in it, the `files`, the containers), the cache of the source
(`active` checkout, `litter`, the mark in `cache.json`) and the processes. A command is a script of the steps the code
takes, named for the functions that take them (`GenerateLock`, `ValidateProjectLock`, `Plan`,
`Transaction`), and each is one action: a read of a definition (which may have to fetch the
checkout first: stage, verify, rename away, rename in, mark), a comparison, a rendering, a commit. A process keeps what it read when
it started (`src`, `cfg`, `old`, `fresh`), as the command does. `Others` are processes that run
`sdbx source update` beside the command. There is one source and one service that it may override, so that a
definition is the embedded one, a commit's, or a state of a local directory. The lock and the files change
in one step, for which ProjectTransaction is the reason. Resolution lists the services and gets each
as one read; that a checkout vanishes in between is kept as a refusal.

**ManagedCredentials** has for each service the password of its own store (`held`), the one in SDBX's
recovery file (`secret`), the stamp of the two that have one, whether it runs, what qBittorrent
has in memory, and for the Arrs the API key on disk and the one the process accepts. A run is a list `todo` of
phase and service, and `step` is the place inside the first. qBittorrent and File Browser are stopped,
edited, started and stamped; an Arr is asked over its API. `Works` and `Fails` are the two
outcomes of whatever uses the command's context: once `cancelled` only the second is left, while files SDBX writes itself
do not depend on it. A docker command or a request that fails may have taken effect. The Arrs share one
walk: probe the key, restart those that have not read theirs, wait, then authentication.

**Integration** is the rest of the run: 19 kinds of links between services or managed files, which
read what is stored, decide, write, read back and test. They differ in which of these they do and
in what order, and that is a record of `Flow` for each; the actions are shared. Tautulli (stopped for an edit), the administrators of
Qui and Wizarr (with the connection to Plex that Wizarr's one transaction sets beside its password) and the categories of qBittorrent have actions of their own. A `peerKey` may change and an entry may be edited at
any moment (`touched`). The retries of one request are inside the step that sends it.

**BackupArchive** has the files applications keep (`node`: a content, a link or absent), intent, lock and generated files as
generations (`control`), the named archives, a restore's `journal` and the one command that is going on (`cmd`, with
its place `at`). A creation is a walk that learns what is no regular file, a read of each project
file, a second walk, the comparison of what was to be omitted with what was met, the name (a hard link) and the removal of the temporary one.
A restore is the verification of its target, the recovery of what an earlier one left, the
decoding of the archive, staging and comparison with the target, one step for each file, a last verification, the commit and the
removal of the journal. One operation of the journal is one step, and so is a recovery; RestoreTransaction has
their parts, and what it finds (a recovery that is stopped after it put an original back is stuck) is the flag
`stuck` here. `Refused` are contents of files that are archived and that a restore does not take: a mode without read permission
for its owner, or a name with a control character. `had` and `kept` are history variables. Deleting needs
no other command's consent and may happen at any moment; so may what applications do, and a regeneration by another
process, which is one step.

In each module a comment "Mutated form" or "Mutant" marks a definition that breaks the one after it the
way a slip in the code would; it is used by no specification, only to see that
the properties notice.

## 3. The runs

| Run | What it asks | Result |
|---|---|---|
| `project_transaction` | safety, refinement and resolution of the generator's transaction | holds, 744 thousand states |
| `restore_transaction` | the same questions of the restore, and what gets it stuck | holds, 254 thousand states |
| `restore_killed` | is a restore that recovery refuses undone, two files, kills only | violated |
| `image_update` | consistency, truth of answers, survival of the baseline, termination | holds, 53 thousand states |
| `update_cancelled` | is the candidate gone after a failure nobody but the user caused | violated |
| `management` | exclusion, lost updates, audit before effect, true records, nobody waits for ever | holds, 119 thousand states |
| `service_graph` | closure, least graph, order, canonical order, cycles | holds, 868 thousand states |
| `managed_credentials` | true reports, no recovery file ahead of its service, convergence | holds, 110 thousand states |
| `rotation_lost` | does a rotation that fails leave the recovery file of an Arr opening it | violated |
| `integration` | what is verified works, convergence | holds, 168 thousand states |
| `catalog` | only what is verified is used, runs what is locked, pins, convergence | holds, 301 thousand states |
| `backup_archive` | archives that account for everything, whole restores, one generation, recovery of interrupted ones | holds, 635 thousand states |

The properties that hold:

* `BackupsUntilRestored`, `CommittedIsWhole`: the two facts about the journal that
  a recovery trusts, whatever crash or error wrote it.
* `RefusalIsHarmless`: when recovery gives up without an I/O error the files are
  the old ones; only directories may be left over.
* `OriginalsSurvive`, `RefusedWhereUndone`: an original is always at its place
  or set aside, and a recovery only gets stuck at an operation that is undone already. That says nothing of the files before
  that one: they may still be those of the archive (`restore_killed`).
* `ImplementsAtomicInstall` of the generator's transaction: with the project read as "what an undisturbed
  recovery would make of the disk", every behaviour is one of AtomicInstall.
* `ImplementsInterruptibleInstall` of the restore: the same as long as recovery is not `Stuck`. Where it is, the files count as they
  are on disk, a mixture if that is what they are, and the property says only that they stay so, that no restore begins
  and that none is reported done.
* `StuckOnlyInUndo`: what gets a restore stuck is a cut record, or an undo or a clean-up that does not run to its end; a
  restore that is killed before, while it stages, promotes or validates, can still be undone.
* `LeftoverIsResolved`: once faults stop, a leftover journal is removed or
  commands say that they cannot.
* `LockConsistent`, `UnselectedKept`: the lock has one digest for a reference and
  unselected services keep theirs, while tags move between the questions.
* `AnswerIsTrue`, `FailureKeepsBaseline`, `UpdateEnds`.
* `GateExclusive`, `GetsItsTurn`: the token comes back on every path and only when
  it was taken.
* `ActsOnWhatIsThere`: no change is lost, because a project is read inside the gate.
  The commands of the CLI do not pass the gate, and this says nothing of them.
* `ChangesAreRecorded`, `SucceededIsTrue`: a record precedes every effect, and a success is one.
* `Closed`, `Needed`: a graph without errors is the least set of active services that has the
  candidates and all they depend on, although the walk comes back to services it has not finished.
* `OrderSound`, `OrderCanonical`: every service comes after what it needs, and the order is the first of
  those that are sound, whatever order Go iterates its maps in; it goes into the lock.
* `CycleFound`: a cycle is an error, and nothing else is taken for one.
* `OnlyVerified`: no commit without an acceptable signature, and nothing somebody wrote into the cache, reaches
  a lock, a file or a container, although another process may refresh the cache between the verification and the read. One
  such process: of three, one can put back an edited checkout (section 3).
* `LockIsOfItsSource`: the definition in a lock and the digest of its source are of one state, although the
  source is read twice and may be refreshed in between.
* `RunsWhatIsLocked`, `PinsKept`: what `up` starts has the image, the digest and the configuration of the lock, and a digest only
  changes with its image. That the definition is the lock's as well holds where each names an image of its own; where two
  share one it is `OverrideIsRendered`, below.
* `RunsWhatIsConfigured`: refreshing, locking and starting in the end run what is configured. `Usable` names the four
  situations where they cannot: an unacceptable commit, an override without its grant, a cache that holds another repository under the
  source's name (after the source was removed and added with another URL; docs/external-sources.md:138 says what to do), and a cache
  that directories of killed refreshes fill.
* `ReportedCredentialHolds`: "installed" and "kept" mean that the password in the recovery file opens the service
  that runs. File Browser's "kept" is excepted: its skip looks at the stamp and at the presence of the file only.
* `RecoveryFollowsService`: outside the rollback of a start a recovery file that had a password takes only one
  the service already holds.
* `RerunsConverge`: whatever failed, running it again ends with recovery files that open qBittorrent and the Arrs.
* `VerifiedLinksWork`: at the moment a link is reported as verified it works; how much that says depends on what the
  code tests (what is stored, what was sent, or nothing), and the property follows that. What somebody edits between the read and the
  write-back of an entry is overwritten, as requests carry no revision: the model does that too (`EditEntry`), and no property
  speaks of it. Nor of settings that SDBX's own form names and the operator changed, such as the tags of a proxy
  (`internal/integrate/integrate.go:781-793`): they are set back. A category that appears between the look and the request that creates it is
  reported as created with the path it has.
* `RerunsSettle`: running it again settles every link but Qui's, whose password is lost with the answer to a setup. Wizarr's is an
  administrator and a Plex server that an operator has made; where the server was deleted nothing settles it.
* `ArchiveAccountsForAll`: a file that an archive holds was there with that content, what it calls omitted was a link
  then, and the rest was absent at some moment of the creation, whatever changed between the two walks. A file overwritten in
  place with as many bytes may be read torn; the code looks at the size only.
* `NothingHalfRestored`: without a journal, or after its commit, every file is what an application or a whole restore
  last made of it. While a restore that was interrupted waits for its recovery this is not so, and nothing keeps other commands
  from running then; an archive made in that state holds it.
* `OneGenerationRestored`: an archive whose intent and lock are of two generations is never promoted.
* `InterruptedRestoreIsUndone`: the next restore gets past the verification of its target, which comes first, to the recovery.
  Excepted are a recovery that is stuck and one that meets a link where the restore had put a file.

The type invariants of all these modules but Integration are theorems, that of CatalogLock is part of its run as well. Integration's
holds of the same configuration and is in no run, as it says little about the code.

The three violations are disagreements between the code and what its documentation says
(`findings` in `PROJECT.json` quotes it), each with a short trace:

* `restore_killed`: a restore of two files is killed when it has promoted the first and set the original of the second
  aside. The next recovery moves that original back and is killed before it has undone the first. From then
  on every recovery stops at the second operation, whose original is not where the journal has it: the first file is that of
  the archive, the second the old one, and each restore and each start of the daemon is refused.
* `update_cancelled`: an interrupt during `compose up` starts the rollback with
  the cancelled context: the lock is restored, `down` is not run, and
  containers of the candidate go on running under a lock that does not name them.
* `rotation_lost`: an Arr takes the new password and the answer is lost, or the login that verifies it fails. Only the
  failure to write the recovery file is rolled back; here the command returns with a password in the Arr and in no file.

Some definitions state more than a run of this project asks. `RecoverySucceeds` of ProjectTransaction fails under `CrashSpec` in two ways. A
command that has rolled back, or recovery itself, removes the journal with `RemoveAll`; killed after a backup is gone and before the
manifest is, it leaves a manifest in phase prepared or promoting that every later command refuses. And with the directories of
`MCProjectTransaction` (`TreeDirs`) a temporary file in a directory the transaction created makes its
rollback refuse. The files are the old ones in both (`RefusalIsHarmless`); the way out is to delete the journal by hand. `RefusalLeavesPrior`
of RestoreTransaction fails under `HostStopSpec` as well, where a record is cut. `MutationsComplete` of Management fails
under `StopSpec`: an operation that takes longer than the ten seconds of a stop keeps a "started" record.
`DisabledIsAnError` of ServiceGraph fails, as activation answers true for every add-on; `NeverRelocated` of Integration
fails, as an Arr may add a torrent between the count and the edit. `OverrideIsRendered` of CatalogLock fails with `MCOneCatalog`, `MCSameImage`,
`Slots = 3`, `MaxTree = 1`, `MaxEdits = 3` and no fault: the promotion of a refreshed checkout is two renames (docs/external-sources.md:156 says
one), and `sdbx lock` that looks for an overriding definition in between takes the embedded one where the two name the same
image. To see one, put its name in
a copy of the module's configuration in place of the properties there.

### Bounds

`N`, `Dirs`, `Parent`, `DirOf`, `Content` and `Absent` are the only parameters of
the transactions; nothing else is capped, the number of commands, crashes and
errors is not. Four entries, a directory in a directory with a file in it and a
file in the root, are the least that has every kind of neighbour: an entry
whose parent is created, a directory that holds another, a file outside. Two contents
suffice: old and new, and a property only compares. For the restore three
files, two of which share a directory that may be missing, with one operation
in between. For the update three services, two that share an image; two digests, so
that a tag may move and move back. The violation runs use the smallest instance
that shows the trace. For the daemon two clients, a setting and an add-on
with two values each, one of them asked for: two changes that do not touch each other are what a
stale read loses. For the resolver three services that are defined and one that is not:
cycles of two and of three, a service that hangs on a cycle, one that is needed along two
ways, and a dependency nobody defines. Two conditional dependencies and three configurations make
each of them hold and not hold; there are 3456 catalogs. The theorems hold for every value of these constants.

The four modules about the world outside count what it does. `CatalogLock`: `MaxEdits = 2` changes from outside
(the start of another process's refresh is one), `MaxFaults = 1`, two states of a local directory, room for two
directories beside the active checkout (`Slots`); six sources, of which each pair
differs in what a check looks at: the URL, the commit, the grant, the type. Two changes are enough to
replace a source and refresh it from a second process while a command reads it. In `catalog` each definition names an
image of its own. One process refreshes the cache beside a command: verification and read are two steps under no lock, and
`OnlyVerified` and `LockIsOfItsSource` are claimed for no more than that one, and the theorems about the two assume it
(`OneRefresh`). The limit is real: with three such processes and no fault TLC finds a trace of 44 states in which
a first refresh has moved an edited checkout away and cannot make its own clone active, because the command's already is;
a second moves that clone away between the command's verification and its read, so that the first puts the edited checkout back
and the command reads it; a third replaces it before the command loads the sources again to compare. The other theorems about this module (types,
`RunsWhatIsLocked`, `PinsKept`) are for any number of processes.
`ManagedCredentials`: two Arrs, two faults (an error, an interrupt, a kill or a change from outside), one rotation,
four passwords, more than a service, its file and a run hold at a time. `Integration`: each link by itself and
the three pairs that share something (a file whose failure ends the run before a connection; a category and the client that uses it; an
administrator and the instances behind the login), two faults, one change from outside, one rotation
that nobody asked for. `BackupArchive`: two files, so that one can be restored and the other not, in every initial state (two contents, one of them refused
by a restore; a link; absent), one name for archives, two generations, two changes by applications or the regeneration (a link that is replaced after the first walk
and before the second; a regeneration and its reversal) and one failure, interrupt or kill. What two kills in a row do to a journal
is the business of `restore_transaction`, which counts none.

Deadlock is checked in every run but that of the resolver, which stops when it has an answer.

### Fairness

`WF_vars(Step)`: a running process takes its next step, which is what the
scheduler gives a process that waits for nothing but its file system. `WF_vars(Start)`
stands for an operator who runs a command again some day; without it nobody ever
looks at a leftover journal. Faults and crashes are never fair, and
`LeftoverIsResolved` speaks of behaviours in which they stop. For the update
`WF_vars(Progress \/ Failure)` says that Compose commands end and waits have deadlines
(`waitForUpdateHealth` gives each service one); nothing is assumed about which way they end.

In the daemon a handler takes its next step (weak), and `Acquire` is strongly
fair, because a Go channel serves its waiting senders in order. Callers are not assumed to
give up: `GetsItsTurn` holds without the timeouts that every handler has.

In the four modules about the world outside, a process goes on until it returns (weak fairness of its
steps), and the operator does again and again what a message asks: run the command again, refresh, lock, start, restart
what does not answer, set Wizarr up. These are strong where it can only be done between runs. In `ManagedCredentials`
the restart of qBittorrent (`RestartQbt`) has to be one of them: a start that reports a failure and succeeded is rolled back in the file of a
qBittorrent that runs, and only a restart makes process and file agree; and `sdbx up`, because a run killed
between the secret and the start leaves a qBittorrent that does not run, which the next run takes for done.

## 4. The proofs

All are for every value of the constants, under `ProjectAssumption`,
`RestoreAssumption`, `UpdateAssumption`, `ManagementAssumption`, `GraphAssumption`, `Kinds`, `Names`, `CatalogsAreSources`, `NamesAreDistinct` and
`Pools`, which only say what the constants are (a
forest of entries numbered parents first, as `prepareTransactionEntries` sorts
them; `Absent` is no content; there are services and digests; names are finitely many).

* `ProjectTransactionProofs`: `TypeCorrect`, `BackupsSafe`, `CommittedWhole`,
  `RefusalHarmless`, `Refinement`. No property is inductive by itself: that a missing
  backup means a restored disk needs to know that the journal is only
  removed after a rollback without errors, and that needs to know what a rollback
  at entry `pos` has restored already. `IInv` collects this: `Recorded` and
  `BackupsTaken` before promotion, `Promoted` below `pos` during it, `Restored` above
  `pos` in a rollback, with two strengths (no errors at all; no I/O errors, where
  only files count), and `RemovedWhenRestored`. `StepPromise` shows that each step is
  a request, a commit, an abandonment or a stutter of AtomicInstall.
* `RestoreTransactionProofs`: `TypeCorrect`, `OriginalsKept`, `RefusalHarmless`,
  `StuckOnly`, `Refinement`. The heart is `Undoable(i)`: where the original of operation i
  is and what the journal knows of it, written so that it stays true when the
  process is killed anywhere; `Undoing` says how far a rollback is, and
  `UndoableDirs` which directories are still to be removed, where two operations
  share one. `Forward` says how far the restore is. `StuckInv` adds that a restore under way has
  no operation a recovery would refuse, and that one it does refuse, and all it undoes before it, are undone already; so a stuck
  recovery changes no file. `StuckStaysStuck` and `StuckIsQuiet` are the abstract `Refuse`.
* `ImageUpdateProofs`: `TypeCorrect`, `OneDigest`, `OthersKept`, `TrueAnswers`,
  `BaselineKept`, `PreviewIsHarmless`. `Resolved` says that what is resolved so far is a
  consistent lock that keeps the pins of what is not refreshed, and needs from
  `Baseline` that the lock it started from was consistent and that the selection
  splits no image. `Converging` says which lock each later stage is about. The action
  properties follow from it step by step.
* `ManagementProofs`: `TypeCorrect`, `OneInside`, `NoLostChange`, `NothingUnrecorded`,
  `RecordsAreTrue`. `Verified` (what an operation has read is still the project) needs the
  gate, since another operation inside would change it; `Recorded` and `Answered` tie
  the log and the answer to the place of the handler. `OperationEffect` is
  the one lemma about what an operation does, `OnlyOperations` says that nothing else does anything.

* `ServiceGraphProofs`: `TypeCorrect`, `GraphClosed`, `GraphNeeded`, `OrderIsSound`,
  `OrderIsCanonical`, `CycleIsFound`. `DependenciesSeen` says that what a service of the graph needs is in
  the graph or awaited by some call, not necessarily its own, unless there is an error. `OrderInv` is the sort's loop
  invariant: each service of the order was the least that could come next, and no set whose
  members all have an edge into it (a cycle) has lost a member to the order. With `SortInv`, which counts
  the edges that are left, it gives both directions of `CycleFound`. `FirstIsLeast` takes the least element
  of a finite set from the well-foundedness of strict inclusion.

* `BackupArchiveProofs`: `TypeCorrect`, `AccountsForAll`, `RestoresWhole`,
  `OneGenerationOnly`, from `Inductive`. `Seen` says what each of the two walks knows of a file:
  what it expects to omit was a link once, what it has archived was there once, and what it is past
  and has neither archived nor met as an omission was absent when the names were read. That they were met is
  needed at the end, where the count of expected and met omissions closes the gap between the walks.
  `Undoable` ties each file to the original its journal holds, or says that an application has
  written it since; it is what a recovery, stopped anywhere, leaves for the next one. `OneGeneration`
  carries the verified target through the restore; that the regeneration beside it is one step is assumed
  there, and is what ProjectTransaction's theorems say of it.

* `CatalogLockProofs`: `TypeCorrect`, `StartsWhatIsLocked`, `DigestsArePinned`, `OnlyVerifiedIsUsed`, `LockHasOneSource`. A command is a list of steps, and the first part shows
  `Ordered` of each: a commit comes last, what is drafted or altered is compared and rendered afterwards, a start comes right after its check.
  `Working` says from that what a command has found out between two steps: that the lock it made pins what the lock on
  disk does, that what it rendered has the image of the lock, that its configuration is the lock's, that the files were
  those of the lock. `OnlyMain` is why that stays so: whoever refreshes the cache beside it writes neither lock nor files.
  `OnlyVerifiedIsUsed` and `LockHasOneSource` assume `OneRefresh`, at most one process that refreshes the cache beside the
  command, which is what the run has; with three of them `OnlyVerified` is false (section 3). `Clean` says that while the command is about to read
  a checkout no edited one is active, and none is kept that a rollback would put back. `Honest` says when a draft may be
  of two states of its source (`Unsettled`): of a repository only if the refresh has already moved the checkout away, which it does once, so
  that what is loaded afterwards is of one state; of a directory only with the later state in the digest, so that the
  comparison, which reads later still, cannot find the earlier one again. Either draft is refused before its commit.

* `ManagedCredentialsProofs`: `TypeCorrect`, `ReportsAreTrue`, `NoFileRunsAhead`. `Orderly` says that the list of a
  run has each thing once and the phases in their order, and that nothing good has been said yet of what is still on it; so a
  report, once made, is about a service that no later step of the run touches, and holds until somebody outside
  touches it, which withdraws it. `Midway` says what has been done when a service is at each step of its phase: that an edit
  of a store is met with the process down, that a recovery file is only written to hold what the store holds (the one
  exception is `rollbackSecret`), that a stamp is written when all is in place. `Pools` gives the generator of passwords
  one that nobody holds.

Liveness (`LeftoverIsResolved`, `UpdateEnds`, `GetsItsTurn`, `RerunsConverge`, `RerunsSettle`,
`RunsWhatIsConfigured`, `InterruptedRestoreIsUndone`) is model-checked only, and so are
all properties of `Integration`.

## 5. What is not modelled, and the plan

Left out of these modules: what files contain and how they are rendered; symlink and
ownership checks, whose refusal is an error of the step they are in; the
bytes of archives and their limits; durability of a rename without an fsync of its directory
(both transactions sync it after each move); a second process (below); the
external roots of configuration and secrets, one tree with the project here.
A running container that rewrites a managed file during a transaction is left out of the two transactions; BackupArchive has it for a restore.
Two restores at once, `--relocate-managed-roots` and the listing of archives are left out of BackupArchive.

In CatalogLock the project is locked: the first lock is the one of `init`. A checkout, the files and the program change by hand only
while no command runs. `lock verify` and `lock diff` only read. A rendering transaction also writes `.sdbx.yaml` from the
configuration the command started with (`internal/generator/generator.go:642`), so that an edit by hand while it runs is lost; nothing
in the documentation promises otherwise.

The plan, in the order of what it would tell:

1. `CommandConcurrency`: a command and the daemon over one project and its two
   journals, composed from the abstract transactions; what each does to
   the other's live transaction. Run: two processes, one crash. Settings and
   add-ons, which load the configuration before the recovery inside the
   transaction, are actors of it.
2. The rest of the broker: the log as lines with its reader, after records cut short; the
   previews of the operator.
3. `VpnRestart`: Gluetun, qBittorrent and the namespace that one owns and the other
   joins; the command's order against the daemon's restart of everything.
4. `ServeGroup`: endpoints, results, cancellation; nobody is left running. Theorem:
   the group returns only when all are joined.
5. A refinement of the lock's single value in `ImageUpdate` and `CatalogLock` by the abstract transaction,
   which would make the composition of sections 2 and 3 formal; and of BackupArchive's restore by the same.
6. A proof of `VerifiedLinksWork` of `Integration`, the safety property that is only model-checked.
