---------------------------- MODULE Integration ----------------------------
(***************************************************************************)
(* The third and fourth phase of `sdbx integrate`: the configuration files  *)
(* SDBX manages for add-ons that have no API for it, and the connections it *)
(* sets up between services over their HTTP APIs.  A run goes through the   *)
(* links of a project one after the other.  For each it reads what is       *)
(* stored, decides, writes, and checks what it wrote; what differs from one *)
(* link to another is in the record Flow has for it.                        *)
(*                                                                         *)
(* Around a run the world goes on: a service gets another API key, somebody *)
(* edits a connection in a web interface, an Arr adds a torrent.  A request *)
(* may fail before or after it took effect, the command may be interrupted  *)
(* or killed, and it is run again.                                          *)
(***************************************************************************)
EXTENDS Naturals, Sequences

CONSTANTS Projects,      \* what may be enabled: sequences of links
          Keys,          \* the API keys, tokens and passwords of a peer
          Passwords,     \* of the administrators SDBX manages
          MaxFaults,     \* failures, interrupts and kills
          MaxOutside,    \* changes of keys and connections by others
          MaxRotations   \* rotations nobody was told to make

-----------------------------------------------------------------------------
(* The links.                                                               *)

\* A connection whose stored form is matched without its key, which its
\* service does not return, and tested instead.
Connection ==
    [auth      |-> TRUE,      \* it holds a key of the peer
     creates   |-> TRUE,      \* one that is missing is made
     adopts    |-> FALSE,     \* there is a default that is taken over
     yields    |-> FALSE,     \* an operator's own is left alone
     isFile    |-> FALSE,     \* a file under configs/; an error ends the run
     preflight |-> "never",   \* when what is desired is tested: "first", "write"
     byKey     |-> FALSE,     \* the key is part of the comparison
     keepTests |-> TRUE,      \* what matches has to pass a test as well
     requests  |-> 1,         \* one to store it, or the key first
     readBack  |-> FALSE,     \* it is read again and compared
     verify    |-> "sent",    \* what is tested at the end: "stored", "none"
     undoes    |-> FALSE,     \* a new one that fails the test is deleted
     merges    |-> TRUE]      \* what the desired form does not name is sent back

Readable == [Connection EXCEPT !.byKey = TRUE, !.keepTests = FALSE]

ManagedFile == [Readable EXCEPT !.isFile = TRUE, !.yields = TRUE, !.verify = "none"]

ReconcileDecluttarrConfig == ManagedFile
ReconcileJanitorrConfig == [ManagedFile EXCEPT !.creates = FALSE]
ReconcileRecyclarrConfig == [ManagedFile EXCEPT !.adopts = TRUE]
ReconcileQbitManageConfig == [ManagedFile EXCEPT !.adopts = TRUE]

integrateSeerr == [Readable EXCEPT !.preflight = "first", !.readBack = TRUE, !.undoes = TRUE]
integrateSeerrPlex ==
    [Readable EXCEPT !.auth = FALSE, !.preflight = "first", !.readBack = TRUE,
                     !.verify = "none"]
integrateBazarr == [Readable EXCEPT !.readBack = TRUE, !.verify = "none"]
integrateProfilarr ==
    [Connection EXCEPT !.preflight = "first", !.readBack = TRUE, !.verify = "stored"]
integrateMaintainerr == [Readable EXCEPT !.preflight = "first", !.merges = FALSE]
integrateMaintainerrSeerr == integrateMaintainerr
integrateMaintainerrDownloadClient == integrateMaintainerr
integrateMaintainerrPlex == [Connection EXCEPT !.requests = 2, !.verify = "stored"]
integrateQui == [Connection EXCEPT !.readBack = TRUE, !.verify = "stored"]
integrateFlaresolverr ==
    [Connection EXCEPT !.auth = FALSE, !.preflight = "first", !.keepTests = FALSE,
                       !.merges = FALSE]
addProwlarrApplication == Connection
addQBittorrentToArr == [Connection EXCEPT !.yields = TRUE]
reconcileQBittorrentAutomaticManagement ==
    [Connection EXCEPT !.auth = FALSE, !.keepTests = FALSE, !.readBack = TRUE,
                       !.verify = "none"]
integrateArrPlexNotifications ==
    [Connection EXCEPT !.adopts = TRUE, !.preflight = "write", !.readBack = TRUE,
                       !.verify = "stored"]
integrateTautulli == [Readable EXCEPT !.creates = FALSE, !.readBack = TRUE, !.verify = "none"]

Flow ==
    [decluttarr        |-> ReconcileDecluttarrConfig,
     janitorr          |-> ReconcileJanitorrConfig,
     recyclarr         |-> ReconcileRecyclarrConfig,
     qbitManage        |-> ReconcileQbitManageConfig,
     seerr             |-> integrateSeerr,
     seerrPlex         |-> integrateSeerrPlex,
     bazarr            |-> integrateBazarr,
     tautulli          |-> integrateTautulli,
     profilarr         |-> integrateProfilarr,
     maintainerr       |-> integrateMaintainerr,
     maintainerrSeerr  |-> integrateMaintainerrSeerr,
     maintainerrClient |-> integrateMaintainerrDownloadClient,
     maintainerrPlex   |-> integrateMaintainerrPlex,
     qui               |-> integrateQui,
     flaresolverr      |-> integrateFlaresolverr,
     prowlarr          |-> addProwlarrApplication,
     automatic         |-> reconcileQBittorrentAutomaticManagement,
     downloadClient    |-> addQBittorrentToArr,
     plexNotification  |-> integrateArrPlexNotifications]

Logins == {"quiLogin", "wizarr"}   \* an administrator and its recovery file
Links == DOMAIN Flow \cup Logins \cup {"category"}

ASSUME Parameters ==
    /\ Projects \subseteq Seq(Links)
    /\ Keys \subseteq Nat \ {0}
    /\ Passwords \subseteq Nat \ {0}
    /\ MaxFaults \in Nat
    /\ MaxOutside \in Nat
    /\ MaxRotations \in Nat

Entries ==
    [mark : {"absent", "default", "operator", "managed"},
     url  : BOOLEAN,           \* it names the service by its stable address
     key  : Keys \cup {0},
     own  : {0, 1}]            \* a setting of the operator's beside what SDBX sets

Absent == [mark |-> "absent", url |-> FALSE, key |-> 0, own |-> 0]

-----------------------------------------------------------------------------

VARIABLES
    project,    \* the links that are enabled, in the order of a run
    peerKey,    \* the key each peer accepts
    entry,      \* what is stored for each link
    category,   \* the save path of the Arr's category in qBittorrent
    torrents,   \* some torrent is in that category
    recovery,   \* the recovery files of the managed administrators
    admin,      \* the passwords those administrators have; 0: not set up
    stopped,    \* Tautulli does not run
    mode,       \* "idle", or the kind of run
    todo,       \* the links that are left
    step,       \* the next step for the first of them
    wanted,     \* the keys the run has read
    seen,       \* the entry it has read
    touched,    \* somebody changed that entry since
    fresh,      \* the password it installs
    previous,   \* the recovery file before
    cancelled,
    report,     \* what the run says of each link
    faults,
    outside,
    rotations

enabled == {project[i] : i \in 1..Len(project)}

stored == <<entry, category, recovery, admin, stopped>>
run == <<mode, todo, step, wanted, seen, touched, fresh, previous, cancelled, report>>
bounds == <<faults, outside, rotations>>
vars == <<project, peerKey, stored, torrents, run, bounds>>

Steps == {"wait", "read", "preflight", "compare", "limited", "category", "write",
          "readback", "verify", "undo", "count", "create", "edit", "stop", "start", "poll",
          "persist", "setup", "login", "change", "apply", "recheck",
          "rollback", "rollbackFile"}
Reports == {"none", "kept", "repaired", "limited", "left", "would", "failed"}

TypeOK ==
    /\ project \in Projects
    /\ peerKey \in [enabled -> Keys]
    /\ entry \in [enabled -> Entries]
    /\ category \in {"absent", "default", "other", "managed"}
    /\ torrents \in BOOLEAN
    /\ torrents => category # "absent"
    /\ recovery \in [Logins -> Passwords \cup {0}]
    /\ admin \in [Logins -> Passwords \cup {0}]
    /\ stopped \in BOOLEAN
    /\ mode \in {"idle", "dry", "ordinary", "rotate"}
    /\ todo \in Seq(enabled)
    /\ (mode = "idle") = (todo = <<>>)
    /\ step \in Steps
    /\ wanted \in [enabled -> Keys \cup {0}]
    /\ seen \in Entries
    /\ touched \in BOOLEAN
    /\ fresh \in Passwords \cup {0}
    /\ previous \in Passwords \cup {0}
    /\ cancelled \in BOOLEAN
    /\ report \in [enabled -> Reports]
    /\ faults \in 0..MaxFaults
    /\ outside \in 0..MaxOutside
    /\ rotations \in 0..MaxRotations

\* What a service that has just been set up has: nothing, or the default its
\* own first start made, or what an operator put there.
Found(l) ==
    {Absent}
    \cup IF l \notin DOMAIN Flow THEN {} ELSE
         {[Absent EXCEPT !.mark = "default", !.own = 1] :
             x \in {1} \cap (IF Flow[l].adopts \/ l = "tautulli" THEN {1} ELSE {})}
         \cup {[mark |-> "operator", url |-> TRUE, key |-> k, own |-> 1] :
             k \in IF Flow[l].yields THEN Keys ELSE {}}

Init ==
    /\ project \in Projects
    /\ \E k \in Keys : peerKey = [l \in enabled |-> k]
    /\ entry \in {e \in [enabled -> Entries] : \A l \in enabled : e[l] \in Found(l)}
    /\ category \in IF "category" \in enabled THEN {"absent", "other"} ELSE {"absent"}
    /\ torrents = FALSE
    /\ recovery = [l \in Logins |-> 0]
    /\ admin = [l \in Logins |-> 0]
    /\ stopped = FALSE
    /\ mode = "idle" /\ todo = <<>> /\ step = "read"
    /\ wanted = [l \in enabled |-> 0]
    /\ seen = Absent /\ touched = FALSE
    /\ fresh = 0 /\ previous = 0 /\ cancelled = FALSE
    /\ report = [l \in enabled |-> "none"]
    /\ faults = 0 /\ outside = 0 /\ rotations = 0

-----------------------------------------------------------------------------
(* Helpers.                                                                 *)

At(l, name) ==
    /\ todo # <<>>
    /\ Head(todo) = l
    /\ step = name

\* A request, or a docker command, under the command's context: it fails when
\* the context is done, or for a reason of its own after the retries.
Answered == ~cancelled /\ UNCHANGED faults
Fails ==
    \/ cancelled /\ UNCHANGED faults
    \/ faults < MaxFaults /\ faults' = faults + 1
\* A file SDBX writes itself does not depend on the context.
WriteFails == faults < MaxFaults /\ faults' = faults + 1

Goto(name) ==
    /\ step' = name
    /\ UNCHANGED <<mode, todo, wanted, seen, touched, fresh, previous, cancelled, report>>

IsFile(l) == l \in DOMAIN Flow /\ Flow[l].isFile

\* The run waits for the services before the first link that needs them.
FirstStep(rest, before) ==
    IF rest # <<>> /\ before /\ ~IsFile(Head(rest)) /\ mode # "dry" THEN "wait" ELSE "read"

\* A result, and on to the next link.  A managed file that fails ends the
\* run, and without its administrator Qui's instances are not looked at.
Report(l, said) ==
    LET others(x) == ~(l = "quiLogin" /\ x = "qui" /\ said \in {"failed", "would"})
        rest == IF IsFile(l) /\ said = "failed" THEN <<>>
                ELSE SelectSeq(Tail(todo), others)
    IN
    /\ report' = [report EXCEPT ![l] = said]
    /\ todo' = rest
    /\ mode' = IF rest = <<>> THEN "idle" ELSE mode
    /\ step' = FirstStep(rest, IsFile(l))
    /\ seen' = Absent /\ touched' = FALSE /\ fresh' = 0 /\ previous' = 0
    /\ IF rest = <<>>
       THEN cancelled' = FALSE /\ wanted' = [x \in enabled |-> 0]
       ELSE UNCHANGED <<wanted, cancelled>>

Unused(l) == CHOOSE p \in Passwords : p \notin {recovery[l], admin[l]}

\* What a link's entry is to be.  Where the stored form is merged, what the
\* desired one does not name is as it was read; what it names is overwritten
\* everywhere, the tags of a proxy and the categories of a client among it.
Desired(l) ==
    [mark |-> "managed",
     url  |-> TRUE,
     key  |-> IF Flow[l].auth THEN wanted[l] ELSE 0,
     own  |-> IF Flow[l].merges THEN seen.own ELSE 0]

Matches(l, e) ==
    /\ e.mark = "managed"
    /\ e.url
    /\ Flow[l].auth /\ Flow[l].byKey => e.key = wanted[l]
    /\ l = "maintainerrClient" => e.own = 0      \* the whole form is compared

\* The connection stored for the link works; the one sent with a test does.
WorksAsStored(l) ==
    /\ entry[l].mark = "managed"
    /\ entry[l].url
    /\ Flow[l].auth => entry[l].key = peerKey[l]
WorksAsSent(l) == Flow[l].auth => wanted[l] = peerKey[l]

-----------------------------------------------------------------------------
(* A run.                                                                   *)

\* runIntegrate, with the keys as they are now.  Every service that is
\* enabled needs an address, which one that is stopped has not.
runIntegrate(m) ==
    /\ mode = "idle"
    /\ ~stopped
    /\ mode' = m
    /\ \/ m # "rotate" /\ UNCHANGED rotations
       \/ m = "rotate" /\ rotations < MaxRotations /\ rotations' = rotations + 1
       \/ m = "rotate" /\ "wizarr" \in enabled /\ report["wizarr"] = "failed"
          /\ UNCHANGED rotations
    /\ todo' = project
    /\ step' = IF IsFile(Head(project)) \/ m = "dry" THEN "read" ELSE "wait"
    /\ wanted' = peerKey
    /\ report' = [l \in enabled |-> "none"]
    /\ UNCHANGED <<project, peerKey, stored, torrents, seen, touched, fresh, previous,
                   cancelled, faults, outside>>

\* reconcileArrRuntimeState, integrationEndpointsReachable, waitForServices:
\* if one of them fails the run ends.
waitForServices ==
    /\ todo # <<>> /\ step = "wait"
    /\ UNCHANGED <<project, peerKey, stored, torrents, outside, rotations>>
    /\ \/ Answered /\ Goto("read")
       \/ /\ Fails
          /\ mode' = "idle" /\ todo' = <<>> /\ step' = "read"
          /\ cancelled' = FALSE /\ wanted' = [l \in enabled |-> 0]
          /\ UNCHANGED <<seen, touched, fresh, previous, report>>

world == <<project, peerKey, torrents, outside, rotations>>

\* A read or write of a file SDBX has at hand, or a request.
Local(l) == IsFile(l) \/ l = "tautulli"
Obtained(l) == IF Local(l) THEN UNCHANGED faults ELSE Answered
Lost(l) == IF Local(l) THEN WriteFails ELSE Fails

\* What is stored is read.  An operator's own is left alone where the link
\* yields, and what is not there stays so where it is not created.
Read(l) ==
    /\ At(l, "read")
    /\ UNCHANGED <<world, stored>>
    /\ \/ /\ Obtained(l)
          /\ LET e == entry[l] IN
             IF \/ Flow[l].yields /\ e.mark = "operator"
                \/ ~Flow[l].creates /\ e.mark = "absent"
             THEN Report(l, IF IsFile(l) \/ e.mark = "operator" THEN "left" ELSE "failed")
             ELSE /\ seen' = e
                  /\ touched' = FALSE
                  /\ wanted' = IF Local(l) \/ l = "maintainerrPlex"
                               THEN [wanted EXCEPT ![l] = peerKey[l]] ELSE wanted
                  /\ step' = IF Flow[l].preflight = "first" THEN "preflight" ELSE "compare"
                  /\ UNCHANGED <<mode, todo, fresh, previous, cancelled, report>>
       \/ Lost(l) /\ Report(l, "failed")

\* What is desired is tested before anything is written.  Maintainerr's test
\* of qBittorrent may say that it cannot keep a session with it.
Preflight(l) ==
    /\ At(l, "preflight")
    /\ UNCHANGED <<world, stored>>
    /\ \/ Answered /\ WorksAsSent(l)
          /\ Goto(IF Flow[l].preflight = "first" THEN "compare" ELSE "write")
       \/ (Fails \/ (Answered /\ ~WorksAsSent(l))) /\ Report(l, "failed")
       \/ l = "maintainerrClient" /\ Answered /\ Goto("limited")

\* Settings that delete nothing are stored even so.
StoreLimited ==
    LET l == "maintainerrClient" IN
    /\ At(l, "limited")
    /\ UNCHANGED <<world, category, recovery, admin, stopped>>
    /\ \/ seen = Desired(l) /\ Report(l, "limited") /\ UNCHANGED <<entry, faults>>
       \/ seen # Desired(l) /\ mode = "dry" /\ Report(l, "would") /\ UNCHANGED <<entry, faults>>
       \/ /\ seen # Desired(l) /\ mode # "dry"
          /\ \/ Answered /\ entry' = [entry EXCEPT ![l] = Desired(l)] /\ Report(l, "limited")
             \/ /\ Fails /\ Report(l, "failed")
                /\ entry' \in {entry, [entry EXCEPT ![l] = Desired(l)]}

Repair(l) ==
    IF mode = "dry" THEN Report(l, "would")
    ELSE Goto(CASE Flow[l].preflight = "write" -> "preflight"
                [] l = "downloadClient" -> "category"
                [] l = "tautulli" -> "stop"
                [] OTHER -> "write")

\* Mutant: what matches is believed without a test.
CompareOnly(l) ==
    /\ At(l, "compare")
    /\ UNCHANGED <<world, stored, faults>>
    /\ IF Matches(l, seen) THEN Report(l, "kept") ELSE Repair(l)

\* An entry that matches, and passes its test where the match does not show
\* its key, is kept; everything else is repaired.  A rotation stores the
\* instance of Qui again in any case.
Compare(l) ==
    LET same == Matches(l, seen)
        again == l = "qui" /\ mode = "rotate"
    IN
    /\ At(l, "compare")
    /\ UNCHANGED <<world, stored>>
    /\ \/ same /\ ~Flow[l].keepTests /\ Report(l, "kept") /\ UNCHANGED faults
       \/ same /\ Flow[l].keepTests /\ Answered /\ WorksAsStored(l) /\ ~again
          /\ Report(l, "kept")
       \/ same /\ Flow[l].keepTests /\ Repair(l)
          /\ (Fails \/ (Answered /\ (again \/ ~WorksAsStored(l))))
       \/ ~same /\ UNCHANGED faults /\ Repair(l)

\* addQBittorrentToArr asks for the Arr's category before it stores the
\* client, without a path, and does not mind an error.
CreateCategory(l) ==
    /\ At(l, "category")
    /\ UNCHANGED <<world, entry, recovery, admin, stopped>>
    /\ Goto("write")
    /\ \/ Answered /\ category' = IF category = "absent" THEN "default" ELSE category
       \/ Fails /\ category' \in {category, IF category = "absent" THEN "default" ELSE category}

AfterWrite(l) ==
    IF Flow[l].readBack THEN Goto("readback")
    ELSE IF Flow[l].verify # "none" THEN Goto("verify")
    ELSE Report(l, "repaired")

\* It is stored.  A request that fails has taken effect or not, and the first
\* of two may have taken effect alone.
Write(l) ==
    /\ At(l, "write") /\ l # "tautulli"
    /\ UNCHANGED <<world, category, recovery, admin, stopped>>
    /\ \/ /\ Obtained(l)
          /\ entry' = [entry EXCEPT ![l] = Desired(l)]
          /\ AfterWrite(l)
       \/ /\ Lost(l) /\ Report(l, "failed")
          /\ entry' \in {entry, [entry EXCEPT ![l] = Desired(l)]}
                \cup {[entry EXCEPT ![l].key = wanted[l]] : n \in {2} \cap {Flow[l].requests}}

\* It is read again.
ReadBack(l) ==
    /\ At(l, "readback") /\ l # "tautulli"
    /\ UNCHANGED <<world, stored>>
    /\ \/ /\ Answered /\ Matches(l, entry[l])
          /\ l = "seerrPlex" => entry[l].own = seen.own
          /\ IF Flow[l].verify = "none" THEN Report(l, "repaired") ELSE Goto("verify")
       \/ /\ Fails \/ (Answered /\ (~Matches(l, entry[l])
                                    \/ (l = "seerrPlex" /\ entry[l].own # seen.own)))
          /\ Report(l, "failed")

Verify(l) ==
    LET works == IF Flow[l].verify = "stored" THEN WorksAsStored(l) ELSE WorksAsSent(l)
    IN
    /\ At(l, "verify") /\ l \in DOMAIN Flow
    /\ UNCHANGED <<world, stored>>
    /\ \/ Answered /\ works /\ Report(l, "repaired")
       \/ /\ Fails \/ (Answered /\ ~works)
          /\ IF Flow[l].undoes /\ seen.mark = "absent" THEN Goto("undo") ELSE Report(l, "failed")

Undo(l) ==
    /\ At(l, "undo")
    /\ UNCHANGED <<world, category, recovery, admin, stopped>>
    /\ Report(l, "failed")
    /\ \/ Answered /\ entry' = [entry EXCEPT ![l] = Absent]
       \/ Fails /\ entry' \in {entry, [entry EXCEPT ![l] = Absent]}

-----------------------------------------------------------------------------
(* The Arr's category in qBittorrent.                                       *)

Category == "category"

ReadCategory ==
    /\ At(Category, "read")
    /\ UNCHANGED <<world, stored>>
    /\ \/ Answered /\ category = "absent"
          /\ IF mode = "dry" THEN Report(Category, "would") ELSE Goto("create")
       \/ Answered /\ category = "managed" /\ Report(Category, "kept")
       \/ Answered /\ category \in {"default", "other"} /\ Goto("count")
       \/ Fails /\ Report(Category, "failed")

CountTorrentsInCategory ==
    /\ At(Category, "count")
    /\ UNCHANGED <<world, stored>>
    /\ \/ Answered /\ torrents /\ Report(Category, "left")
       \/ Answered /\ ~torrents
          /\ IF mode = "dry" THEN Report(Category, "would") ELSE Goto("edit")
       \/ Fails /\ Report(Category, "failed")

\* The conflict with a category that exists by now is taken for success, and
\* neither of the two requests is repeated.
CreateManagedCategory ==
    /\ At(Category, "create")
    /\ UNCHANGED <<world, entry, recovery, admin, stopped>>
    /\ \/ Answered /\ category = "absent" /\ category' = "managed" /\ Report(Category, "repaired")
       \/ Answered /\ category # "absent" /\ UNCHANGED category /\ Report(Category, "repaired")
       \/ Fails /\ category' \in {category, IF category = "absent" THEN "managed" ELSE category}
          /\ Report(Category, "failed")

EditCategory ==
    /\ At(Category, "edit")
    /\ UNCHANGED <<world, entry, recovery, admin, stopped>>
    /\ \/ Answered /\ category' = "managed" /\ Report(Category, "repaired")
       \/ Fails /\ category' \in {category, "managed"} /\ Report(Category, "failed")

-----------------------------------------------------------------------------
(* Tautulli reads its file when it starts: it is stopped for the change.    *)

Tautulli == "tautulli"

TautulliStop ==
    /\ At(Tautulli, "stop")
    /\ UNCHANGED <<world, entry, category, recovery, admin>>
    /\ \/ Answered /\ stopped' = TRUE /\ Goto("write")
       \/ Fails /\ stopped' \in BOOLEAN /\ Report(Tautulli, "failed")

TautulliWrite ==
    /\ At(Tautulli, "write")
    /\ UNCHANGED <<world, category, recovery, admin, stopped>>
    /\ \/ entry' = [entry EXCEPT ![Tautulli] = Desired(Tautulli)] /\ Goto("start")
          /\ UNCHANGED faults
       \/ WriteFails /\ Goto("rollback") /\ UNCHANGED entry

TautulliStart ==
    /\ At(Tautulli, "start")
    /\ UNCHANGED <<world, entry, category, recovery, admin>>
    /\ \/ Answered /\ stopped' = FALSE /\ Goto("poll")
       \/ Fails /\ stopped' \in BOOLEAN /\ Goto("rollbackFile")

TautulliPoll ==
    /\ At(Tautulli, "poll")
    /\ UNCHANGED <<world, stored>>
    /\ \/ Answered /\ Goto("readback")
       \/ Fails /\ Goto("rollbackFile")

TautulliReadBack ==
    /\ At(Tautulli, "readback")
    /\ UNCHANGED <<world, stored, faults>>
    /\ \/ Matches(Tautulli, entry[Tautulli]) /\ Report(Tautulli, "repaired")
       \/ ~Matches(Tautulli, entry[Tautulli]) /\ Goto("rollbackFile")

TautulliRollbackFile ==
    /\ At(Tautulli, "rollbackFile")
    /\ UNCHANGED <<world, category, recovery, admin, stopped>>
    /\ Goto("rollback")
    /\ \/ entry' = [entry EXCEPT ![Tautulli] = seen] /\ UNCHANGED faults
       \/ WriteFails /\ UNCHANGED entry

TautulliRollback ==
    /\ At(Tautulli, "rollback")
    /\ UNCHANGED <<world, entry, category, recovery, admin>>
    /\ Report(Tautulli, "failed")
    /\ \/ Answered /\ stopped' = FALSE
       \/ Fails /\ stopped' \in {stopped, FALSE}

-----------------------------------------------------------------------------
(* The administrators of Qui and Wizarr.  The recovery file is written      *)
(* before the application where there was none, and for Wizarr always.      *)

Take(l, before) ==
    /\ fresh' = Unused(l)
    /\ previous' = before
    /\ UNCHANGED <<mode, todo, wanted, seen, touched, cancelled, report>>

LoginBegin(l) ==
    /\ At(l, "read") /\ l \in Logins
    /\ UNCHANGED <<world, stored>>

QuiBegin ==
    LET l == "quiLogin" IN
    /\ LoginBegin(l)
    /\ \/ Fails /\ Report(l, "failed")
       \/ /\ Answered /\ admin[l] = 0
          /\ IF mode = "dry" THEN Report(l, "would") ELSE Take(l, 0) /\ step' = "persist"
       \/ Answered /\ admin[l] # 0 /\ recovery[l] = 0 /\ Report(l, "failed")
       \/ Answered /\ admin[l] # 0 /\ recovery[l] # 0 /\ Goto("login")

\* The recovery password opens Qui, and only then is it rotated.
QuiLogin ==
    LET l == "quiLogin" IN
    /\ At(l, "login")
    /\ UNCHANGED <<world, stored>>
    /\ \/ (Fails \/ (Answered /\ recovery[l] # admin[l])) /\ Report(l, "failed")
       \/ /\ Answered /\ recovery[l] = admin[l]
          /\ CASE mode = "ordinary" -> Report(l, "kept")
               [] mode = "dry" -> Report(l, "kept")
               [] mode = "rotate" -> Take(l, recovery[l]) /\ step' = "change"

QuiChange ==
    LET l == "quiLogin" IN
    /\ At(l, "change")
    /\ UNCHANGED <<world, entry, category, recovery, stopped>>
    /\ \/ Answered /\ admin' = [admin EXCEPT ![l] = fresh] /\ Goto("persist")
       \/ Fails /\ admin' \in {admin, [admin EXCEPT ![l] = fresh]} /\ Report(l, "failed")

QuiPersist ==
    LET l == "quiLogin" IN
    /\ At(l, "persist")
    /\ UNCHANGED <<world, entry, category, admin, stopped>>
    /\ \/ recovery' = [recovery EXCEPT ![l] = fresh] /\ UNCHANGED faults
          /\ Goto(IF admin[l] = 0 THEN "setup" ELSE "recheck")
       \/ /\ WriteFails /\ UNCHANGED recovery
          /\ IF admin[l] = 0 THEN Report(l, "failed") ELSE Goto("rollback")

\* A setup that fails takes the recovery file with it.
QuiSetup ==
    LET l == "quiLogin" IN
    /\ At(l, "setup")
    /\ UNCHANGED <<world, entry, category, stopped>>
    /\ \/ /\ Answered /\ admin' = [admin EXCEPT ![l] = fresh] /\ Goto("recheck")
          /\ UNCHANGED recovery
       \/ /\ Fails /\ Report(l, "failed")
          /\ recovery' = [recovery EXCEPT ![l] = 0]
          /\ admin' \in {admin, [admin EXCEPT ![l] = fresh]}

\* The login that verifies it; a rotation is rolled back when it fails.
QuiRecheck ==
    LET l == "quiLogin" IN
    /\ At(l, "recheck")
    /\ UNCHANGED <<world, stored>>
    /\ \/ Answered /\ admin[l] = fresh /\ Report(l, "repaired")
       \/ /\ Fails \/ (Answered /\ admin[l] # fresh)
          /\ IF previous = 0 THEN Report(l, "failed") ELSE Goto("rollback")

\* What Wizarr's script checks, and what it needs to apply anything: one
\* local administrator and one Plex server, which an operator has set up.
WizarrHolds(password) ==
    /\ admin["wizarr"] = password
    /\ entry["wizarr"].url
    /\ entry["wizarr"].key = wanted["wizarr"]
WizarrIsSetUp == admin["wizarr"] # 0 /\ entry["wizarr"].mark # "absent"

\* One transaction sets the password and the connection to Plex.
Reconciled(password) ==
    /\ admin' = [admin EXCEPT !["wizarr"] = password]
    /\ entry' = [entry EXCEPT !["wizarr"] =
                    [mark |-> "managed", url |-> TRUE, key |-> wanted["wizarr"], own |-> @.own]]

\* An exec in the container can lose its output after the change is made.
ReconcileFails(password) ==
    \/ Answered /\ ~WizarrIsSetUp /\ UNCHANGED <<admin, entry>>
    \/ Fails /\ UNCHANGED <<admin, entry>>
    \/ Fails /\ WizarrIsSetUp /\ Reconciled(password)

WizarrPreflight ==
    LET l == "wizarr" IN
    /\ LoginBegin(l)
    /\ \/ Answered /\ wanted[l] = peerKey[l] /\ Goto("compare")
       \/ (Fails \/ (Answered /\ wanted[l] # peerKey[l])) /\ Report(l, "failed")

\* Mutant: the recovery file is not written before the change.
WizarrBeginLate ==
    LET l == "wizarr" IN
    /\ At(l, "compare")
    /\ UNCHANGED <<world, stored, faults>>
    /\ IF mode = "rotate" THEN Take(l, recovery[l]) /\ step' = "apply"
       ELSE Report(l, IF recovery[l] # 0 /\ WizarrHolds(recovery[l]) THEN "kept" ELSE "failed")

\* Without a rotation what the recovery file has is checked, and no more.
WizarrBegin ==
    LET l == "wizarr" IN
    /\ At(l, "compare")
    /\ UNCHANGED <<world, stored>>
    /\ \/ mode = "rotate" /\ Take(l, recovery[l]) /\ step' = "persist" /\ UNCHANGED faults
       \/ mode # "rotate" /\ recovery[l] = 0 /\ Report(l, "failed") /\ UNCHANGED faults
       \/ /\ mode # "rotate" /\ recovery[l] # 0 /\ Answered
          /\ Report(l, IF WizarrHolds(recovery[l]) THEN "kept" ELSE "failed")
       \/ mode # "rotate" /\ recovery[l] # 0 /\ Fails /\ Report(l, "failed")

WizarrPersist ==
    LET l == "wizarr" IN
    /\ At(l, "persist")
    /\ UNCHANGED <<world, entry, category, admin, stopped>>
    /\ \/ recovery' = [recovery EXCEPT ![l] = fresh] /\ Goto("apply") /\ UNCHANGED faults
       \/ WriteFails /\ UNCHANGED recovery /\ Report(l, "failed")

WizarrApply ==
    /\ At("wizarr", "apply")
    /\ UNCHANGED <<world, category, recovery, stopped>>
    /\ \/ Answered /\ WizarrIsSetUp /\ Reconciled(fresh) /\ Goto("verify")
       \/ ReconcileFails(fresh) /\ Goto("recheck")

\* What is desired may be there all the same.
WizarrRecheck ==
    LET l == "wizarr" IN
    /\ At(l, "recheck")
    /\ UNCHANGED <<world, stored>>
    /\ \/ Answered /\ WizarrHolds(fresh) /\ Report(l, "repaired")
       \/ /\ Fails \/ (Answered /\ ~WizarrHolds(fresh))
          /\ Goto(IF previous = 0 THEN "rollbackFile" ELSE "rollback")

WizarrVerify ==
    LET l == "wizarr" IN
    /\ At(l, "verify")
    /\ UNCHANGED <<world, stored>>
    /\ \/ Answered /\ WizarrHolds(fresh) /\ Report(l, "repaired")
       \/ /\ Fails \/ (Answered /\ ~WizarrHolds(fresh))
          /\ IF previous = 0 THEN Report(l, "failed") ELSE Goto("rollback")

\* The application is put back to the previous password, and then the file.
\* Qui keeps its new recovery file out of it when that was never written.
QuiRollback ==
    LET l == "quiLogin" IN
    /\ At(l, "rollback")
    /\ UNCHANGED <<world, entry, category, recovery, stopped>>
    /\ IF recovery[l] = previous THEN Report(l, "failed") ELSE Goto("rollbackFile")
    /\ \/ Answered /\ admin' = [admin EXCEPT ![l] = previous]
       \/ Fails /\ admin' \in {admin, [admin EXCEPT ![l] = previous]}

WizarrRollback ==
    /\ At("wizarr", "rollback")
    /\ UNCHANGED <<world, category, recovery, stopped>>
    /\ Goto("rollbackFile")
    /\ \/ Answered /\ WizarrIsSetUp /\ Reconciled(previous)
       \/ ReconcileFails(previous)

RollbackRecovery(l) ==
    /\ At(l, "rollbackFile") /\ l \in Logins
    /\ UNCHANGED <<world, entry, category, admin, stopped>>
    /\ Report(l, "failed")
    /\ \/ recovery' = [recovery EXCEPT ![l] = previous] /\ UNCHANGED faults
       \/ WriteFails /\ UNCHANGED recovery

-----------------------------------------------------------------------------
(* What goes on around a run.                                               *)

\* The command is interrupted: what runs under its context fails from now on.
Cancel ==
    /\ mode # "idle" /\ ~cancelled
    /\ faults < MaxFaults /\ faults' = faults + 1
    /\ cancelled' = TRUE
    /\ UNCHANGED <<project, peerKey, stored, torrents, mode, todo, step, wanted, seen,
                   touched, fresh, previous, report, outside, rotations>>

\* The command is killed.
Crash ==
    /\ mode # "idle"
    /\ faults < MaxFaults /\ faults' = faults + 1
    /\ mode' = "idle" /\ todo' = <<>> /\ step' = "read"
    /\ seen' = Absent /\ touched' = FALSE /\ fresh' = 0 /\ previous' = 0
    /\ cancelled' = FALSE /\ wanted' = [l \in enabled |-> 0]
    /\ UNCHANGED <<project, peerKey, stored, torrents, report, outside, rotations>>

\* A service gets another key, a password is changed, Plex is claimed again.
ChangeKey(l) ==
    /\ outside < MaxOutside /\ outside' = outside + 1
    /\ \E k \in Keys \ {peerKey[l]} : peerKey' = [peerKey EXCEPT ![l] = k]
    /\ UNCHANGED <<project, stored, torrents, run, faults, rotations>>

\* Somebody edits or deletes an entry, or makes it his own.
EditEntry(l) ==
    LET e == entry[l] IN
    /\ e.mark # "absent"
    /\ outside < MaxOutside /\ outside' = outside + 1
    /\ \E n \in {[e EXCEPT !.own = 1 - e.own], [e EXCEPT !.url = FALSE]}
                \cup (IF l = "tautulli" THEN {} ELSE {Absent})
                \cup (IF l \in DOMAIN Flow /\ Flow[l].yields THEN {[e EXCEPT !.mark = "operator"]} ELSE {}) :
         n # e /\ entry' = [entry EXCEPT ![l] = n]
    /\ touched' = (touched \/ (todo # <<>> /\ Head(todo) = l))
    /\ UNCHANGED <<project, peerKey, category, recovery, admin, stopped, torrents, mode, todo,
                   step, wanted, seen, fresh, previous, cancelled, report, faults, rotations>>

\* An Arr adds a torrent; qBittorrent makes its category if there is none.
TorrentAdded ==
    /\ "category" \in enabled /\ ~torrents
    /\ torrents' = TRUE
    /\ category' = IF category = "absent" THEN "default" ELSE category
    /\ UNCHANGED <<project, peerKey, entry, recovery, admin, stopped, run, bounds>>

\* The first start of Wizarr, where an operator chooses a password and names
\* a Plex server.
WizarrSetUp ==
    /\ "wizarr" \in enabled /\ mode = "idle" /\ admin["wizarr"] = 0
    /\ admin' = [admin EXCEPT !["wizarr"] = Unused("wizarr")]
    /\ \E u \in BOOLEAN, k \in Keys :
         entry' = [entry EXCEPT !["wizarr"] =
                     [mark |-> "operator", url |-> u, key |-> k, own |-> 0]]
    /\ UNCHANGED <<project, peerKey, category, recovery, stopped, torrents, run, bounds>>

\* `sdbx up` starts what does not run.
Up ==
    /\ mode = "idle" /\ stopped
    /\ stopped' = FALSE
    /\ UNCHANGED <<project, peerKey, entry, category, recovery, admin, torrents, run, bounds>>

-----------------------------------------------------------------------------

LinkStep ==
    \E l \in DOMAIN Flow :
        \/ Read(l) \/ Preflight(l) \/ Compare(l) \/ CreateCategory(l) \/ Write(l)
        \/ ReadBack(l) \/ Verify(l) \/ Undo(l)

TautulliStep ==
    \/ TautulliStop \/ TautulliWrite \/ TautulliStart \/ TautulliPoll
    \/ TautulliReadBack \/ TautulliRollbackFile \/ TautulliRollback

LoginStep ==
    \/ QuiBegin \/ QuiLogin \/ QuiChange \/ QuiPersist \/ QuiSetup \/ QuiRecheck
    \/ WizarrPreflight \/ WizarrBegin \/ WizarrPersist \/ WizarrApply \/ WizarrRecheck
    \/ WizarrVerify \/ QuiRollback \/ WizarrRollback
    \/ \E l \in Logins : RollbackRecovery(l)

RunStep ==
    \/ waitForServices \/ LinkStep \/ StoreLimited
    \/ ReadCategory \/ CountTorrentsInCategory \/ CreateManagedCategory \/ EditCategory
    \/ TautulliStep \/ LoginStep

Next ==
    \/ \E m \in {"dry", "ordinary", "rotate"} : runIntegrate(m)
    \/ RunStep
    \/ Cancel \/ Crash \/ TorrentAdded \/ WizarrSetUp \/ Up
    \/ \E l \in enabled \cap (DOMAIN Flow \cup {"wizarr"}) : ChangeKey(l) \/ EditEntry(l)

\* A command that runs goes on until it returns; the operator runs it again,
\* rotates when it is told to, starts what is stopped and sets Wizarr up.
Spec ==
    /\ Init /\ [][Next]_vars
    /\ WF_vars(RunStep)
    /\ SF_vars(runIntegrate("ordinary"))
    /\ SF_vars(runIntegrate("rotate"))
    /\ SF_vars(Up)
    /\ SF_vars(WizarrSetUp)

-----------------------------------------------------------------------------
(* Properties.                                                              *)

Says(l, said) == report[l] = "none" /\ report'[l] = said

\* A link the run reports as verified works at that moment, although keys
\* change and entries are edited while it runs and answers get lost: where
\* the stored connection is tested, what is stored has the address and the
\* key its peer accepts; where what was sent is tested, or what is stored is
\* only compared, it is what the run has read, unless somebody edited it
\* meanwhile.  A managed administrator that is reported opens with its
\* recovery file, and Wizarr has the token of Plex that the run has read.  A
\* category that another created between its read and the request to create
\* it is reported without a look at its path and is outside this
\* (internal/integrate/integrate.go:904-1010, 1255-1392, and
\* the integrators beside it).
VerifiedLinksWork ==
    [][\A l \in enabled :
        IF l \in DOMAIN Flow
        THEN LET f == Flow[l]
                 asRead == touched \/ (/\ entry[l].mark = "managed" /\ entry[l].url
                                       /\ (f.auth /\ (f.byKey \/ Says(l, "repaired")))
                                             => entry[l].key = wanted[l])
             IN
             /\ Says(l, "kept") => IF f.keepTests THEN WorksAsStored(l) ELSE asRead
             /\ Says(l, "repaired") =>
                  CASE f.verify = "stored" -> WorksAsStored(l)
                    [] f.verify = "sent" -> asRead /\ WorksAsSent(l)
                    [] f.verify = "none" -> Flow[l].readBack => asRead
        ELSE l \in Logins /\ (Says(l, "kept") \/ Says(l, "repaired"))
               => /\ recovery[l] # 0 /\ recovery[l] = admin[l]
                  /\ l = "wizarr" => entry[l].url /\ entry[l].key = wanted[l]]_vars

\* Once nothing fails and nobody changes anything any more, running the
\* command again, with a rotation where it asks for one, ends with every
\* link working or left to the operator, and Wizarr's recovery file opening
\* it unless its Plex server was deleted, wherever failures, interrupts and
\* kills fell.  Qui is not covered: its
\* password is lost with the answer to a setup or a change.
Settled(l) ==
    IF l \in DOMAIN Flow
    THEN \/ WorksAsStored(l)
         \/ Flow[l].yields /\ entry[l].mark = "operator"
         \/ ~Flow[l].creates /\ entry[l].mark = "absent"
         \/ l = "qui" /\ recovery["quiLogin"] # admin["quiLogin"]
    ELSE IF l = "wizarr"
    THEN \/ /\ recovery[l] # 0 /\ recovery[l] = admin[l]
            /\ entry[l].url /\ entry[l].key = peerKey[l]
         \/ admin[l] # 0 /\ entry[l].mark = "absent"
    ELSE l = "category" => torrents \/ category = "managed"
RerunsSettle == <>[](\A l \in enabled : Settled(l))

\* The help of the command (cmd/sdbx/cmd/integrate.go:58) says that existing
\* torrent categories with assigned torrents are never relocated.
NeverRelocated == [][torrents => category' = category]_vars
=============================================================================
