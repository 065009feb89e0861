---------------------- MODULE ManagedCredentialsProofs ----------------------
(***************************************************************************)
(* What the credential phases of `sdbx integrate` promise for any number of *)
(* Arrs, passwords, keys, faults and rotations: a credential a run reports  *)
(* is the one its service holds, and no recovery file runs ahead of its     *)
(* service.                                                                 *)
(***************************************************************************)
EXTENDS ManagedCredentials, SequenceTheorems, FiniteSetTheorems, TLAPS

-----------------------------------------------------------------------------
(* The inductive invariant.                                                 *)

\* What may be on the list of a run: each phase has its services.
Work ==
    ({"init"} \X {QBittorrent, Filebrowser})
    \cup ({"load", "wait"} \X {QBittorrent})
    \cup ({"runtime", "auth"} \X ArrSet)

\* The list of a run has each thing once, and the phases in their order.
Rank == [init |-> 1, load |-> 2, runtime |-> 3, wait |-> 4, auth |-> 5]
Listed(list) ==
    /\ list \in Seq(Work)
    /\ \A i, j \in 1..Len(list) : list[i] = list[j] => i = j
    /\ \A i, j \in 1..Len(list) : i < j => Rank[list[i][1]] <= Rank[list[j][1]]

\* Nothing good has been said yet of what is still on the list.
Unsaid(list, said) ==
    \A i \in 1..Len(list) :
        /\ list[i][1] = "init" => said[list[i][2]] = "none"
        /\ list[i][1] = "load" => \A a \in ArrSet : said[a] = "none"
        /\ list[i][1] \in {"runtime", "auth"} => said[list[i][2]] \in {"none", "failed"}

Orderly ==
    /\ Listed(todo)
    /\ Unsaid(todo, report)
    /\ mode = "idle" <=> todo = <<>>

\* The credential of a service is whole: one password in its store and in its
\* recovery file, which the running service has read.
Whole(s) ==
    /\ secret[s] # 0 /\ secret[s] = held[s]
    /\ up[s]
    /\ s = QBittorrent => memory = held[s]

\* What has been done when a service with an init stamp is at this step.
InitSteps == Steps \ {"put", "verify"}
InitMidway(s) ==
    /\ step \in InitSteps
    /\ step \notin {"begin", "provision"} => fresh # 0
    /\ step \in {"edit", "persist", "start"} => ~up[s]
    /\ step \in {"stop", "edit"} /\ mode = "ordinary" => secret[s] = fresh
    /\ step = "persist" => mode = "rotate" /\ held[s] = fresh
    /\ step = "start" => secret[s] = fresh /\ held[s] = fresh
    /\ step = "stamp" => Whole(s)

\* The same for the authentication of an Arr.
AuthSteps == {"begin", "provision", "start", "put", "verify", "persist", "revert"}
AuthMidway(a) ==
    /\ step \in AuthSteps
    /\ step \notin {"begin", "provision"} => fresh # 0
    /\ step \in {"start", "put", "verify"} /\ mode = "ordinary" => secret[a] = fresh
    /\ step = "persist" => mode = "rotate" /\ held[a] = fresh /\ up[a]

Midway ==
    todo # <<>> =>
        /\ Head(todo)[1] = "init" => InitMidway(Head(todo)[2])
        /\ Head(todo)[1] = "auth" => AuthMidway(Head(todo)[2])
        /\ Head(todo)[1] \in {"load", "wait"} => step = "begin"

IInv ==
    /\ TypeOK
    /\ Orderly
    /\ Midway
    /\ ReportedCredentialHolds
-----------------------------------------------------------------------------
(* Services and lists.                                                      *)

\* qBittorrent, File Browser and the Arrs are different services.
LEMMA Names ==
    /\ QBittorrent \in Services /\ Filebrowser \in Services /\ ArrSet \subseteq Services
    /\ QBittorrent # Filebrowser /\ QBittorrent \notin ArrSet /\ Filebrowser \notin ArrSet
    /\ \A s \in Services : s \in {QBittorrent, Filebrowser} \/ s \in ArrSet
  BY NamesAreDistinct DEF Services

\* What is on a list is a phase and a service.
LEMMA WorkType ==
    ASSUME NEW w \in Work
    PROVE  /\ w \in Phases \X Services /\ w = <<w[1], w[2]>>
           /\ w[1] \in Phases /\ w[2] \in Services
           /\ w[1] = "init" => w[2] \in {QBittorrent, Filebrowser}
           /\ w[1] \in {"load", "wait"} => w[2] = QBittorrent
           /\ w[1] \in {"runtime", "auth"} <=> w[2] \in ArrSet /\ w[1] \notin {"init", "load", "wait"}
  BY Names DEF Work, Phases

\* There is always a password that nobody holds.
LEMMA UnusedType ==
    ASSUME TypeOK, NEW s \in Services
    PROVE  Unused(s) \in Passwords /\ Unused(s) # 0
  <1> DEFINE S == {secret[s], held[s]} \cup (IF s = QBittorrent THEN {memory} ELSE {})
  <1>1. \E p \in Passwords : p \notin S
    <2>1. {secret[s], held[s], memory} \subseteq Passwords \cup {0}
      BY DEF TypeOK
    <2>2. \E p \in Passwords : p \notin {secret[s], held[s], memory}
      BY <2>1, Pools
    <2> QED BY <2>2
  <1>2. Unused(s) = CHOOSE p \in Passwords : p \notin S
    BY DEF Unused
  <1> HIDE DEF S
  <1>3. Unused(s) \in Passwords
    BY <1>1, <1>2
  <1> QED BY <1>3, Pools

\* The first on a list, and the others.
LEMMA Taken ==
    ASSUME NEW list, Listed(list), list # <<>>
    PROVE  /\ Head(list) \in Work /\ Head(list) = list[1] /\ 1 \in 1..Len(list)
           /\ Listed(Tail(list))
           /\ \A i \in 1..Len(Tail(list)) :
                /\ Tail(list)[i] = list[i + 1] /\ i + 1 \in 1..Len(list)
                /\ Tail(list)[i] \in Work /\ Tail(list)[i] # Head(list)
                /\ Rank[Head(list)[1]] <= Rank[Tail(list)[i][1]]
  <1> DEFINE t == Tail(list)
  <1> DEFINE m == Len(t)
  <1>1. /\ list \in Seq(Work) /\ t \in Seq(Work) /\ Head(list) \in Work /\ m = Len(list) - 1
        /\ \A i \in 1..m : t[i] = list[i + 1]
    BY HeadTailProperties DEF Listed
  <1>2. Len(list) \in Nat \ {0} /\ m \in Nat /\ Head(list) = list[1]
    BY <1>1, EmptySeq, LenProperties
  <1> HIDE DEF m, t
  <1>3. 1 \in 1..Len(list) /\ \A i \in 1..m : i + 1 \in 1..Len(list) /\ 1 < i + 1
    BY <1>1, <1>2
  <1>4. \A i \in 1..m : t[i] \in Work /\ t[i] # Head(list) /\ Rank[Head(list)[1]] <= Rank[t[i][1]]
    <2> TAKE i \in 1..m
    <2>1. i + 1 \in 1..Len(list) /\ 1 < i + 1 /\ i + 1 # 1 /\ t[i] = list[i + 1]
      BY <1>1, <1>3
    <2>2. t[i] \in Work
      BY <1>1, ElementOfSeq DEF m
    <2> QED BY <1>2, <1>3, <2>1, <2>2 DEF Listed
  <1>5. \A i, j \in 1..m : t[i] = t[j] => i = j
    <2> TAKE i, j \in 1..m
    <2> HAVE t[i] = t[j]
    <2>1. i + 1 = j + 1
      BY <1>1, <1>3 DEF Listed
    <2> QED BY <1>2, <2>1
  <1>6. \A i, j \in 1..m : i < j => Rank[t[i][1]] <= Rank[t[j][1]]
    <2> TAKE i, j \in 1..m
    <2> HAVE i < j
    <2>1. i + 1 < j + 1
      BY <1>2
    <2> QED BY <1>1, <1>3, <2>1 DEF Listed
  <1>7. Listed(t)
    BY <1>1, <1>5, <1>6 DEF Listed, m
  <1> QED BY <1>1, <1>2, <1>3, <1>4, <1>7 DEF t, m

\* Something is said of the first on the list: nothing good has been said yet
\* of the others.
LEMMA SaidOnce ==
    ASSUME NEW list, Listed(list), list # <<>>, NEW said \in [Services -> Reports],
           Unsaid(list, said), NEW x,
           \/ Head(list)[1] \in {"init", "auth"}
           \/ Head(list)[1] = "runtime" /\ x \in {said[Head(list)[2]], "failed"}
           \/ Head(list)[1] = "wait" /\ x = said[Head(list)[2]]
    PROVE  Unsaid(Tail(list), [said EXCEPT ![Head(list)[2]] = x])
  <1> DEFINE t == Tail(list)
  <1> DEFINE s == Head(list)[2]
  <1> DEFINE now == [said EXCEPT ![s] = x]
  <1>1. /\ Head(list) \in Work /\ Head(list) = list[1] /\ 1 \in 1..Len(list)
        /\ \A i \in 1..Len(t) :
             /\ t[i] = list[i + 1] /\ i + 1 \in 1..Len(list)
             /\ t[i] \in Work /\ t[i] # Head(list)
             /\ Rank[Head(list)[1]] <= Rank[t[i][1]]
    BY Taken
  <1>2. s \in Services /\ now \in [Services -> {x} \cup Reports]
        /\ \A r \in Services : now[r] = IF r = s THEN x ELSE said[r]
    BY <1>1, WorkType
  <1>3. SUFFICES ASSUME NEW i \in 1..Len(t)
                 PROVE  /\ t[i][1] = "init" => now[t[i][2]] = "none"
                        /\ t[i][1] = "load" => \A a \in ArrSet : now[a] = "none"
                        /\ t[i][1] \in {"runtime", "auth"} => now[t[i][2]] \in {"none", "failed"}
    BY DEF Unsaid
  <1>4. /\ t[i][1] = "init" => said[t[i][2]] = "none"
        /\ t[i][1] = "load" => \A a \in ArrSet : said[a] = "none"
        /\ t[i][1] \in {"runtime", "auth"} => said[t[i][2]] \in {"none", "failed"}
    BY <1>1 DEF Unsaid
  <1>5. t[i] \in Work /\ t[i] # Head(list) /\ Rank[Head(list)[1]] <= Rank[t[i][1]]
    BY <1>1
  <1> HIDE DEF t, now
  <1>6. /\ t[i] = <<t[i][1], t[i][2]>> /\ t[i][1] \in Phases /\ t[i][2] \in Services
        /\ Head(list) = <<Head(list)[1], s>> /\ Head(list)[1] \in Phases
        /\ t[i][1] = Head(list)[1] => t[i][2] # s
    BY <1>1, <1>5, WorkType
  <1>7. /\ Head(list)[1] \in {"runtime", "wait", "auth"} => t[i][1] \notin {"init", "load"}
        /\ Head(list)[1] = "auth" => t[i][1] = "auth"
    BY <1>5, <1>6 DEF Rank, Phases
  <1>8. CASE t[i][1] = "init"
    BY <1>2, <1>4, <1>6, <1>7, <1>8
  <1>9. CASE t[i][1] = "load"
    <2>1. Head(list)[1] = "init"
      BY <1>7, <1>9
    <2>2. s \notin ArrSet
      BY <1>1, <2>1, WorkType, Names
    <2> QED BY <1>2, <1>4, <1>9, <2>2, Names
  <1>10. CASE t[i][1] \in {"runtime", "auth"}
    <2>1. t[i][2] \in ArrSet
      BY <1>5, <1>10, WorkType
    <2>2. CASE t[i][2] # s
      BY <1>2, <1>4, <1>6, <1>10, <2>2
    <2>3. CASE t[i][2] = s
      <3>1. Head(list)[1] = "runtime"
        BY <1>1, <1>6, <1>7, <1>10, <2>1, <2>3, WorkType, Names
      <3> QED BY <1>2, <1>4, <1>6, <1>10, <2>3, <3>1
    <2> QED BY <2>2, <2>3
  <1> QED BY <1>6, <1>8, <1>9, <1>10 DEF Phases
-----------------------------------------------------------------------------
(* The parts of a step.                                                     *)

DiskTyped ==
    /\ secret \in [Services -> Passwords \cup {0}]
    /\ held \in [Services -> Passwords \cup {0}]
    /\ stamp \in [Services -> {"absent", "current", "pending"}]
    /\ apiKey \in [ArrSet -> Keys \cup {0}]

WorldTyped ==
    /\ up \in [Services -> BOOLEAN]
    /\ memory \in Passwords \cup {0}
    /\ liveKey \in [ArrSet -> Keys]

RunTyped ==
    /\ mode \in Modes
    /\ todo \in Seq(Phases \X Services)
    /\ step \in Steps
    /\ fresh \in Passwords \cup {0}
    /\ previous \in Passwords \cup {0}
    /\ loaded \in [ArrSet -> Keys \cup {0}]
    /\ cancelled \in BOOLEAN
    /\ report \in [Services -> Reports]

BoundsTyped == faults \in 0..MaxFaults /\ rotations \in 0..MaxRotations

LEMMA Typed == TypeOK <=> DiskTyped /\ WorldTyped /\ RunTyped /\ BoundsTyped
  BY DEF TypeOK, DiskTyped, WorldTyped, RunTyped, BoundsTyped

\* What a report says of one service.
Told(s) ==
    /\ report[s] = "installed" => Whole(s)
    /\ report[s] = "kept" /\ s # Filebrowser => secret[s] # 0 /\ secret[s] = held[s]

\* The password `sdbx secrets show` prints is the recovery file's, or none.
EachTold == \A s \in Services : Told(s)
LEMMA AllTold == ReportedCredentialHolds <=> EachTold
  <1>1. \A s \in Services : Shown(s) # 0 /\ Shown(s) = held[s] <=>
                             secret[s] # 0 /\ secret[s] = held[s]
    BY Names DEF Shown, ShownQbt, ShownFb, ShownArr, qbtManagedCredentialMatches
  <1> QED BY <1>1 DEF ReportedCredentialHolds, EachTold, Told, Whole

\* Where a run is, and what is so there.
LEMMA AtFirst ==
    ASSUME IInv, NEW phase, NEW s, NEW name, At(phase, s, name)
    PROVE  /\ todo # <<>> /\ Listed(todo) /\ Unsaid(todo, report) /\ mode # "idle" /\ step = name
           /\ Head(todo) = <<phase, s>> /\ <<phase, s>> \in Work /\ s \in Services
           /\ Head(todo)[1] = phase /\ Head(todo)[2] = s
           /\ phase = "init" => /\ s \in {QBittorrent, Filebrowser} /\ s \notin ArrSet
                                /\ InitMidway(s) /\ report[s] = "none"
           /\ phase = "auth" => /\ s \in ArrSet /\ s # QBittorrent /\ AuthMidway(s)
                                /\ report[s] \in {"none", "failed"}
           /\ phase = "runtime" => /\ s \in ArrSet /\ s # QBittorrent
                                   /\ report[s] \in {"none", "failed"}
           /\ phase = "load" => \A a \in ArrSet : report[a] = "none"
  <1>1. /\ todo # <<>> /\ Listed(todo) /\ Unsaid(todo, report) /\ mode # "idle" /\ step = name
        /\ Head(todo) = <<phase, s>>
    BY DEF At, IInv, Orderly
  <1>2. Head(todo) \in Work /\ Head(todo) = todo[1] /\ 1 \in 1..Len(todo)
    BY <1>1, Taken
  <1>3. Head(todo)[1] = phase /\ Head(todo)[2] = s
    BY <1>1
  <1>4. /\ s \in Services
        /\ phase = "init" => s \in {QBittorrent, Filebrowser} /\ s \notin ArrSet
        /\ phase \in {"runtime", "auth"} => s \in ArrSet /\ s # QBittorrent
    BY <1>1, <1>2, <1>3, WorkType, Names
  <1>5. /\ phase = "init" => report[s] = "none"
        /\ phase \in {"runtime", "auth"} => report[s] \in {"none", "failed"}
        /\ phase = "load" => \A a \in ArrSet : report[a] = "none"
    BY <1>1, <1>2, <1>3 DEF Unsaid
  <1>6. /\ phase = "init" => InitMidway(s)
        /\ phase = "auth" => AuthMidway(s)
    BY <1>1, <1>3 DEF IInv, Midway
  <1> QED BY <1>1, <1>2, <1>3, <1>4, <1>5, <1>6

\* The run goes on with the next of its list.
LEMMA GoesOn ==
    ASSUME IInv, NEW phase, NEW s, NEW name, At(phase, s, name), NEW x \in Reports, GoOn(s, x),
           \/ phase \in {"init", "auth"}
           \/ phase = "runtime" /\ x \in {report[s], "failed"}
           \/ phase = "wait" /\ x = report[s]
    PROVE  /\ Orderly' /\ Midway' /\ RunTyped'
           /\ report'[s] = x /\ \A t \in Services \ {s} : report'[t] = report[t]
  <1>1. /\ todo # <<>> /\ Listed(todo) /\ Unsaid(todo, report) /\ mode # "idle"
        /\ Head(todo)[1] = phase /\ Head(todo)[2] = s /\ s \in Services
    BY AtFirst
  <1>2. RunTyped
    BY Typed DEF IInv
  <1>3. /\ todo' = Tail(todo) /\ step' = "begin" /\ report' = [report EXCEPT ![s] = x]
        /\ mode' = (IF Tail(todo) = <<>> THEN "idle" ELSE mode)
        /\ UNCHANGED <<fresh, previous, loaded, cancelled>>
    BY DEF GoOn
  <1>4. Listed(Tail(todo)) /\ Unsaid(Tail(todo), [report EXCEPT ![s] = x])
    BY <1>1, <1>2, SaidOnce, Taken DEF RunTyped
  <1>5. Orderly'
    BY <1>1, <1>3, <1>4 DEF Orderly
  <1>6. Midway'
    BY <1>3 DEF Midway, InitMidway, AuthMidway, InitSteps, AuthSteps, Steps
  <1>7. RunTyped'
    <2>1. Tail(todo) \in Seq(Phases \X Services)
      BY <1>1, <1>2, HeadTailProperties DEF RunTyped
    <2> QED BY <1>2, <1>3, <2>1 DEF RunTyped, Modes, Steps
  <1> QED BY <1>1, <1>2, <1>3, <1>5, <1>6, <1>7 DEF RunTyped

\* The run goes to another step of the same.
LEMMA GoesTo ==
    ASSUME IInv, NEW phase, NEW s, NEW name, At(phase, s, name),
           UNCHANGED <<todo, mode, report>>, step' \in Steps,
           fresh' \in Passwords \cup {0}, previous' \in Passwords \cup {0},
           UNCHANGED <<loaded, cancelled>>,
           phase = "init" => InitMidway(s)',
           phase = "auth" => AuthMidway(s)',
           phase \notin {"load", "wait"}
    PROVE  Orderly' /\ Midway' /\ RunTyped'
  <1>1. /\ Head(todo)[1] = phase /\ Head(todo)[2] = s /\ Orderly
    BY AtFirst DEF IInv
  <1>2. RunTyped
    BY Typed DEF IInv
  <1>3. Orderly'
    BY <1>1 DEF Orderly
  <1>4. Midway'
    BY <1>1 DEF Midway
  <1>5. RunTyped'
    BY <1>2 DEF RunTyped
  <1> QED BY <1>3, <1>4, <1>5

\* A step is about one service, and what was said of the others stays so.
LEMMA OthersTold ==
    ASSUME IInv, NEW s \in Services,
           \A t \in Services \ {s} :
               /\ secret'[t] = secret[t] /\ held'[t] = held[t]
               /\ up'[t] = up[t] /\ report'[t] = report[t],
           s # QBittorrent => memory' = memory,
           report'[s] \in {"installed", "kept"} => Told(s)'
    PROVE  ReportedCredentialHolds'
  <1>1. \A t \in Services : Told(t)
    BY AllTold DEF IInv, EachTold
  <1>2. ASSUME NEW t \in Services PROVE Told(t)'
    <2>1. CASE t = s
      BY <2>1 DEF Told
    <2>2. CASE t # s
      BY <1>1, <2>2 DEF Told, Whole
    <2> QED BY <2>1, <2>2
  <1>3. EachTold'
    BY <1>2 DEF EachTold
  <1>4. ReportedCredentialHolds'
    BY <1>3, AllTold, PTL
  <1> QED BY <1>4

\* The four parts of the type make the whole of the next state's.
LEMMA NextTyped ==
    ASSUME DiskTyped', WorldTyped', RunTyped', BoundsTyped' PROVE TypeOK'
  BY DEF TypeOK, DiskTyped, WorldTyped, RunTyped, BoundsTyped

\* A step changes the files and the container of one service only.
Elsewhere(s) ==
    /\ DiskTyped' /\ WorldTyped'
    /\ \A t \in Services \ {s} :
         secret'[t] = secret[t] /\ held'[t] = held[t] /\ up'[t] = up[t]
    /\ s # QBittorrent => memory' = memory

\* A container stops: qBittorrent writes what it holds to its store.
LEMMA StoppedDoes ==
    ASSUME TypeOK, NEW s \in Services, Stopped(s), UNCHANGED <<secret, stamp, apiKey>>
    PROVE  Elsewhere(s) /\ ~up'[s]
  <1>1. DiskTyped /\ WorldTyped
    BY Typed
  <1>2. up' = [up EXCEPT ![s] = FALSE] /\ liveKey' = liveKey
    BY DEF Stopped
  <1>3. CASE s = QBittorrent /\ up[s]
    <2>1. memory' = 0 /\ held' = [held EXCEPT ![s] = memory]
      BY <1>3 DEF Stopped
    <2> QED BY <1>1, <1>2, <1>3, <2>1 DEF DiskTyped, WorldTyped, Elsewhere
  <1>4. CASE ~(s = QBittorrent /\ up[s])
    <2>1. UNCHANGED <<memory, held>>
      BY <1>4 DEF Stopped
    <2> QED BY <1>1, <1>2, <2>1 DEF DiskTyped, WorldTyped, Elsewhere
  <1> QED BY <1>3, <1>4

\* A container starts: qBittorrent reads its store, and an Arr its key.
LEMMA StartedDoes ==
    ASSUME TypeOK, NEW s \in Services, Started(s), UNCHANGED <<secret, held, stamp>>
    PROVE  /\ Elsewhere(s) /\ up'[s]
           /\ s = QBittorrent /\ ~up[s] => memory' = held[s]
  <1>1. DiskTyped /\ WorldTyped
    BY Typed
  <1>2. /\ up' = [up EXCEPT ![s] = TRUE]
        /\ memory' = IF s = QBittorrent /\ ~up[s] THEN held[s] ELSE memory
    BY DEF Started
  <1>3. apiKey' \in [ArrSet -> Keys \cup {0}] /\ liveKey' \in [ArrSet -> Keys]
    <2>1. CASE s \in ArrSet /\ ~up[s]
      <3>1. PICK k \in Keys : /\ liveKey' = [liveKey EXCEPT ![s] = k]
                              /\ apiKey' = [apiKey EXCEPT ![s] = k]
        BY <2>1 DEF Started
      <3> QED BY <1>1, <2>1, <3>1 DEF DiskTyped, WorldTyped
    <2>2. CASE ~(s \in ArrSet /\ ~up[s])
      <3>1. UNCHANGED <<liveKey, apiKey>>
        BY <2>2 DEF Started
      <3> QED BY <1>1, <3>1 DEF DiskTyped, WorldTyped
    <2> QED BY <2>1, <2>2
  <1> QED BY <1>1, <1>2, <1>3 DEF DiskTyped, WorldTyped, Elsewhere

\* A store gets a password.
LEMMA EditedDoes ==
    ASSUME TypeOK, NEW s \in Services, NEW p \in Passwords \cup {0}, Edited(s, p),
           UNCHANGED secret
    PROVE  Elsewhere(s) /\ held'[s] = p /\ UNCHANGED <<up, memory>>
  <1>1. DiskTyped /\ WorldTyped
    BY Typed
  <1> QED BY <1>1 DEF Edited, DiskTyped, WorldTyped, world, Elsewhere

\* A recovery file gets a password.
LEMMA SecretWritten ==
    ASSUME TypeOK, NEW s \in Services, NEW p \in Passwords \cup {0},
           secret' = [secret EXCEPT ![s] = p], UNCHANGED <<held, stamp, apiKey, world>>
    PROVE  Elsewhere(s) /\ secret'[s] = p
  <1>1. DiskTyped /\ WorldTyped
    BY Typed
  <1> QED BY <1>1 DEF DiskTyped, WorldTyped, world, Elsewhere

\* Nothing but an init stamp changes outside the run.
LEMMA SameWorld ==
    ASSUME TypeOK, NEW s \in Services, UNCHANGED <<secret, held, apiKey, world>>,
           stamp' \in [Services -> {"absent", "current", "pending"}]
    PROVE  Elsewhere(s)
  BY Typed DEF DiskTyped, WorldTyped, world, Elsewhere

\* Failures and rotations are counted within their bounds.
LEMMA Counted ==
    ASSUME TypeOK, Fails \/ WriteFails \/ Works \/ UNCHANGED faults, UNCHANGED rotations
    PROVE  BoundsTyped'
  <1>1. MaxFaults \in Nat /\ faults \in 0..MaxFaults /\ rotations \in 0..MaxRotations
    BY Pools DEF TypeOK
  <1>2. faults' = faults \/ (faults < MaxFaults /\ faults' = faults + 1)
    BY DEF Fails, WriteFails, Works
  <1>3. faults' \in 0..MaxFaults
    BY <1>1, <1>2
  <1> QED BY <1>1, <1>3 DEF BoundsTyped

\* A phase of a service ends.
LEMMA Ends ==
    ASSUME IInv, NEW phase, NEW s, NEW name, At(phase, s, name), NEW x \in Reports, GoOn(s, x),
           \/ phase \in {"init", "auth"}
           \/ phase = "runtime" /\ x \in {report[s], "failed"},
           Elsewhere(s), BoundsTyped',
           x = "installed" => Whole(s)',
           x = "kept" => (secret'[s] # 0 /\ secret'[s] = held'[s]) \/ s = Filebrowser
    PROVE  IInv'
  <1>1. /\ Orderly' /\ Midway' /\ RunTyped'
        /\ report'[s] = x /\ \A t \in Services \ {s} : report'[t] = report[t]
    BY GoesOn
  <1>2. TypeOK'
    BY <1>1, NextTyped DEF Elsewhere
  <1>3. s \in Services
    BY AtFirst
  <1>4. report'[s] \in {"installed", "kept"} => Told(s)'
    BY <1>1 DEF Told
  <1>5. ReportedCredentialHolds'
    BY <1>1, <1>3, <1>4, OthersTold DEF Elsewhere
  <1> QED BY <1>1, <1>2, <1>5 DEF IInv

\* A phase of a service goes to its next step.
LEMMA Moves ==
    ASSUME IInv, NEW phase \in {"init", "auth", "runtime"}, NEW s, NEW name, At(phase, s, name),
           UNCHANGED <<mode, todo, loaded, cancelled, report>>, step' \in Steps,
           fresh' \in Passwords \cup {0}, previous' \in Passwords \cup {0},
           phase = "init" => InitMidway(s)',
           phase = "auth" => AuthMidway(s)',
           Elsewhere(s), BoundsTyped'
    PROVE  IInv'
  <1>1. Orderly' /\ Midway' /\ RunTyped'
    BY GoesTo
  <1>2. TypeOK'
    BY <1>1, NextTyped DEF Elsewhere
  <1>3. s \in Services /\ report[s] \in {"none", "failed"}
    BY AtFirst
  <1>4. ReportedCredentialHolds'
    BY <1>3, OthersTold DEF Elsewhere
  <1> QED BY <1>1, <1>2, <1>4 DEF IInv

\* What is so of the passwords of a run between its steps.
LEMMA Remembered ==
    ASSUME IInv
    PROVE  /\ fresh \in Passwords \cup {0} /\ previous \in Passwords \cup {0}
           /\ TypeOK /\ {"none", "kept", "installed", "deferred", "failed"} = Reports
  BY DEF IInv, TypeOK, Reports

-----------------------------------------------------------------------------
(* The steps of qBittorrent and File Browser.                               *)

\* A rotation begins with a new password.
LEMMA Replaces ==
    ASSUME IInv, NEW s \in Services, Replace(s)
    PROVE  /\ fresh' \in Passwords \cup {0} /\ fresh' # 0 /\ previous' \in Passwords \cup {0}
           /\ UNCHANGED <<mode, todo, loaded, cancelled, report>>
  BY UnusedType DEF IInv, TypeOK, Replace

\* The beginning of the init phase of either.
LEMMA BeginKeeps ==
    ASSUME IInv, NEW s \in {QBittorrent, Filebrowser}, At("init", s, "begin"),
           UNCHANGED <<secret, held, apiKey, world, rotations>>,
           WriteFails \/ UNCHANGED faults,
           stamp' \in [Services -> {"absent", "current", "pending"}],
           \/ \E x \in {"deferred", "failed"} : GoOn(s, x)
           \/ (s = QBittorrent => qbtManagedCredentialMatches) /\ GoOn(s, "kept")
           \/ Goto("provision")
           \/ mode = "rotate" /\ Replace(s) /\ step' = "stop"
    PROVE  IInv'
  <1>1. s \in Services
    BY Names
  <1>2. Elsewhere(s) /\ BoundsTyped'
    BY <1>1, Remembered, SameWorld, Counted
  <1>3. CASE \E x \in {"deferred", "failed"} : GoOn(s, x)
    BY <1>2, <1>3, Ends, Remembered
  <1>4. CASE (s = QBittorrent => qbtManagedCredentialMatches) /\ GoOn(s, "kept")
    <2>1. s = Filebrowser \/ (secret'[s] # 0 /\ secret'[s] = held'[s])
      BY <1>4 DEF qbtManagedCredentialMatches
    <2> QED BY <1>2, <1>4, <2>1, Ends, Remembered
  <1>5. CASE Goto("provision")
    <2>1. InitMidway(s)'
      BY <1>5 DEF Goto, InitMidway, InitSteps, Steps
    <2> QED BY <1>2, <1>5, <2>1, Moves, Remembered DEF Goto, Steps
  <1>6. CASE mode = "rotate" /\ Replace(s) /\ step' = "stop"
    <2>1. /\ fresh' \in Passwords \cup {0} /\ fresh' # 0 /\ previous' \in Passwords \cup {0}
          /\ UNCHANGED <<mode, todo, loaded, cancelled, report>>
      BY <1>1, <1>6, Replaces
    <2>2. InitMidway(s)'
      BY <1>6, <2>1 DEF InitMidway, InitSteps, Steps
    <2> QED BY <1>2, <1>6, <2>1, <2>2, Moves DEF Steps
  <1> QED BY <1>3, <1>4, <1>5, <1>6

LEMMA QbtBeginKeeps == ASSUME IInv, QbtBegin PROVE IInv'
  <1> DEFINE s == QBittorrent
  <1>1. /\ At("init", s, "begin")
        /\ UNCHANGED <<secret, held, apiKey, world, rotations>>
        /\ WriteFails \/ UNCHANGED faults
    BY DEF QbtBegin, Marked, MarkFails
  <1>2. stamp' \in [Services -> {"absent", "current", "pending"}]
    BY Names DEF QbtBegin, Marked, MarkFails, IInv, TypeOK
  <1>3. \/ \E x \in {"deferred", "failed"} : GoOn(s, x)
        \/ qbtManagedCredentialMatches /\ GoOn(s, "kept")
        \/ Goto("provision")
        \/ mode = "rotate" /\ Replace(s) /\ step' = "stop"
    BY DEF QbtBegin, MarkFails
  <1> QED BY <1>1, <1>2, <1>3, BeginKeeps

LEMMA FbBeginKeeps == ASSUME IInv, FbBegin PROVE IInv'
  <1> DEFINE s == Filebrowser
  <1>1. /\ At("init", s, "begin")
        /\ UNCHANGED <<secret, held, apiKey, world, rotations>>
        /\ WriteFails \/ UNCHANGED faults
    BY DEF FbBegin, Marked, MarkFails
  <1>2. stamp' \in [Services -> {"absent", "current", "pending"}]
    BY Names DEF FbBegin, Marked, MarkFails, IInv, TypeOK
  <1>3. \/ \E x \in {"deferred", "failed"} : GoOn(s, x)
        \/ GoOn(s, "kept")
        \/ Goto("provision")
        \/ mode = "rotate" /\ Replace(s) /\ step' = "stop"
    BY DEF FbBegin, MarkFails
  <1> QED BY <1>1, <1>2, <1>3, BeginKeeps, Names

\* A phase goes to its next step and remembers what it did.
LEMMA GoesThere ==
    ASSUME IInv, NEW phase \in {"init", "auth", "runtime"}, NEW s, NEW name, At(phase, s, name),
           NEW then \in Steps, Goto(then),
           phase = "init" => InitMidway(s)',
           phase = "auth" => AuthMidway(s)',
           Elsewhere(s), BoundsTyped'
    PROVE  IInv'
  <1>1. /\ UNCHANGED <<mode, todo, fresh, previous, loaded, cancelled, report>> /\ step' = then
        /\ fresh \in Passwords \cup {0} /\ previous \in Passwords \cup {0}
    BY Remembered DEF Goto
  <1> QED BY <1>1, Moves

\* The recovery file as it is, or a new one, or none.
LEMMA ReadOrCreateKeeps ==
    ASSUME IInv, NEW phase \in {"init", "auth"}, NEW s, NEW then \in Steps,
           readOrCreateSecret(s, phase, then),
           phase = "init" => then = "stop", phase = "auth" => then = "start"
    PROVE  IInv'
  <1>1. At(phase, s, "provision") /\ UNCHANGED <<held, stamp, apiKey, world, rotations>>
    BY DEF readOrCreateSecret
  <1>2. s \in Services /\ TypeOK
    BY <1>1, AtFirst, Remembered
  <1>3. CASE /\ fresh' = IF secret[s] # 0 THEN secret[s] ELSE Unused(s)
             /\ secret' = [secret EXCEPT ![s] = fresh']
             /\ step' = then
             /\ UNCHANGED <<mode, todo, previous, loaded, cancelled, report, faults>>
    <2>1. fresh' \in Passwords \cup {0} /\ fresh' # 0
      BY <1>2, <1>3, UnusedType DEF TypeOK
    <2>2. Elsewhere(s) /\ secret'[s] = fresh'
      BY <1>1, <1>2, <1>3, <2>1, SecretWritten
    <2>3. BoundsTyped'
      BY <1>1, <1>2, <1>3, Counted
    <2>4. phase = "init" => InitMidway(s)'
      BY <1>3, <2>1, <2>2 DEF InitMidway, InitSteps, Steps
    <2>5. phase = "auth" => AuthMidway(s)'
      BY <1>3, <2>1, <2>2 DEF AuthMidway, AuthSteps
    <2>6. previous' \in Passwords \cup {0} /\ step' \in Steps
      BY <1>3, Remembered
    <2>7. UNCHANGED <<mode, todo, loaded, cancelled, report>>
      BY <1>3
    <2> QED BY <1>1, <2>1, <2>2, <2>3, <2>4, <2>5, <2>6, <2>7, Moves
  <1>4. CASE WriteFails /\ GoOn(s, "failed") /\ UNCHANGED secret
    <2>1. Elsewhere(s) /\ BoundsTyped'
      BY <1>1, <1>2, <1>4, SameWorld, Counted DEF TypeOK
    <2> QED BY <1>1, <1>4, <2>1, Ends, Remembered
  <1> QED BY <1>3, <1>4 DEF readOrCreateSecret

\* The container is stopped, or not, or perhaps.
LEMMA StopKeeps ==
    ASSUME IInv, NEW s \in {QBittorrent, Filebrowser}, dockerComposeStop(s) PROVE IInv'
  <1>1. At("init", s, "stop") /\ UNCHANGED <<secret, stamp, apiKey, rotations>>
    BY DEF dockerComposeStop
  <1>2. s \in Services /\ TypeOK /\ InitMidway(s) /\ step = "stop"
    BY <1>1, AtFirst, Remembered
  <1>3. CASE Works /\ Stopped(s) /\ Goto("edit")
    <2>1. Elsewhere(s) /\ ~up'[s] /\ BoundsTyped'
      BY <1>1, <1>2, <1>3, StoppedDoes, Counted
    <2>2. InitMidway(s)'
      BY <1>1, <1>2, <1>3, <2>1 DEF InitMidway, InitSteps, Steps, Goto
    <2> QED BY <1>1, <1>3, <2>1, <2>2, GoesThere DEF Steps
  <1>4. CASE Fails /\ GoOn(s, "failed") /\ (Stopped(s) \/ UNCHANGED <<held, world>>)
    <2>1. Elsewhere(s)
      BY <1>1, <1>2, <1>4, StoppedDoes, SameWorld DEF TypeOK
    <2>2. BoundsTyped'
      BY <1>1, <1>2, <1>4, Counted
    <2> QED BY <1>1, <1>4, <2>1, <2>2, Ends, Remembered
  <1> QED BY <1>3, <1>4 DEF dockerComposeStop

\* The store of the stopped service gets the new password, or the service is
\* started as it is.
LEMMA EditKeeps ==
    ASSUME IInv, NEW s \in {QBittorrent, Filebrowser}, At("init", s, "edit"),
           UNCHANGED <<secret, rotations>>, Fails \/ WriteFails \/ Works \/ UNCHANGED faults,
           \/ Edited(s, fresh) /\ Goto(IF mode = "rotate" THEN "persist" ELSE "start")
           \/ /\ Goto("restart")
              /\ Edited(s, fresh) \/ UNCHANGED <<held, stamp, apiKey, world>>
    PROVE  IInv'
  <1>1. s \in Services /\ TypeOK /\ InitMidway(s) /\ step = "edit" /\ mode # "idle"
    BY AtFirst, Remembered
  <1>2. BoundsTyped' /\ fresh \in Passwords \cup {0} /\ mode \in {"ordinary", "rotate"}
    BY <1>1, Counted DEF TypeOK, Modes
  <1>3. CASE Edited(s, fresh) /\ Goto(IF mode = "rotate" THEN "persist" ELSE "start")
    <2>1. Elsewhere(s) /\ held'[s] = fresh /\ UNCHANGED <<up, memory>>
      BY <1>1, <1>2, <1>3, EditedDoes
    <2>2. InitMidway(s)'
      <3>1. CASE mode = "rotate"
        BY <1>1, <1>3, <2>1, <3>1 DEF InitMidway, InitSteps, Steps, Goto
      <3>2. CASE mode = "ordinary"
        BY <1>1, <1>3, <2>1, <3>2 DEF InitMidway, InitSteps, Steps, Goto
      <3> QED BY <1>2, <3>1, <3>2
    <2> QED BY <1>2, <1>3, <2>1, <2>2, GoesThere DEF Steps
  <1>4. CASE /\ Goto("restart")
             /\ Edited(s, fresh) \/ UNCHANGED <<held, stamp, apiKey, world>>
    <2>1. Elsewhere(s)
      BY <1>1, <1>2, <1>4, EditedDoes, SameWorld DEF TypeOK
    <2>2. InitMidway(s)'
      BY <1>1, <1>4 DEF InitMidway, InitSteps, Steps, Goto
    <2> QED BY <1>2, <1>4, <2>1, <2>2, GoesThere DEF Steps
  <1> QED BY <1>3, <1>4

LEMMA QbtEditKeeps == ASSUME IInv, QbtEdit PROVE IInv'
  BY EditKeeps DEF QbtEdit

LEMMA FbEditKeeps == ASSUME IInv, FbEdit PROVE IInv'
  BY EditKeeps DEF FbEdit

\* A recovery file is replaced by the password the store holds already.
LEMMA PersistKeeps ==
    ASSUME IInv, NEW s \in {QBittorrent, Filebrowser}, Persist(s) PROVE IInv'
  <1>1. At("init", s, "persist") /\ UNCHANGED <<held, stamp, apiKey, world, rotations>>
    BY DEF Persist
  <1>2. s \in Services /\ TypeOK /\ InitMidway(s) /\ step = "persist"
    BY <1>1, AtFirst, Remembered
  <1>3. CASE secret' = [secret EXCEPT ![s] = fresh] /\ Goto("start") /\ UNCHANGED faults
    <2>1. Elsewhere(s) /\ secret'[s] = fresh /\ BoundsTyped'
      BY <1>1, <1>2, <1>3, SecretWritten, Counted, Remembered
    <2>2. InitMidway(s)'
      BY <1>1, <1>2, <1>3, <2>1 DEF InitMidway, InitSteps, Steps, Goto, world
    <2> QED BY <1>1, <1>3, <2>1, <2>2, GoesThere DEF Steps
  <1>4. CASE WriteFails /\ Goto("revert") /\ UNCHANGED secret
    <2>1. Elsewhere(s) /\ BoundsTyped'
      BY <1>1, <1>2, <1>4, SameWorld, Counted DEF TypeOK
    <2>2. InitMidway(s)'
      BY <1>1, <1>2, <1>4 DEF InitMidway, InitSteps, Steps, Goto
    <2> QED BY <1>1, <1>4, <2>1, <2>2, GoesThere DEF Steps
  <1> QED BY <1>3, <1>4 DEF Persist

\* A store is put back, or not.
LEMMA RevertKeeps ==
    ASSUME IInv, NEW s \in {QBittorrent, Filebrowser}, NEW name \in {"revert", "rollbackStore"},
           NEW then \in {"restart", "rollbackSecret"}, Revert(s, name, then)
    PROVE  IInv'
  <1>1. At("init", s, name) /\ UNCHANGED <<secret, rotations>> /\ Goto(then)
    BY DEF Revert
  <1>2. s \in Services /\ TypeOK /\ InitMidway(s) /\ step = name
    BY <1>1, AtFirst, Remembered
  <1>3. BoundsTyped'
    BY <1>1, <1>2, Counted DEF Revert
  <1>4. Elsewhere(s)
    <2>1. CASE Edited(s, previous)
      BY <1>1, <1>2, <2>1, EditedDoes, Remembered
    <2>2. CASE UNCHANGED <<held, stamp, apiKey, world>>
      BY <1>1, <1>2, <2>2, SameWorld DEF TypeOK
    <2> QED BY <2>1, <2>2 DEF Revert
  <1>5. InitMidway(s)'
    BY <1>1, <1>2 DEF InitMidway, InitSteps, Steps, Goto
  <1> QED BY <1>1, <1>3, <1>4, <1>5, GoesThere DEF Steps

\* The container is started.
LEMMA StartKeeps ==
    ASSUME IInv, NEW s \in {QBittorrent, Filebrowser}, Start(s) PROVE IInv'
  <1>1. At("init", s, "start") /\ UNCHANGED <<secret, held, stamp, rotations>>
    BY DEF Start
  <1>2. s \in Services /\ TypeOK /\ InitMidway(s) /\ step = "start"
    BY <1>1, AtFirst, Remembered
  <1>3. CASE Works /\ Started(s) /\ Goto("stamp")
    <2>1. /\ Elsewhere(s) /\ up'[s] /\ BoundsTyped'
          /\ s = QBittorrent /\ ~up[s] => memory' = held[s]
      BY <1>1, <1>2, <1>3, StartedDoes, Counted
    <2>2. InitMidway(s)'
      BY <1>1, <1>2, <1>3, <2>1 DEF InitMidway, InitSteps, Steps, Goto, Whole
    <2> QED BY <1>1, <1>3, <2>1, <2>2, GoesThere DEF Steps
  <1>4. CASE /\ Fails
             /\ IF mode = "rotate" THEN Goto("rollbackStore") ELSE GoOn(s, "failed")
             /\ Started(s) \/ UNCHANGED <<apiKey, world>>
    <2>1. Elsewhere(s)
      BY <1>1, <1>2, <1>4, StartedDoes, SameWorld DEF TypeOK
    <2>2. BoundsTyped'
      BY <1>1, <1>2, <1>4, Counted
    <2>3. CASE Goto("rollbackStore")
      <3>1. InitMidway(s)'
        BY <1>2, <2>3 DEF InitMidway, InitSteps, Steps, Goto
      <3> QED BY <1>1, <2>1, <2>2, <2>3, <3>1, GoesThere DEF Steps
    <2>4. CASE GoOn(s, "failed")
      BY <1>1, <2>1, <2>2, <2>4, Ends, Remembered
    <2> QED BY <1>4, <2>3, <2>4
  <1> QED BY <1>3, <1>4 DEF Start

\* A recovery file is rolled back, or not.
LEMMA RollbackSecretKeeps ==
    ASSUME IInv, NEW s \in {QBittorrent, Filebrowser}, RollbackSecret(s) PROVE IInv'
  <1>1. /\ At("init", s, "rollbackSecret") /\ Goto("restart")
        /\ UNCHANGED <<held, stamp, apiKey, world, rotations>>
    BY DEF RollbackSecret
  <1>2. s \in Services /\ TypeOK /\ InitMidway(s) /\ step = "rollbackSecret"
    BY <1>1, AtFirst, Remembered
  <1>3. Elsewhere(s)
    <2>1. CASE secret' = [secret EXCEPT ![s] = previous]
      BY <1>1, <1>2, <2>1, SecretWritten, Remembered
    <2>2. CASE UNCHANGED secret
      BY <1>1, <1>2, <2>2, SameWorld DEF TypeOK
    <2> QED BY <2>1, <2>2 DEF RollbackSecret
  <1>4. BoundsTyped'
    BY <1>1, <1>2, Counted DEF RollbackSecret
  <1>5. InitMidway(s)'
    BY <1>1, <1>2 DEF InitMidway, InitSteps, Steps, Goto
  <1> QED BY <1>1, <1>3, <1>4, <1>5, GoesThere DEF Steps

\* The container is started again and nobody looks.
LEMMA BestEffortKeeps ==
    ASSUME IInv, NEW s \in {QBittorrent, Filebrowser}, BestEffortStart(s) PROVE IInv'
  <1>1. /\ At("init", s, "restart") /\ GoOn(s, "failed")
        /\ UNCHANGED <<secret, held, stamp, rotations>>
        /\ \/ Works /\ Started(s)
           \/ Fails /\ UNCHANGED <<apiKey, world>>
    BY DEF BestEffortStart
  <1>2. s \in Services /\ TypeOK
    BY <1>1, AtFirst, Remembered
  <1>3. Elsewhere(s)
    BY <1>1, <1>2, StartedDoes, SameWorld DEF TypeOK
  <1>4. BoundsTyped'
    BY <1>1, <1>2, Counted
  <1> QED BY <1>1, <1>3, <1>4, Ends, Remembered

\* The stamp is written when the credential is whole.
LEMMA WriteStampKeeps ==
    ASSUME IInv, NEW s \in {QBittorrent, Filebrowser}, writeStamp(s) PROVE IInv'
  <1>1. /\ At("init", s, "stamp") /\ UNCHANGED <<secret, held, apiKey, world, rotations>>
    BY DEF writeStamp
  <1>2. s \in Services /\ TypeOK /\ InitMidway(s) /\ step = "stamp"
    BY <1>1, AtFirst, Remembered
  <1>3. CASE stamp' = [stamp EXCEPT ![s] = "current"] /\ GoOn(s, "installed") /\ UNCHANGED faults
    <2>1. Elsewhere(s) /\ BoundsTyped'
      BY <1>1, <1>2, <1>3, SameWorld, Counted DEF TypeOK
    <2>2. Whole(s)'
      BY <1>1, <1>2 DEF InitMidway, Whole, world
    <2> QED BY <1>1, <1>3, <2>1, <2>2, Ends, Remembered
  <1>4. CASE WriteFails /\ GoOn(s, "failed") /\ UNCHANGED stamp
    <2>1. Elsewhere(s) /\ BoundsTyped'
      BY <1>1, <1>2, <1>4, SameWorld, Counted DEF TypeOK
    <2> QED BY <1>1, <1>4, <2>1, Ends, Remembered
  <1> QED BY <1>3, <1>4 DEF writeStamp

-----------------------------------------------------------------------------
(* The steps of an Arr.                                                     *)

\* A service that rejects the key on disk is to be restarted.
LEMMA RuntimeProbeKeeps ==
    ASSUME IInv, NEW a \in ArrSet, RuntimeProbe(a) PROVE IInv'
  <1>1. At("runtime", a, "begin") /\ UNCHANGED <<disk, world, rotations>>
    BY DEF RuntimeProbe
  <1>2. a \in Services /\ TypeOK /\ report[a] \in {"none", "failed"}
    BY <1>1, AtFirst, Remembered
  <1>3. Elsewhere(a)
    BY <1>1, <1>2, SameWorld DEF TypeOK, disk
  <1>4. BoundsTyped'
    BY <1>1, <1>2, Counted DEF RuntimeProbe
  <1>5. GoOn(a, report[a]) \/ Goto("stop")
    BY DEF RuntimeProbe
  <1>6. CASE GoOn(a, report[a])
    BY <1>1, <1>2, <1>3, <1>4, <1>6, Ends, Remembered
  <1>7. CASE Goto("stop")
    BY <1>1, <1>3, <1>4, <1>7, GoesThere DEF Steps
  <1> QED BY <1>5, <1>6, <1>7

\* It is stopped, or not, or perhaps.
LEMMA RuntimeStopKeeps ==
    ASSUME IInv, NEW a \in ArrSet, RuntimeStop(a) PROVE IInv'
  <1>1. /\ At("runtime", a, "stop") /\ UNCHANGED <<secret, stamp, apiKey, rotations>>
        /\ \/ Works /\ Stopped(a) /\ Goto("start")
           \/ Fails /\ GoOn(a, "failed") /\ (Stopped(a) \/ UNCHANGED <<held, world>>)
    BY DEF RuntimeStop
  <1>2. a \in Services /\ TypeOK
    BY <1>1, AtFirst, Remembered
  <1>3. Elsewhere(a)
    BY <1>1, <1>2, StoppedDoes, SameWorld DEF TypeOK
  <1>4. BoundsTyped'
    BY <1>1, <1>2, Counted
  <1>5. CASE GoOn(a, "failed")
    BY <1>1, <1>3, <1>4, <1>5, Ends, Remembered
  <1>6. CASE Goto("start")
    BY <1>1, <1>3, <1>4, <1>6, GoesThere DEF Steps
  <1> QED BY <1>1, <1>5, <1>6

\* It is started, or not, or perhaps.
LEMMA RuntimeStartKeeps ==
    ASSUME IInv, NEW a \in ArrSet, RuntimeStart(a) PROVE IInv'
  <1>1. /\ At("runtime", a, "start") /\ UNCHANGED <<secret, held, stamp, rotations>>
        /\ \/ Works /\ Started(a) /\ Goto("verify")
           \/ Fails /\ GoOn(a, "failed") /\ (Started(a) \/ UNCHANGED <<apiKey, world>>)
    BY DEF RuntimeStart
  <1>2. a \in Services /\ TypeOK
    BY <1>1, AtFirst, Remembered
  <1>3. Elsewhere(a)
    BY <1>1, <1>2, StartedDoes, SameWorld DEF TypeOK
  <1>4. BoundsTyped'
    BY <1>1, <1>2, Counted
  <1>5. CASE GoOn(a, "failed")
    BY <1>1, <1>3, <1>4, <1>5, Ends, Remembered
  <1>6. CASE Goto("verify")
    BY <1>1, <1>3, <1>4, <1>6, GoesThere DEF Steps
  <1> QED BY <1>1, <1>5, <1>6

\* It accepts the key on disk, or does not in its time.
LEMMA RuntimePollKeeps ==
    ASSUME IInv, NEW a \in ArrSet, RuntimePoll(a) PROVE IInv'
  <1>1. /\ At("runtime", a, "verify") /\ UNCHANGED <<disk, world, rotations>>
        /\ GoOn(a, report[a]) \/ GoOn(a, "failed")
    BY DEF RuntimePoll
  <1>2. a \in Services /\ TypeOK /\ report[a] \in {"none", "failed"}
    BY <1>1, AtFirst, Remembered
  <1>3. Elsewhere(a)
    BY <1>1, <1>2, SameWorld DEF TypeOK, disk
  <1>4. BoundsTyped'
    BY <1>1, <1>2, Counted DEF RuntimePoll
  <1> QED BY <1>1, <1>2, <1>3, <1>4, Ends, Remembered

\* The authentication of an Arr begins with its recovery file.
LEMMA AuthBeginKeeps ==
    ASSUME IInv, NEW a \in ArrSet, AuthBegin(a) PROVE IInv'
  <1>1. /\ At("auth", a, "begin") /\ UNCHANGED <<disk, world, bounds>>
        /\ \/ Goto("provision")
           \/ GoOn(a, "failed")
           \/ mode = "rotate" /\ Replace(a) /\ step' = "start"
    BY DEF AuthBegin
  <1>2. a \in Services /\ TypeOK
    BY <1>1, AtFirst, Remembered
  <1>3. Elsewhere(a) /\ BoundsTyped'
    BY <1>1, <1>2, SameWorld, Counted DEF TypeOK, disk, bounds
  <1>4. CASE Goto("provision")
    <2>1. AuthMidway(a)'
      BY <1>4 DEF Goto, AuthMidway, AuthSteps
    <2> QED BY <1>1, <1>3, <1>4, <2>1, GoesThere DEF Steps
  <1>5. CASE GoOn(a, "failed")
    BY <1>1, <1>3, <1>5, Ends, Remembered
  <1>6. CASE mode = "rotate" /\ Replace(a) /\ step' = "start"
    <2>1. /\ fresh' \in Passwords \cup {0} /\ fresh' # 0 /\ previous' \in Passwords \cup {0}
          /\ UNCHANGED <<mode, todo, loaded, cancelled, report>>
      BY <1>2, <1>6, Replaces
    <2>2. AuthMidway(a)'
      BY <1>6, <2>1 DEF AuthMidway, AuthSteps
    <2> QED BY <1>1, <1>3, <1>6, <2>1, <2>2, Moves DEF Steps
  <1> QED BY <1>1, <1>4, <1>5, <1>6

\* A login with the recovery password shows that nothing is to be done.
LEMMA AuthReadKeeps ==
    ASSUME IInv, NEW a \in ArrSet, AuthRead(a) PROVE IInv'
  <1>1. /\ At("auth", a, "start") /\ UNCHANGED <<disk, world, rotations>>
        /\ \/ mode = "ordinary" /\ held[a] = fresh /\ GoOn(a, "kept")
           \/ Goto("put")
           \/ GoOn(a, "failed")
    BY DEF AuthRead
  <1>2. a \in Services /\ TypeOK /\ AuthMidway(a) /\ step = "start"
    BY <1>1, AtFirst, Remembered
  <1>3. Elsewhere(a)
    BY <1>1, <1>2, SameWorld DEF TypeOK, disk
  <1>4. BoundsTyped'
    BY <1>1, <1>2, Counted DEF AuthRead
  <1>5. CASE mode = "ordinary" /\ held[a] = fresh /\ GoOn(a, "kept")
    <2>1. secret'[a] # 0 /\ secret'[a] = held'[a]
      BY <1>1, <1>2, <1>5 DEF AuthMidway, disk
    <2> QED BY <1>1, <1>3, <1>4, <1>5, <2>1, Ends, Remembered
  <1>6. CASE Goto("put")
    <2>1. AuthMidway(a)'
      BY <1>1, <1>2, <1>6 DEF AuthMidway, AuthSteps, Goto, disk
    <2> QED BY <1>1, <1>3, <1>4, <1>6, <2>1, GoesThere DEF Steps
  <1>7. CASE GoOn(a, "failed")
    BY <1>1, <1>3, <1>4, <1>7, Ends, Remembered
  <1> QED BY <1>1, <1>5, <1>6, <1>7

\* The new password is put, or not, or perhaps.
LEMMA AuthPutKeeps ==
    ASSUME IInv, NEW a \in ArrSet, AuthPut(a) PROVE IInv'
  <1>1. /\ At("auth", a, "put") /\ UNCHANGED <<secret, rotations>>
        /\ Goto("verify") \/ GoOn(a, "failed")
        /\ Edited(a, fresh) \/ UNCHANGED <<held, stamp, apiKey, world>>
    BY DEF AuthPut
  <1>2. a \in Services /\ TypeOK /\ AuthMidway(a) /\ step = "put" /\ fresh \in Passwords \cup {0}
    BY <1>1, AtFirst, Remembered
  <1>3. Elsewhere(a)
    <2>1. CASE Edited(a, fresh)
      BY <1>1, <1>2, <2>1, EditedDoes
    <2>2. CASE UNCHANGED <<held, stamp, apiKey, world>>
      BY <1>1, <1>2, <2>2, SameWorld DEF TypeOK
    <2> QED BY <1>1, <2>1, <2>2
  <1>4. BoundsTyped'
    BY <1>1, <1>2, Counted DEF AuthPut
  <1>5. CASE Goto("verify")
    <2>1. AuthMidway(a)'
      BY <1>1, <1>2, <1>5 DEF AuthMidway, AuthSteps, Goto
    <2> QED BY <1>1, <1>3, <1>4, <1>5, <2>1, GoesThere DEF Steps
  <1>6. CASE GoOn(a, "failed")
    BY <1>1, <1>3, <1>4, <1>6, Ends, Remembered
  <1> QED BY <1>1, <1>5, <1>6

\* A login a browser makes tells whether the password is in force.
LEMMA VerifyKeeps ==
    ASSUME IInv, NEW a \in ArrSet, verifyArrFormsCredential(a) PROVE IInv'
  <1>1. /\ At("auth", a, "verify") /\ UNCHANGED <<disk, world, rotations>>
        /\ \/ /\ up[a] /\ held[a] = fresh
              /\ \/ mode = "rotate" /\ Goto("persist")
                 \/ mode # "rotate" /\ GoOn(a, "installed")
           \/ GoOn(a, "failed")
    BY DEF verifyArrFormsCredential
  <1>2. /\ a \in Services /\ TypeOK /\ AuthMidway(a) /\ step = "verify" /\ mode # "idle"
        /\ a # QBittorrent
    BY <1>1, AtFirst, Remembered
  <1>3. Elsewhere(a)
    BY <1>1, <1>2, SameWorld DEF TypeOK, disk
  <1>4. BoundsTyped'
    BY <1>1, <1>2, Counted DEF verifyArrFormsCredential
  <1>5. CASE up[a] /\ held[a] = fresh /\ mode = "rotate" /\ Goto("persist")
    <2>1. AuthMidway(a)'
      BY <1>1, <1>2, <1>5 DEF AuthMidway, AuthSteps, Goto, disk, world
    <2> QED BY <1>1, <1>3, <1>4, <1>5, <2>1, GoesThere DEF Steps
  <1>6. CASE up[a] /\ held[a] = fresh /\ mode # "rotate" /\ GoOn(a, "installed")
    <2>1. mode = "ordinary"
      BY <1>2, <1>6 DEF TypeOK, Modes
    <2>2. Whole(a)'
      BY <1>1, <1>2, <1>6, <2>1 DEF AuthMidway, Whole, disk, world
    <2> QED BY <1>1, <1>3, <1>4, <1>6, <2>2, Ends, Remembered
  <1>7. CASE GoOn(a, "failed")
    BY <1>1, <1>3, <1>4, <1>7, Ends, Remembered
  <1> QED BY <1>1, <1>5, <1>6, <1>7

\* The recovery file follows the password in force.
LEMMA AuthPersistKeeps ==
    ASSUME IInv, NEW a \in ArrSet, AuthPersist(a) PROVE IInv'
  <1>1. At("auth", a, "persist") /\ UNCHANGED <<held, stamp, apiKey, world, rotations>>
    BY DEF AuthPersist
  <1>2. /\ a \in Services /\ TypeOK /\ AuthMidway(a) /\ step = "persist" /\ a # QBittorrent
        /\ fresh \in Passwords \cup {0}
    BY <1>1, AtFirst, Remembered
  <1>3. CASE secret' = [secret EXCEPT ![a] = fresh] /\ GoOn(a, "installed") /\ UNCHANGED faults
    <2>1. Elsewhere(a) /\ secret'[a] = fresh /\ BoundsTyped'
      BY <1>1, <1>2, <1>3, SecretWritten, Counted
    <2>2. Whole(a)'
      BY <1>1, <1>2, <2>1 DEF AuthMidway, Whole, world
    <2> QED BY <1>1, <1>3, <2>1, <2>2, Ends, Remembered
  <1>4. CASE WriteFails /\ Goto("revert") /\ UNCHANGED secret
    <2>1. Elsewhere(a) /\ BoundsTyped'
      BY <1>1, <1>2, <1>4, SameWorld, Counted DEF TypeOK
    <2>2. AuthMidway(a)'
      BY <1>1, <1>2, <1>4 DEF AuthMidway, AuthSteps, Goto
    <2> QED BY <1>1, <1>4, <2>1, <2>2, GoesThere DEF Steps
  <1> QED BY <1>3, <1>4 DEF AuthPersist

\* The password in force is put back, or not.
LEMMA AuthRevertKeeps ==
    ASSUME IInv, NEW a \in ArrSet, AuthRevert(a) PROVE IInv'
  <1>1. /\ At("auth", a, "revert") /\ UNCHANGED <<secret, rotations>> /\ GoOn(a, "failed")
        /\ Edited(a, previous) \/ UNCHANGED <<held, stamp, apiKey, world>>
    BY DEF AuthRevert
  <1>2. a \in Services /\ TypeOK /\ previous \in Passwords \cup {0}
    BY <1>1, AtFirst, Remembered
  <1>3. Elsewhere(a)
    <2>1. CASE Edited(a, previous)
      BY <1>1, <1>2, <2>1, EditedDoes
    <2>2. CASE UNCHANGED <<held, stamp, apiKey, world>>
      BY <1>1, <1>2, <2>2, SameWorld DEF TypeOK
    <2> QED BY <1>1, <2>1, <2>2
  <1>4. BoundsTyped'
    BY <1>1, <1>2, Counted DEF AuthRevert
  <1> QED BY <1>1, <1>3, <1>4, Ends, Remembered

-----------------------------------------------------------------------------
(* The list of a run.                                                       *)

\* The Arrs are finitely many, and a list of some in their order is a list.
LEMMA InOrderIsList ==
    ASSUME NEW S \in SUBSET ArrSet, NEW names \in InOrder(S)
    PROVE  /\ names \in Seq(S)
           /\ \A i, j \in 1..Len(names) : names[i] = names[j] => i = j
  <1>1. IsFiniteSet(S) /\ Cardinality(S) \in Nat
    <2>1. Len(Arrs) \in Nat /\ Arrs \in [1..Len(Arrs) -> ArrSet]
      BY NamesAreDistinct, LenProperties
    <2>2. Arrs \in Surjection(1..Len(Arrs), ArrSet)
      BY <2>1 DEF Surjection, ArrSet
    <2>3. IsFiniteSet(1..Len(Arrs))
      BY <2>1, FS_Interval
    <2>4. IsFiniteSet(ArrSet)
      BY <2>2, <2>3, FS_Surjection
    <2>5. IsFiniteSet(S)
      BY <2>4, FS_Subset
    <2> QED BY <2>5, FS_CardinalityType
  <1> DEFINE n == Cardinality(S)
  <1>2. /\ names \in [1..n -> S]
        /\ \A i, j \in 1..n : i < j =>
             \E k, l \in 1..Len(Arrs) : k < l /\ names[i] = Arrs[k] /\ names[j] = Arrs[l]
    BY DEF InOrder
  <1> HIDE DEF n
  <1>3. n \in Nat
    BY <1>1 DEF n
  <1>4. names \in Seq(S) /\ Len(names) = n
    BY <1>2, <1>3
  <1>5. Len(Arrs) \in Nat
    BY NamesAreDistinct, LenProperties
  <1>6. ASSUME NEW i \in 1..n, NEW j \in 1..n, i < j PROVE names[i] # names[j]
    <2>1. PICK k \in 1..Len(Arrs), l \in 1..Len(Arrs) :
            k < l /\ names[i] = Arrs[k] /\ names[j] = Arrs[l]
      BY <1>2, <1>6
    <2>2. k # l
      BY <2>1, <1>5
    <2> QED BY <2>1, <2>2, NamesAreDistinct
  <1>7. \A i, j \in 1..n : names[i] = names[j] => i = j
    <2> TAKE i, j \in 1..n
    <2>1. i < j \/ j < i \/ i = j
      BY <1>3
    <2> QED BY <2>1, <1>6
  <1> QED BY <1>4, <1>7

\* What is to be done with the services in the order of their names.
LEMMA PairsAre ==
    ASSUME NEW S \in SUBSET ArrSet, NEW names \in Seq(S), NEW phase \in {"runtime", "auth"}
    PROVE  /\ Pairs(phase, names) \in Seq(Work)
           /\ Len(Pairs(phase, names)) = Len(names)
           /\ \A i \in 1..Len(names) :
                Pairs(phase, names)[i] = <<phase, names[i]>> /\ names[i] \in S
  <1>1. Len(names) \in Nat /\ \A i \in 1..Len(names) : names[i] \in S
    BY LenProperties, ElementOfSeq
  <1>2. \A i \in 1..Len(names) : <<phase, names[i]>> \in Work
    BY <1>1 DEF Work
  <1>3. Pairs(phase, names) = [i \in 1..Len(names) |-> <<phase, names[i]>>]
    BY DEF Pairs
  <1> QED BY <1>1, <1>2, <1>3

\* The list of what follows once the services are loaded.
LEMMA LoadedList ==
    ASSUME NEW S \in SUBSET ArrSet, NEW names \in InOrder(S)
    PROVE  LET list == Pairs("runtime", names) \o << <<"wait", QBittorrent>> >>
                       \o Pairs("auth", names)
           IN  Listed(list) /\ list # <<>>
               /\ \A i \in 1..Len(list) : list[i][1] \in {"runtime", "wait", "auth"}
  <1> DEFINE n == Len(names)
  <1> DEFINE one == Pairs("runtime", names)
  <1> DEFINE mid == << <<"wait", QBittorrent>> >>
  <1> DEFINE two == Pairs("auth", names)
  <1> DEFINE list == one \o mid \o two
  <1>1. /\ names \in Seq(S) /\ n \in Nat
        /\ \A i, j \in 1..n : names[i] = names[j] => i = j
    BY InOrderIsList, LenProperties
  <1>2. /\ one \in Seq(Work) /\ Len(one) = n
        /\ \A i \in 1..n : one[i] = <<"runtime", names[i]>> /\ names[i] \in S
    BY <1>1, PairsAre
  <1>3. /\ two \in Seq(Work) /\ Len(two) = n
        /\ \A i \in 1..n : two[i] = <<"auth", names[i]>>
    BY <1>1, PairsAre
  <1>4. mid \in Seq(Work) /\ Len(mid) = 1 /\ mid[1] = <<"wait", QBittorrent>>
    BY DEF Work
  <1> HIDE DEF one, mid, two, n
  <1>5. /\ one \o mid \in Seq(Work) /\ Len(one \o mid) = n + 1
        /\ \A i \in 1..(n + 1) : (one \o mid)[i] = IF i <= n THEN one[i] ELSE mid[i - n]
    <2>1. /\ one \o mid \in Seq(Work) /\ Len(one \o mid) = Len(one) + Len(mid)
          /\ \A i \in 1..(Len(one) + Len(mid)) :
               (one \o mid)[i] = IF i <= Len(one) THEN one[i] ELSE mid[i - Len(one)]
      BY <1>2, <1>4, ConcatProperties
    <2> QED BY <1>2, <1>4, <2>1
  <1>6. /\ list \in Seq(Work) /\ Len(list) = n + 1 + n
        /\ \A i \in 1..(n + 1 + n) :
             list[i] = IF i <= n + 1 THEN (one \o mid)[i] ELSE two[i - (n + 1)]
    <2> DEFINE start == one \o mid
    <2> HIDE DEF start
    <2>1. start \in Seq(Work) /\ Len(start) = n + 1
      BY <1>5 DEF start
    <2>2. /\ start \o two \in Seq(Work) /\ Len(start \o two) = Len(start) + Len(two)
          /\ \A i \in 1..(Len(start) + Len(two)) :
               (start \o two)[i] = IF i <= Len(start) THEN start[i] ELSE two[i - Len(start)]
      BY <1>3, <2>1, ConcatProperties
    <2> QED BY <1>3, <2>1, <2>2 DEF start
  <1> HIDE DEF list
  <1>7. ASSUME NEW i \in 1..Len(list)
        PROVE  \/ i \in 1..n /\ list[i] = <<"runtime", names[i]>>
               \/ i = n + 1 /\ list[i] = <<"wait", QBittorrent>>
               \/ i > n + 1 /\ i - (n + 1) \in 1..n
                  /\ list[i] = <<"auth", names[i - (n + 1)]>>
    <2>1. CASE i <= n
      <3>1. i \in 1..n /\ i \in 1..(n + 1) /\ i <= n + 1
        BY <1>1, <1>6, <2>1
      <3> QED BY <1>2, <1>5, <1>6, <2>1, <3>1
    <2>2. CASE i = n + 1
      <3>1. i \in 1..(n + 1) /\ ~(i <= n) /\ i <= n + 1 /\ i - n = 1
        BY <1>1, <1>6, <2>2
      <3> QED BY <1>4, <1>5, <1>6, <2>2, <3>1
    <2>3. CASE i > n + 1
      <3>1. i - (n + 1) \in 1..n /\ ~(i <= n + 1)
        BY <1>1, <1>6, <2>3
      <3> QED BY <1>3, <1>6, <2>3, <3>1
    <2> QED BY <1>1, <1>6, <2>1, <2>2, <2>3
  <1>8. ASSUME NEW i \in 1..Len(list), NEW j \in 1..Len(list), list[i] = list[j]
        PROVE  i = j
    <2>1. list[i][1] = list[j][1] /\ list[i][2] = list[j][2] /\ i \in Nat /\ j \in Nat
      BY <1>1, <1>6, <1>8
    <2>2. \/ i \in 1..n /\ list[i][1] = "runtime" /\ list[i][2] = names[i]
          \/ i = n + 1 /\ list[i][1] = "wait"
          \/ i - (n + 1) \in 1..n /\ list[i][1] = "auth" /\ list[i][2] = names[i - (n + 1)]
      BY <1>7
    <2>3. \/ j \in 1..n /\ list[j][1] = "runtime" /\ list[j][2] = names[j]
          \/ j = n + 1 /\ list[j][1] = "wait"
          \/ j - (n + 1) \in 1..n /\ list[j][1] = "auth" /\ list[j][2] = names[j - (n + 1)]
      BY <1>7
    <2>4. CASE list[i][1] = "runtime"
      BY <1>1, <2>1, <2>2, <2>3, <2>4
    <2>5. CASE list[i][1] = "wait"
      BY <2>1, <2>2, <2>3, <2>5
    <2>6. CASE list[i][1] = "auth"
      <3>1. /\ i - (n + 1) \in 1..n /\ j - (n + 1) \in 1..n
            /\ names[i - (n + 1)] = names[j - (n + 1)]
        BY <2>1, <2>2, <2>3, <2>6
      <3>2. i - (n + 1) = j - (n + 1)
        BY <1>1, <3>1
      <3> QED BY <1>1, <2>1, <3>2
    <2> QED BY <2>2, <2>4, <2>5, <2>6
  <1>9. ASSUME NEW i \in 1..Len(list), NEW j \in 1..Len(list), i < j
        PROVE  Rank[list[i][1]] <= Rank[list[j][1]]
    <2>1. \/ i <= n /\ list[i][1] = "runtime"
          \/ i = n + 1 /\ list[i][1] = "wait"
          \/ i > n + 1 /\ list[i][1] = "auth"
      BY <1>7
    <2>2. \/ j <= n /\ list[j][1] = "runtime"
          \/ j = n + 1 /\ list[j][1] = "wait"
          \/ j > n + 1 /\ list[j][1] = "auth"
      BY <1>7
    <2>3. i \in Nat /\ j \in Nat
      BY <1>1, <1>6
    <2> QED BY <1>1, <1>9, <2>1, <2>2, <2>3 DEF Rank
  <1>10. Listed(list)
    BY <1>6, <1>8, <1>9 DEF Listed
  <1>11. list # <<>>
    BY <1>1, <1>6, EmptySeq
  <1>12. \A i \in 1..Len(list) : list[i][1] \in {"runtime", "wait", "auth"}
    BY <1>7
  <1> QED BY <1>10, <1>11, <1>12 DEF list, one, mid, two

\* Where nothing changes that a report speaks of, it stays true.
LEMMA SaidStays ==
    ASSUME IInv, UNCHANGED <<secret, held, up, memory>>,
           report' \in {report, [s \in Services |-> "none"]}
    PROVE  ReportedCredentialHolds'
  <1>1. \A s \in Services : Told(s)
    BY AllTold DEF IInv, EachTold
  <1>2. ASSUME NEW s \in Services PROVE Told(s)'
    BY <1>1 DEF Told, Whole
  <1>3. EachTold'
    BY <1>2 DEF EachTold
  <1> QED BY <1>3, AllTold, PTL

\* A run ends without anything to do.
LEMMA EmptyList ==
    ASSUME NEW said PROVE Listed(<<>>) /\ Unsaid(<<>>, said)
  <1>1. <<>> \in Seq(Work) /\ Len(<<>>) = 0
    OBVIOUS
  <1>2. \A i \in 1..Len(<<>>) : FALSE
    BY <1>1
  <1> QED BY <1>1, <1>2 DEF Listed, Unsaid

\* Between runs there is nothing to do, whatever is reported.
LEMMA Between ==
    ASSUME IInv, mode = "idle", UNCHANGED run, report' \in [Services -> Reports]
    PROVE  Orderly' /\ Midway' /\ RunTyped'
  <1>1. todo = <<>> /\ RunTyped
    BY Typed DEF IInv, Orderly
  <1> QED BY <1>1, EmptyList DEF Orderly, Midway, RunTyped, run

\* A run that cannot go on is over.
LEMMA GivesUp ==
    ASSUME IInv, GiveUp, UNCHANGED <<disk, world, rotations>>, BoundsTyped' PROVE IInv'
  <1>1. Orderly' /\ Midway'
    BY EmptyList DEF GiveUp, Orderly, Midway
  <1>2. RunTyped'
    <2>1. <<>> \in Seq(Phases \X Services)
      OBVIOUS
    <2> QED BY <2>1, Typed DEF IInv, GiveUp, RunTyped, Modes, Steps
  <1>3. DiskTyped' /\ WorldTyped'
    BY Typed DEF IInv, DiskTyped, WorldTyped, disk, world
  <1>4. ReportedCredentialHolds'
    BY SaidStays DEF GiveUp, disk, world
  <1> QED BY <1>1, <1>2, <1>3, <1>4, NextTyped DEF IInv

\* The services are loaded: the rest of the run is known.
LEMMA LoadKeeps == ASSUME IInv, LoadServices PROVE IInv'
  <1> DEFINE present == {a \in ArrSet : apiKey[a] # 0}
  <1>1. At("load", QBittorrent, "begin") /\ UNCHANGED <<disk, world, rotations>>
    BY DEF LoadServices
  <1>2. TypeOK /\ \A a \in ArrSet : report[a] = "none"
    BY <1>1, AtFirst, Remembered
  <1>3. BoundsTyped'
    BY <1>1, <1>2, Counted DEF LoadServices
  <1>4. CASE GiveUp
    BY <1>1, <1>3, <1>4, GivesUp
  <1>5. CASE /\ loaded' = apiKey
             /\ \E names \in InOrder(present) :
                  todo' = Pairs("runtime", names)
                          \o << <<"wait", QBittorrent>> >> \o Pairs("auth", names)
             /\ UNCHANGED <<mode, step, fresh, previous, cancelled, report>>
    <2>1. PICK names \in InOrder(present) :
            todo' = Pairs("runtime", names) \o << <<"wait", QBittorrent>> >> \o Pairs("auth", names)
      BY <1>5
    <2>2. /\ Listed(todo') /\ todo' # <<>>
          /\ \A i \in 1..Len(todo') : todo'[i][1] \in {"runtime", "wait", "auth"}
      BY <2>1, LoadedList
    <2>3. \A i \in 1..Len(todo') : todo'[i] \in Work
      BY <2>2, ElementOfSeq DEF Listed
    <2>4. Unsaid(todo', report')
      <3> SUFFICES ASSUME NEW i \in 1..Len(todo')
                   PROVE  /\ todo'[i][1] \notin {"init", "load"}
                          /\ todo'[i][1] \in {"runtime", "auth"} => report'[todo'[i][2]] = "none"
        BY DEF Unsaid
      <3>1. todo'[i][1] \in {"runtime", "auth"} => todo'[i][2] \in ArrSet
        BY <2>3, WorkType
      <3> QED BY <1>2, <1>5, <2>2, <3>1
    <2>5. mode # "idle" /\ step = "begin"
      BY <1>1 DEF At
    <2>6. Orderly' /\ Midway'
      BY <1>5, <2>2, <2>4, <2>5
         DEF Orderly, Midway, InitMidway, AuthMidway, InitSteps, AuthSteps, Steps
    <2>7. Work \subseteq Phases \X Services
      BY WorkType
    <2>8. todo' \in Seq(Phases \X Services)
      BY <2>2, <2>7 DEF Listed
    <2>9. RunTyped'
      BY <1>2, <1>5, <2>8 DEF TypeOK, RunTyped
    <2>10. DiskTyped' /\ WorldTyped'
      BY <1>1, <1>2, Typed DEF DiskTyped, WorldTyped, disk, world
    <2>11. ReportedCredentialHolds'
      BY <1>1, <1>5, SaidStays DEF disk, world
    <2> QED BY <1>3, <2>6, <2>9, <2>10, <2>11, NextTyped DEF IInv
  <1> QED BY <1>4, <1>5 DEF LoadServices

\* All that is wanted answers, or the run is over.
LEMMA WaitKeeps == ASSUME IInv, WaitForServices PROVE IInv'
  <1>1. /\ At("wait", QBittorrent, "begin") /\ UNCHANGED <<disk, world, rotations>>
        /\ GoOn(QBittorrent, report[QBittorrent]) \/ GiveUp
    BY DEF WaitForServices
  <1>2. TypeOK /\ report[QBittorrent] \in Reports
    BY Names, Remembered DEF TypeOK
  <1>3. BoundsTyped'
    BY <1>1, <1>2, Counted DEF WaitForServices
  <1>4. CASE GiveUp
    BY <1>1, <1>3, <1>4, GivesUp
  <1>5. CASE GoOn(QBittorrent, report[QBittorrent])
    <2>1. Orderly' /\ Midway' /\ RunTyped'
      BY <1>1, <1>2, <1>5, GoesOn
    <2>2. DiskTyped' /\ WorldTyped'
      BY <1>1, <1>2, Typed DEF DiskTyped, WorldTyped, disk, world
    <2>3. report' = report
      BY <1>2, <1>5 DEF GoOn, TypeOK
    <2>4. ReportedCredentialHolds'
      BY <1>1, <2>3, SaidStays DEF disk, world
    <2> QED BY <1>3, <2>1, <2>2, <2>4, NextTyped DEF IInv
  <1> QED BY <1>1, <1>4, <1>5

-----------------------------------------------------------------------------
(* What happens around a run.                                               *)

\* A run begins: nothing is reported yet.
LEMMA RunBegins ==
    ASSUME IInv, NEW m \in {"ordinary", "rotate"}, runIntegrate(m) PROVE IInv'
  <1>1. /\ mode' = m /\ step' = "begin" /\ report' = [s \in Services |-> "none"]
        /\ loaded' = [a \in ArrSet |-> 0] /\ cancelled' = FALSE /\ fresh' = 0 /\ previous' = 0
        /\ todo' = << <<"init", QBittorrent>>, <<"init", Filebrowser>>, <<"load", QBittorrent>> >>
        /\ UNCHANGED <<disk, world, faults>>
    BY DEF runIntegrate
  <1>2. TypeOK
    BY Remembered
  <1>3. /\ todo' \in Seq(Work) /\ todo' \in Seq(Phases \X Services) /\ todo' # <<>>
        /\ Len(todo') = 3
    BY <1>1, Names DEF Work, Phases
  <1>4. /\ todo'[1] = <<"init", QBittorrent>> /\ todo'[2] = <<"init", Filebrowser>>
        /\ todo'[3] = <<"load", QBittorrent>>
        /\ \A i \in 1..Len(todo') : i = 1 \/ i = 2 \/ i = 3
    BY <1>1, <1>3
  <1>5. Listed(todo')
    <2>1. \A i, j \in 1..Len(todo') : todo'[i] = todo'[j] => i = j
      BY <1>4, Names
    <2>2. \A i, j \in 1..Len(todo') : i < j => Rank[todo'[i][1]] <= Rank[todo'[j][1]]
      BY <1>4 DEF Rank
    <2> QED BY <1>3, <2>1, <2>2 DEF Listed
  <1>6. Unsaid(todo', report')
    BY <1>1, <1>4, Names DEF Unsaid
  <1>7. Orderly' /\ Midway'
    BY <1>1, <1>3, <1>5, <1>6
       DEF Orderly, Midway, InitMidway, AuthMidway, InitSteps, AuthSteps, Steps
  <1>8. RunTyped'
    BY <1>1, <1>3 DEF RunTyped, Modes, Steps, Reports
  <1>9. DiskTyped' /\ WorldTyped'
    BY <1>1, <1>2, Typed DEF DiskTyped, WorldTyped, disk, world
  <1>10. BoundsTyped'
    <2>1. rotations' \in 0..MaxRotations
      BY <1>2, Pools DEF runIntegrate, TypeOK
    <2> QED BY <1>1, <1>2, <2>1 DEF BoundsTyped, TypeOK
  <1>11. ReportedCredentialHolds'
    BY <1>1, SaidStays DEF disk, world
  <1> QED BY <1>7, <1>8, <1>9, <1>10, <1>11, NextTyped DEF IInv

\* The command is interrupted.
LEMMA CancelKeeps == ASSUME IInv, Cancel PROVE IInv'
  <1>1. /\ cancelled' = TRUE
        /\ UNCHANGED <<disk, world, mode, todo, step, fresh, previous, loaded, report, rotations>>
    BY DEF Cancel
  <1>2. TypeOK
    BY Remembered
  <1>3. BoundsTyped'
    BY <1>1, <1>2, Counted DEF Cancel, WriteFails
  <1>4. DiskTyped' /\ WorldTyped' /\ RunTyped'
    BY <1>1, <1>2, Typed DEF DiskTyped, WorldTyped, RunTyped, disk, world
  <1>5. Orderly'
    BY <1>1 DEF IInv, Orderly
  <1>6. Midway'
    BY <1>1 DEF IInv, Midway, InitMidway, AuthMidway, Whole, disk, world
  <1>7. ReportedCredentialHolds'
    BY <1>1, SaidStays DEF disk, world
  <1> QED BY <1>3, <1>4, <1>5, <1>6, <1>7, NextTyped DEF IInv

\* The command is killed.
LEMMA CrashKeeps == ASSUME IInv, Crash PROVE IInv'
  <1>1. /\ mode' = "idle" /\ todo' = <<>> /\ step' = "begin"
        /\ fresh' = 0 /\ previous' = 0 /\ cancelled' = FALSE
        /\ loaded' = [a \in ArrSet |-> 0] /\ report' = [s \in Services |-> "none"]
        /\ UNCHANGED <<disk, world, rotations>>
    BY DEF Crash
  <1>2. TypeOK
    BY Remembered
  <1>3. BoundsTyped'
    BY <1>1, <1>2, Counted DEF Crash, WriteFails
  <1>4. RunTyped'
    <2>1. <<>> \in Seq(Phases \X Services)
      OBVIOUS
    <2> QED BY <1>1, <2>1 DEF RunTyped, Modes, Steps, Reports
  <1>5. DiskTyped' /\ WorldTyped'
    BY <1>1, <1>2, Typed DEF DiskTyped, WorldTyped, disk, world
  <1>6. Orderly' /\ Midway'
    BY <1>1, EmptyList DEF Orderly, Midway
  <1>7. ReportedCredentialHolds'
    BY <1>1, SaidStays DEF disk, world
  <1> QED BY <1>3, <1>4, <1>5, <1>6, <1>7, NextTyped DEF IInv

\* Somebody sets a password of a running service.
LEMMA OutsidePasswordKeeps ==
    ASSUME IInv, NEW s \in Services, OutsidePassword(s) PROVE IInv'
  <1>1. /\ mode = "idle" /\ UNCHANGED <<secret, stamp, apiKey, up, liveKey, run, rotations>>
        /\ held' = [held EXCEPT ![s] = Unused(s)]
        /\ memory' = IF s = QBittorrent THEN held'[s] ELSE memory
        /\ report' = [report EXCEPT ![s] = "none"]
    BY DEF OutsidePassword
  <1>2. TypeOK /\ Unused(s) \in Passwords
    BY Remembered, UnusedType
  <1>3. BoundsTyped'
    BY <1>1, <1>2, Counted DEF OutsidePassword, WriteFails
  <1>4. Elsewhere(s)
    BY <1>1, <1>2, Typed DEF DiskTyped, WorldTyped, Elsewhere
  <1>5. Orderly' /\ Midway' /\ RunTyped'
    BY <1>1, <1>2, Between, Remembered DEF TypeOK
  <1>6. /\ report'[s] = "none" /\ \A t \in Services \ {s} : report'[t] = report[t]
    BY <1>1, <1>2 DEF TypeOK
  <1>7. ReportedCredentialHolds'
    BY <1>4, <1>6, OthersTold DEF Elsewhere
  <1> QED BY <1>3, <1>4, <1>5, <1>7, NextTyped DEF IInv, Elsewhere

\* The key on the disk of an Arr changes beside its process.
LEMMA KeysKeep ==
    ASSUME IInv, mode = "idle", UNCHANGED <<secret, held, stamp, world, run, report, rotations>>,
           apiKey' \in [ArrSet -> Keys \cup {0}], WriteFails \/ UNCHANGED faults
    PROVE  IInv'
  <1>1. TypeOK
    BY Remembered
  <1>2. BoundsTyped'
    BY <1>1, Counted
  <1>3. DiskTyped' /\ WorldTyped'
    BY <1>1, Typed DEF DiskTyped, WorldTyped, world
  <1>4. Orderly' /\ Midway' /\ RunTyped'
    BY <1>1, Between DEF TypeOK
  <1>5. ReportedCredentialHolds'
    BY SaidStays DEF world
  <1> QED BY <1>2, <1>3, <1>4, <1>5, NextTyped DEF IInv

LEMMA OutsideKeyKeeps == ASSUME IInv, NEW a \in ArrSet, OutsideKey(a) PROVE IInv'
  <1>1. apiKey' \in [ArrSet -> Keys \cup {0}]
    BY DEF OutsideKey, IInv, TypeOK
  <1>2. /\ mode = "idle" /\ UNCHANGED <<secret, held, stamp, world, run, report, rotations>>
        /\ WriteFails
    BY DEF OutsideKey, WriteFails
  <1> QED BY <1>1, <1>2, KeysKeep

LEMMA EnsureKeeps == ASSUME IInv, EnsureArrAPIKeys PROVE IInv'
  <1>1. apiKey' \in [ArrSet -> Keys \cup {0}]
    BY DEF EnsureArrAPIKeys, IInv, TypeOK
  <1>2. /\ mode = "idle" /\ UNCHANGED <<secret, held, stamp, world, run, report, rotations>>
        /\ UNCHANGED faults
    BY DEF EnsureArrAPIKeys, bounds
  <1> QED BY <1>1, <1>2, KeysKeep

\* What qBittorrent holds in memory becomes what its file holds.
LEMMA RestartKeeps == ASSUME IInv, RestartQbt PROVE IInv'
  <1> DEFINE s == QBittorrent
  <1>1. /\ mode = "idle" /\ UNCHANGED <<secret, stamp, apiKey, world, run, bounds>>
        /\ held' = [held EXCEPT ![s] = memory] /\ report' = [report EXCEPT ![s] = "none"]
    BY DEF RestartQbt
  <1>2. TypeOK /\ s \in Services
    BY Remembered, Names
  <1>3. BoundsTyped'
    BY <1>1, <1>2, Counted DEF bounds
  <1>4. Elsewhere(s)
    BY <1>1, <1>2, Typed DEF DiskTyped, WorldTyped, Elsewhere, world
  <1>5. Orderly' /\ Midway' /\ RunTyped'
    BY <1>1, <1>2, Between, Remembered DEF TypeOK
  <1>6. /\ report'[s] = "none" /\ \A t \in Services \ {s} : report'[t] = report[t]
    BY <1>1, <1>2 DEF TypeOK
  <1>7. ReportedCredentialHolds'
    BY <1>2, <1>4, <1>6, OthersTold DEF Elsewhere
  <1> QED BY <1>3, <1>4, <1>5, <1>7, NextTyped DEF IInv, Elsewhere

\* What does not run is started.
LEMMA UpKeeps == ASSUME IInv, NEW s \in Services, Up(s) PROVE IInv'
  <1>1. /\ mode = "idle" /\ ~up[s] /\ Started(s)
        /\ UNCHANGED <<secret, held, stamp, run, report, bounds>>
    BY DEF Up
  <1>2. TypeOK
    BY Remembered
  <1>3. BoundsTyped'
    BY <1>1, <1>2, Counted DEF bounds
  <1>4. Elsewhere(s)
    BY <1>1, <1>2, StartedDoes
  <1>5. Orderly' /\ Midway' /\ RunTyped'
    BY <1>1, <1>2, Between DEF TypeOK
  <1>6. report'[s] \in {"installed", "kept"} => Told(s)'
    <2>1. Told(s)
      BY AllTold DEF IInv, EachTold
    <2> QED BY <1>1, <2>1 DEF Told, Whole
  <1>7. ReportedCredentialHolds'
    BY <1>1, <1>4, <1>6, OthersTold DEF Elsewhere
  <1> QED BY <1>3, <1>4, <1>5, <1>7, NextTyped DEF IInv, Elsewhere

\* The program may do nothing.
LEMMA StutterKeeps == ASSUME IInv, UNCHANGED vars PROVE IInv'
  <1>1. ReportedCredentialHolds'
    BY SaidStays DEF vars, disk, world
  <1>2. TypeOK'
    BY DEF IInv, TypeOK, vars, disk, world, run, bounds
  <1>3. Orderly' /\ Midway'
    BY DEF IInv, Orderly, Midway, InitMidway, AuthMidway, Whole, vars, disk, world, run
  <1> QED BY <1>1, <1>2, <1>3 DEF IInv

-----------------------------------------------------------------------------
(* The specification keeps the invariant.                                   *)

LEMMA Begins == Init => IInv
  <1> SUFFICES ASSUME Init PROVE IInv
    OBVIOUS
  <1>1. (CHOOSE p \in Passwords : TRUE) \in Passwords
    <2>1. \E p \in Passwords : p \notin {0, 0, 0}
      BY Pools
    <2> QED BY <2>1
  <1>2. TypeOK
    <2>1. <<>> \in Seq(Phases \X Services)
      OBVIOUS
    <2>2. DiskTyped
      <3>1. PICK k \in Keys : apiKey = [a \in ArrSet |-> k] /\ liveKey = apiKey
        BY DEF Init
      <3> QED BY <1>1, <3>1 DEF Init, DiskTyped
    <2>3. WorldTyped
      <3>1. PICK k \in Keys : apiKey = [a \in ArrSet |-> k] /\ liveKey = apiKey
        BY DEF Init
      <3>2. memory = CHOOSE p \in Passwords : TRUE
        BY Names DEF Init
      <3> QED BY <1>1, <3>1, <3>2 DEF Init, WorldTyped
    <2>4. RunTyped
      BY <2>1 DEF Init, RunTyped, Modes, Steps, Reports
    <2>5. BoundsTyped
      BY Pools DEF Init, BoundsTyped
    <2> QED BY <2>2, <2>3, <2>4, <2>5, Typed
  <1>3. Orderly /\ Midway
    BY EmptyList DEF Init, Orderly, Midway
  <1>4. ReportedCredentialHolds
    BY DEF Init, ReportedCredentialHolds
  <1> QED BY <1>2, <1>3, <1>4 DEF IInv

LEMMA InitStepKeeps == ASSUME IInv, InitStep PROVE IInv'
  <1>1. ASSUME NEW s \in {QBittorrent, Filebrowser},
               \/ readOrCreateSecret(s, "init", "stop") \/ dockerComposeStop(s)
               \/ RollbackSecret(s) \/ BestEffortStart(s) \/ writeStamp(s)
        PROVE  IInv'
    <2>1. CASE readOrCreateSecret(s, "init", "stop")
      <3>1. "stop" \in Steps /\ "init" \in {"init", "auth"}
        BY DEF Steps
      <3> QED BY <2>1, <3>1, ReadOrCreateKeeps
    <2> QED BY <1>1, <2>1, StopKeeps, RollbackSecretKeeps, BestEffortKeeps, WriteStampKeeps
  <1>2. CASE QbtPersist \/ FbPersist
    BY <1>2, PersistKeeps DEF QbtPersist, FbPersist
  <1>3. CASE QbtRevert \/ FbRevert \/ QbtRollback \/ FbRollback
    <2>1. CASE QbtRevert
      BY <2>1, RevertKeeps DEF QbtRevert
    <2>2. CASE FbRevert
      BY <2>2, RevertKeeps DEF FbRevert
    <2>3. CASE QbtRollback
      BY <2>3, RevertKeeps DEF QbtRollback
    <2>4. CASE FbRollback
      BY <2>4, RevertKeeps DEF FbRollback
    <2> QED BY <1>3, <2>1, <2>2, <2>3, <2>4
  <1>4. CASE QbtStart \/ FbStart
    BY <1>4, StartKeeps DEF QbtStart, FbStart
  <1> QED BY <1>1, <1>2, <1>3, <1>4, QbtBeginKeeps, FbBeginKeeps, QbtEditKeeps, FbEditKeeps
             DEF InitStep

LEMMA ArrStepKeeps == ASSUME IInv, ArrStep PROVE IInv'
  <1>1. ASSUME NEW a \in ArrSet,
               \/ RuntimeProbe(a) \/ RuntimeStop(a) \/ RuntimeStart(a) \/ RuntimePoll(a)
               \/ AuthBegin(a) \/ readOrCreateSecret(a, "auth", "start") \/ AuthRead(a)
               \/ AuthPut(a) \/ verifyArrFormsCredential(a) \/ AuthPersist(a) \/ AuthRevert(a)
        PROVE  IInv'
    <2>1. CASE readOrCreateSecret(a, "auth", "start")
      <3>1. "start" \in Steps /\ "auth" \in {"init", "auth"}
        BY DEF Steps
      <3> QED BY <2>1, <3>1, ReadOrCreateKeeps
    <2> QED BY <1>1, <2>1, RuntimeProbeKeeps, RuntimeStopKeeps, RuntimeStartKeeps,
               RuntimePollKeeps, AuthBeginKeeps, AuthReadKeeps, AuthPutKeeps, VerifyKeeps,
               AuthPersistKeeps, AuthRevertKeeps
  <1> QED BY <1>1, LoadKeeps, WaitKeeps DEF ArrStep

LEMMA Stays == IInv /\ [Next]_vars => IInv'
  <1> SUFFICES ASSUME IInv, [Next]_vars PROVE IInv'
    OBVIOUS
  <1>1. CASE Next
    BY <1>1, RunBegins, InitStepKeeps, ArrStepKeeps, CancelKeeps, CrashKeeps, EnsureKeeps,
       RestartKeeps, OutsidePasswordKeeps, UpKeeps, OutsideKeyKeeps DEF Next, RunStep
  <1>2. CASE UNCHANGED vars
    BY <1>2, StutterKeeps
  <1> QED BY <1>1, <1>2

LEMMA Inductive == Spec => []IInv
  <1> QED BY Begins, Stays, PTL DEF Spec

\* Whatever runs, fails or is changed beside the command, the state stays what
\* it is said to be.
THEOREM TypeCorrect == Spec => []TypeOK
  <1>1. IInv => TypeOK
    BY DEF IInv
  <1> QED BY <1>1, Inductive, PTL

\* What a run reports done of a credential is so, for any number of Arrs and
\* wherever failures, cancellations, crashes and changes from outside fall.
THEOREM ReportsAreTrue == Spec => []ReportedCredentialHolds
  <1>1. IInv => ReportedCredentialHolds
    BY DEF IInv
  <1> QED BY <1>1, Inductive, PTL

-----------------------------------------------------------------------------
(* What a step may do to a recovery file.                                   *)

\* A recovery file never runs ahead of its service: a password it had is
\* given up only for one that the service already holds, or in the rollback
\* of a failed start.
RecoveryStep ==
    \A s \in Services :
        secret'[s] # secret[s] /\ secret[s] # 0 /\ step # "rollbackSecret"
            => secret'[s] = held[s]

\* A recovery file is written by four steps only.
LEMMA SecretSteps ==
    ASSUME [Next]_vars
    PROVE  \/ UNCHANGED secret
           \/ \E s \in Services, phase \in Phases, then \in Steps : readOrCreateSecret(s, phase, then)
           \/ \E s \in {QBittorrent, Filebrowser} : Persist(s) \/ RollbackSecret(s)
           \/ \E a \in ArrSet : AuthPersist(a)
  <1>1. CASE InitStep
    <2>1. CASE \E s \in {QBittorrent, Filebrowser} :
                 \/ readOrCreateSecret(s, "init", "stop") \/ dockerComposeStop(s)
                 \/ RollbackSecret(s) \/ BestEffortStart(s) \/ writeStamp(s)
      BY <2>1, Names DEF dockerComposeStop, BestEffortStart, writeStamp, Phases, Steps
    <2>2. CASE QbtPersist \/ FbPersist
      BY <2>2 DEF QbtPersist, FbPersist
    <2>3. CASE \/ QbtBegin \/ FbBegin \/ QbtEdit \/ FbEdit \/ QbtRevert \/ FbRevert
               \/ QbtStart \/ FbStart \/ QbtRollback \/ FbRollback
      BY <2>3 DEF QbtBegin, FbBegin, QbtEdit, FbEdit, QbtRevert, FbRevert, Revert,
                  QbtStart, FbStart, Start, QbtRollback, FbRollback
    <2> QED BY <1>1, <2>1, <2>2, <2>3 DEF InitStep
  <1>2. CASE ArrStep
    <2>1. CASE LoadServices \/ WaitForServices
      BY <2>1 DEF LoadServices, WaitForServices, disk
    <2>2. ASSUME NEW a \in ArrSet,
                 \/ RuntimeProbe(a) \/ RuntimeStop(a) \/ RuntimeStart(a) \/ RuntimePoll(a)
                 \/ AuthBegin(a) \/ AuthRead(a) \/ AuthPut(a) \/ verifyArrFormsCredential(a)
                 \/ AuthRevert(a)
          PROVE  UNCHANGED secret
      BY <2>2 DEF RuntimeProbe, RuntimeStop, RuntimeStart, RuntimePoll, AuthBegin, AuthRead,
                  AuthPut, verifyArrFormsCredential, AuthRevert, disk
    <2>3. "auth" \in Phases /\ "start" \in Steps
      BY DEF Phases, Steps
    <2> QED BY <1>2, <2>1, <2>2, <2>3, Names DEF ArrStep
  <1>3. CASE \/ runIntegrate("ordinary") \/ runIntegrate("rotate")
             \/ Cancel \/ Crash \/ EnsureArrAPIKeys \/ RestartQbt
             \/ \E s \in Services : OutsidePassword(s) \/ Up(s)
             \/ \E a \in ArrSet : OutsideKey(a)
    BY <1>3 DEF runIntegrate, Cancel, Crash, EnsureArrAPIKeys, RestartQbt, OutsidePassword, Up,
                OutsideKey, disk
  <1>4. CASE UNCHANGED vars
    BY <1>4 DEF vars, disk
  <1> QED BY <1>1, <1>2, <1>3, <1>4 DEF Next, RunStep

LEMMA RecoveryKept == ASSUME IInv, [Next]_vars PROVE RecoveryStep
  <1> SUFFICES ASSUME NEW t \in Services,
                      secret'[t] # secret[t], secret[t] # 0, step # "rollbackSecret"
               PROVE  secret'[t] = held[t]
    BY DEF RecoveryStep
  <1>1. secret \in [Services -> Passwords \cup {0}]
    BY DEF IInv, TypeOK
  <1>2. CASE \E s \in Services, phase \in Phases, then \in Steps : readOrCreateSecret(s, phase, then)
    BY <1>1, <1>2 DEF readOrCreateSecret
  <1>3. ASSUME NEW s \in {QBittorrent, Filebrowser}, Persist(s) PROVE secret'[t] = held[t]
    <2>1. held[s] = fresh
      <3>1. At("init", s, "persist")
        BY <1>3 DEF Persist
      <3> QED BY <3>1, AtFirst DEF InitMidway
    <2> QED BY <1>1, <1>3, <2>1 DEF Persist
  <1>4. ASSUME NEW a \in ArrSet, AuthPersist(a) PROVE secret'[t] = held[t]
    <2>1. held[a] = fresh
      <3>1. At("auth", a, "persist")
        BY <1>4 DEF AuthPersist
      <3> QED BY <3>1, AtFirst DEF AuthMidway
    <2> QED BY <1>1, <1>4, <2>1 DEF AuthPersist
  <1>5. ~\E s \in {QBittorrent, Filebrowser} : RollbackSecret(s)
    BY DEF RollbackSecret, At
  <1> QED BY <1>2, <1>3, <1>4, <1>5, SecretSteps

\* No recovery file is replaced by a password that its service does not hold
\* already, except in the rollback of a failed start: a rotation that dies
\* leaves a store ahead of its recovery file and never the other way round.
THEOREM NoFileRunsAhead == Spec => RecoveryFollowsService
  <1>1. IInv /\ [Next]_vars => [RecoveryStep]_vars
    BY RecoveryKept
  <1>2. Spec => [][RecoveryStep]_vars
    BY <1>1, Inductive, PTL DEF Spec
  <1> QED BY <1>2 DEF RecoveryFollowsService, RecoveryStep
=============================================================================
