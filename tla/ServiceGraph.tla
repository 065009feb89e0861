---------------------------- MODULE ServiceGraph ----------------------------
(***************************************************************************)
(* From a catalog and a configuration to the services of a project and the  *)
(* order in which they are installed: src/internal/registry/resolver.go and *)
(* conditions.go over what registry.go finds in its sources.                *)
(*                                                                         *)
(* The resolver lists the definitions, keeps the candidates, follows their  *)
(* dependencies depth first and sorts the graph with Kahn's algorithm.  A   *)
(* step is one call of resolveService or one turn of the sort.  Names are    *)
(* numbers, so that sort.Strings is their order.  A source is read again    *)
(* for each service and may fail each time.                                 *)
(***************************************************************************)
EXTENDS Integers, FiniteSets, Sequences

CONSTANTS
    Names,      \* names of services, also of services nobody defines
    Missing,    \* no source defines the name
    Catalogs,   \* the catalogs that are looked at ...
    Configs     \* ... and the configurations

Selectors ==
    {"always", "addon", "vpn_enabled", "cloudflared", "plex_enabled", "jellyfin_enabled"}

Modes == {"lan", "direct", "cloudflared"}

Whens ==
    {"VPNEnabled", "not VPNEnabled", "lan", "not lan", "direct", "not direct",
     "cloudflared", "not cloudflared", "lan or direct"}

Configurations ==
    [vpn : BOOLEAN, mode : Modes, plex : BOOLEAN, jellyfin : BOOLEAN, addons : SUBSET Names]

Definitions ==
    [selector : Selectors, required : SUBSET Names, conditional : SUBSET (Names \X Whens)]

\* Whom the resolver calls resolveService for at the top.
Top == 0

ASSUME GraphAssumption ==
    /\ Names \subseteq Nat \ {Top}
    /\ IsFiniteSet(Names)
    /\ Missing \notin Definitions
    /\ Catalogs \subseteq [Names -> Definitions \cup {Missing}]
    /\ Configs \subseteq Configurations

VARIABLES
    catalog,     \* the first definition of each name, by priority of the sources
    config,      \* the project's configuration
    pc,          \* "list", "resolve", "sort", "done" or "failed"
    candidates,  \* the names Resolve still has to go through
    stack,       \* the calls of resolveService under way, the innermost first
    graph,       \* the services resolved
    errors,      \* <<s, n>>: n, which s needs, is not there; <<Top, Top>>: a cycle
    inDegree,    \* of each service, the dependencies not in the order yet
    queue,       \* services all of whose dependencies are in the order
    order        \* the installation order

input == <<catalog, config>>
walk == <<candidates, stack, graph>>
sorting == <<inDegree, queue, order>>
vars == <<input, pc, walk, errors, sorting>>

Frames == [name : Names, todo : SUBSET Names]

TypeOK ==
    /\ catalog \in [Names -> Definitions \cup {Missing}]
    /\ config \in Configurations
    /\ pc \in {"list", "resolve", "sort", "done", "failed"}
    /\ candidates \subseteq Names
    /\ stack \in Seq(Frames)
    /\ graph \subseteq Names
    /\ errors \subseteq (Names \cup {Top}) \X (Names \cup {Top})
    /\ inDegree \in [Names -> Nat]
    /\ queue \subseteq Names
    /\ order \in Seq(Names)

---------------------------------------------------------------------------
(* Activation and dependencies. *)

\* MatchesActivationConditions.
Active(n) ==
    CASE catalog[n].selector \in {"always", "addon"} -> TRUE
      [] catalog[n].selector = "vpn_enabled" -> config.vpn
      [] catalog[n].selector = "cloudflared" -> config.mode = "cloudflared"
      [] catalog[n].selector = "plex_enabled" -> config.plex
      [] catalog[n].selector = "jellyfin_enabled" -> config.jellyfin

\* evaluateDependencyCondition.
Holds(when) ==
    CASE when = "VPNEnabled" -> config.vpn
      [] when = "not VPNEnabled" -> ~config.vpn
      [] when = "lan or direct" -> config.mode \in {"lan", "direct"}
      [] when = "not lan" -> config.mode # "lan"
      [] when = "not direct" -> config.mode # "direct"
      [] when = "not cloudflared" -> config.mode # "cloudflared"
      [] OTHER -> config.mode = when

\* collectDependencies.
Dependencies(n) ==
    catalog[n].required \cup {d[1] : d \in {c \in catalog[n].conditional : Holds(c[2])}}

\* Mutated form: only required dependencies are put in order.
RequiredEdges(n) == catalog[n].required \cap graph

\* Those that topologicalSort orders by.
Edges(n) == Dependencies(n) \cap graph

Defined == {n \in Names : catalog[n] # Missing}

\* determineEnabledServices.
Candidates == {n \in Defined : catalog[n].selector = "addon" => n \in config.addons}

\* Mutated form: sort.Sort with the order reversed.
Last(S) == CHOOSE n \in S : \A m \in S : m <= n

\* What sort.Strings puts in front.
First(S) == CHOOSE n \in S : \A m \in S : n <= m

---------------------------------------------------------------------------

Init ==
    /\ catalog \in Catalogs
    /\ config \in Configs
    /\ pc = "list"
    /\ candidates = {}
    /\ stack = <<>>
    /\ graph = {}
    /\ errors = {}
    /\ inDegree = [n \in Names |-> 0]
    /\ queue = {}
    /\ order = <<>>

\* Mutated form: every service that is listed is a candidate.
ListAll ==
    /\ pc = "list"
    /\ pc' = "resolve"
    /\ candidates' = Defined
    /\ UNCHANGED <<input, stack, graph, errors, sorting>>

\* ListServices: one definition that cannot be read, or is not valid, fails them all.
List ==
    /\ pc = "list"
    /\ \/ pc' = "resolve" /\ candidates' = Candidates
       \/ pc' = "failed" /\ UNCHANGED candidates
    /\ UNCHANGED <<input, stack, graph, errors, sorting>>

\* resolveService(n) called by s, with the calls that are under way after it if it
\* returns at once: n is resolved already; it is resolved, and its dependencies are
\* next; it is not active; it is not defined, or it cannot be read.
Resolve(n, s, calls) ==
    \/ /\ n \in graph
       /\ stack' = calls
       /\ UNCHANGED <<graph, errors>>
    \/ /\ n \in Defined \ graph
       /\ Active(n)
       /\ graph' = graph \cup {n}
       /\ stack' = <<[name |-> n, todo |-> Dependencies(n)]>> \o calls
       /\ UNCHANGED errors
    \/ /\ n \in Defined \ graph
       /\ ~Active(n)
       /\ errors' = IF s = Top THEN errors ELSE errors \cup {<<s, n>>}
       /\ stack' = calls
       /\ UNCHANGED graph
    \/ /\ n \notin graph
       /\ errors' = errors \cup {<<s, n>>}
       /\ stack' = calls
       /\ UNCHANGED graph

ResolveCandidate ==
    /\ pc = "resolve"
    /\ stack = <<>>
    /\ candidates # {}
    /\ candidates' = candidates \ {First(candidates)}
    /\ Resolve(First(candidates), Top, <<>>)
    /\ UNCHANGED <<input, pc, sorting>>

\* Mutated form: a service that is resolved already ends the loop.
Ended(call, n) == [call EXCEPT !.todo = IF n \in graph THEN {} ELSE @ \ {n}]

\* The loop over the dependencies goes on, also after an error.
Continued(call, n) == [call EXCEPT !.todo = @ \ {n}]

ResolveDependency ==
    /\ pc = "resolve"
    /\ stack # <<>>
    /\ Head(stack).todo # {}
    /\ LET n == First(Head(stack).todo) IN
       Resolve(n, Head(stack).name, <<Continued(Head(stack), n)>> \o Tail(stack))
    /\ UNCHANGED <<input, pc, candidates, sorting>>

Return ==
    /\ pc = "resolve"
    /\ stack # <<>>
    /\ Head(stack).todo = {}
    /\ stack' = Tail(stack)
    /\ UNCHANGED <<input, pc, candidates, graph, errors, sorting>>

Count(n) == Cardinality(Edges(n))

\* topologicalSort, also when there are errors.
StartSort ==
    /\ pc = "resolve"
    /\ stack = <<>>
    /\ candidates = {}
    /\ pc' = "sort"
    /\ inDegree' = [n \in Names |-> IF n \in graph THEN Count(n) ELSE 0]
    /\ queue' = {n \in graph : inDegree'[n] = 0}
    /\ UNCHANGED <<input, walk, errors, order>>

\* The queue is sorted whenever it grows: its front is the least name in it.
Pop ==
    /\ pc = "sort"
    /\ queue # {}
    /\ LET node == First(queue)
           dependents == {n \in graph : node \in Edges(n)} IN
       /\ order' = Append(order, node)
       /\ inDegree' = [n \in Names |-> IF n \in dependents THEN inDegree[n] - 1 ELSE inDegree[n]]
       /\ queue' = (queue \ {node}) \cup {n \in dependents : inDegree'[n] = 0}
    /\ UNCHANGED <<input, pc, walk, errors>>

\* Mutated form: what is left over is left out.
FinishAnyway ==
    /\ pc = "sort"
    /\ queue = {}
    /\ pc' = "done"
    /\ UNCHANGED <<input, walk, errors, sorting>>

Finish ==
    /\ pc = "sort"
    /\ queue = {}
    /\ pc' = "done"
    /\ IF Len(order) = Cardinality(graph)
       THEN UNCHANGED <<errors, order>>
       ELSE errors' = errors \cup {<<Top, Top>>} /\ order' = <<>>
    /\ UNCHANGED <<input, walk, inDegree, queue>>

Next ==
    \/ List
    \/ ResolveCandidate
    \/ ResolveDependency
    \/ Return
    \/ StartSort
    \/ Pop
    \/ Finish

Spec == Init /\ [][Next]_vars

---------------------------------------------------------------------------
(* Properties *)

Ready == pc = "done" /\ errors = {}

\* Every service of a graph that may be generated is active, and all that it depends
\* on is in the graph.
Closed ==
    Ready => \A n \in graph : n \in Defined /\ Active(n) /\ Dependencies(n) \subseteq graph

\* ... and no service is in it but the active candidates and what they need.
Roots == {n \in Candidates : Active(n)}

Needed ==
    Ready => /\ Roots \subseteq graph
             /\ \A S \in SUBSET graph :
                    Roots \subseteq S /\ (\A n \in S : Dependencies(n) \subseteq S) => S = graph

\* The order of a graph that may be generated has each of its services once, each
\* after all that it depends on.
OrderSound ==
    Ready =>
        /\ \A n \in graph : \E i \in 1..Len(order) : order[i] = n
        /\ \A i \in 1..Len(order) :
              /\ order[i] \in graph
              /\ \A d \in Dependencies(order[i]) : \E j \in 1..(i - 1) : order[j] = d

\* Of all the orders that are sound it is the first: the same project has the same
\* lock on every machine.
Before(s, t) ==
    \E i \in 1..Len(s) : s[i] < t[i] /\ \A j \in 1..(i - 1) : s[j] = t[j]

OrderCanonical ==
    Ready =>
        \A s \in [1..Len(order) -> graph] :
            (/\ \A i, j \in 1..Len(order) : s[i] = s[j] => i = j
             /\ \A i \in 1..Len(order) :
                   \A d \in Edges(s[i]) : \E j \in 1..(i - 1) : s[j] = d)
            => ~Before(s, order)

\* A cycle is told of if and only if there is one.
CycleFound ==
    pc = "done" =>
        (<<Top, Top>> \in errors <=>
            \E S \in (SUBSET graph) \ {{}} : \A n \in S : Edges(n) \cap S # {})

\* docs/architecture.md:121 "A required dependency that is missing or disabled is a
\* graph error rather than an omitted edge."
DisabledIsAnError ==
    Ready => \A n \in graph : catalog[n].selector = "addon" => n \in config.addons
=============================================================================
