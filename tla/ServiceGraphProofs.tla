------------------------- MODULE ServiceGraphProofs -------------------------
(***************************************************************************)
(* What ServiceGraph promises for any finite catalog and any configuration. *)
(* The inductive invariant says what the walk has seen already, counted in  *)
(* the calls under way, and what the sort knows of the part of the graph it *)
(* has put in order.                                                        *)
(***************************************************************************)
EXTENDS ServiceGraph, FiniteSetTheorems, SequenceTheorems, TLAPS

---------------------------------------------------------------------------
(* The inductive invariant. *)

Calls(s) == {s[i] : i \in 1..Len(s)}

\* What the calls of a stack still have to go through.
Todo(s) == UNION {call.todo : call \in Calls(s)}

Awaited == Todo(stack)

WalkSound ==
    /\ candidates \subseteq Candidates
    /\ \A n \in graph : n \in Defined /\ Active(n)
    /\ \A call \in Calls(stack) : call.name \in graph /\ call.todo \subseteq Dependencies(call.name)

RootsSeen ==
    pc \notin {"list", "failed"} /\ errors = {} => Roots \subseteq graph \cup candidates

DependenciesSeen ==
    errors = {} => \A n \in graph : Dependencies(n) \subseteq graph \cup Awaited

OnlyNeeded ==
    \A S \in SUBSET Names :
        Roots \subseteq S /\ (\A n \in S : Dependencies(n) \subseteq S) => graph \subseteq S

WalkOver == pc \in {"sort", "done"} => stack = <<>> /\ candidates = {}

Unordered == pc \notin {"sort", "done"} => order = <<>> /\ <<Top, Top>> \notin errors

Prefix(i) == {order[j] : j \in 1..(i - 1)}

Ordered == {order[j] : j \in 1..Len(order)}

\* Each service of the order comes after its dependencies and is the least that could
\* come next, and no service on a cycle is in it.
OrderInv ==
    /\ Ordered \subseteq graph
    /\ Cardinality(Ordered) = Len(order)
    /\ \A i \in 1..Len(order) :
          /\ Edges(order[i]) \subseteq Prefix(i)
          /\ \A n \in graph \ Prefix(i) : Edges(n) \subseteq Prefix(i) => order[i] <= n
    /\ \A S \in SUBSET graph : (\A n \in S : Edges(n) \cap S # {}) => S \cap Ordered = {}

SortInv ==
    pc = "sort" =>
        /\ <<Top, Top>> \notin errors
        /\ \A n \in graph : inDegree[n] = Cardinality(Edges(n) \ Ordered)
        /\ queue = {n \in graph \ Ordered : inDegree[n] = 0}

Outcome ==
    /\ CycleFound
    /\ pc = "done" /\ <<Top, Top>> \notin errors => Ordered = graph

WalkInv == WalkSound /\ RootsSeen /\ DependenciesSeen /\ OnlyNeeded /\ WalkOver

IInv == TypeOK /\ WalkInv /\ Unordered /\ OrderInv /\ SortInv /\ Outcome

---------------------------------------------------------------------------
(* The operators. *)

\* A set of names that is not empty has a first.
LEMMA FirstIsLeast ==
    ASSUME NEW S \in SUBSET Names, S # {}
    PROVE  First(S) \in S /\ \A m \in S : First(S) <= m
  <1>1. S \subseteq Nat /\ IsFiniteSet(S)
    BY GraphAssumption, FS_Subset
  <1> DEFINE Below(n) == {m \in S : m <= n}
             All == {Below(n) : n \in S}
  <1>2. All # {} /\ All \subseteq FiniteSubsetsOf(S)
    <2>1. \A n \in S : Below(n) \in SUBSET S /\ IsFiniteSet(Below(n))
      BY <1>1, FS_Subset
    <2> QED  BY <2>1 DEF FiniteSubsetsOf
  <1>3. PICK U \in All : \A V \in All : <<V, U>> \notin StrictSubsetOrdering(S)
    <2>1. IsWellFoundedOn(StrictSubsetOrdering(S), FiniteSubsetsOf(S))
      BY FS_StrictSubsetOrderingWellFounded
    <2> HIDE DEF All
    <2> QED  BY <1>2, <2>1, WFMin
  <1>4. PICK n \in S : U = Below(n)
    BY <1>3
  <1>5. \A m \in S : n <= m
    <2>1. SUFFICES ASSUME NEW m \in S, ~(n <= m)
                   PROVE  FALSE
      OBVIOUS
    <2>2. m \in Nat /\ n \in Nat /\ m < n
      BY <1>1, <2>1
    <2>3. Below(m) \subseteq Below(n) /\ n \notin Below(m) /\ n \in Below(n)
      <3>1. \A k \in S : k \in Nat
        BY <1>1
      <3>2. \A k \in S : k <= m => k <= n
        BY <2>2, <3>1
      <3>3. ~(n <= m) /\ n <= n
        BY <2>2
      <3> QED  BY <3>2, <3>3
    <2>4. <<Below(m), U>> \in StrictSubsetOrdering(S)
      BY <1>4, <2>3 DEF StrictSubsetOrdering
    <2> QED  BY <1>3, <2>4
  <1> QED  BY <1>5 DEF First

\* Dependencies are names.
LEMMA DependenciesAreNames ==
    ASSUME TypeOK, NEW n \in Defined
    PROVE  Dependencies(n) \in SUBSET Names
  <1>1. catalog[n] \in Definitions
    BY DEF TypeOK, Defined
  <1> QED  BY <1>1 DEF Definitions, Dependencies

\* The edges of a service lead to services of the graph and are finitely many.
LEMMA EdgesFinite ==
    ASSUME TypeOK, NEW n
    PROVE  /\ Edges(n) \subseteq graph
           /\ \A S : IsFiniteSet(Edges(n) \ S)
           /\ \A S : Cardinality(Edges(n) \ S) \in Nat
  <1>1. IsFiniteSet(graph)
    BY GraphAssumption, FS_Subset DEF TypeOK
  <1>2. \A S : Edges(n) \ S \in SUBSET graph
    BY DEF Edges
  <1>3. \A S : IsFiniteSet(Edges(n) \ S)
    BY <1>1, <1>2, FS_Subset
  <1> QED  BY <1>3, FS_CardinalityType DEF Edges

\* The calls of a stack, from its two ends.
LEMMA CallsOfStack ==
    ASSUME NEW s \in Seq(Frames)
    PROVE  /\ Calls(<<>>) = {}
           /\ \A f \in Frames : <<f>> \o s \in Seq(Frames) /\ Calls(<<f>> \o s) = {f} \cup Calls(s)
           /\ s # <<>> => /\ Head(s) \in Frames
                          /\ Tail(s) \in Seq(Frames)
                          /\ Calls(s) = {Head(s)} \cup Calls(Tail(s))
  <1>1. Calls(<<>>) = {}
    BY DEF Calls
  <1>2. ASSUME NEW f \in Frames
        PROVE  <<f>> \o s \in Seq(Frames) /\ Calls(<<f>> \o s) = {f} \cup Calls(s)
    <2> DEFINE t == <<f>> \o s
    <2>1. <<f>> \in Seq(Frames) /\ Len(<<f>>) = 1 /\ <<f>>[1] = f
      OBVIOUS
    <2>2. /\ t \in Seq(Frames)
          /\ Len(t) = 1 + Len(s)
          /\ \A i \in 1..(1 + Len(s)) : t[i] = IF i <= 1 THEN <<f>>[i] ELSE s[i - 1]
      BY <2>1, ConcatProperties
    <2>3. Len(s) \in Nat
      BY LenProperties
    <2>4. Calls(t) \subseteq {f} \cup Calls(s)
      <3>1. SUFFICES ASSUME NEW i \in 1..Len(t)
                     PROVE  t[i] \in {f} \cup Calls(s)
        BY DEF Calls
      <3>2. CASE i = 1
        BY <2>1, <2>2, <2>3, <3>2
      <3>3. CASE i # 1
        <4>1. i - 1 \in 1..Len(s) /\ t[i] = s[i - 1]
          BY <2>2, <2>3, <3>3
        <4> QED  BY <4>1 DEF Calls
      <3> QED  BY <3>2, <3>3
    <2>5. f \in Calls(t)
      <3>1. 1 \in 1..Len(t) /\ t[1] = f
        BY <2>1, <2>2, <2>3
      <3> QED  BY <3>1 DEF Calls
    <2>6. Calls(s) \subseteq Calls(t)
      <3>1. SUFFICES ASSUME NEW i \in 1..Len(s)
                     PROVE  s[i] \in Calls(t)
        BY DEF Calls
      <3>2. i + 1 \in 1..Len(t) /\ t[i + 1] = s[i]
        BY <2>2, <2>3
      <3> QED  BY <3>2 DEF Calls
    <2> QED  BY <2>2, <2>4, <2>5, <2>6
  <1>3. ASSUME s # <<>>
        PROVE  /\ Head(s) \in Frames
               /\ Tail(s) \in Seq(Frames)
               /\ Calls(s) = {Head(s)} \cup Calls(Tail(s))
    <2>1. /\ Head(s) \in Frames
          /\ Tail(s) \in Seq(Frames)
          /\ Len(Tail(s)) = Len(s) - 1
          /\ \A i \in 1..Len(Tail(s)) : Tail(s)[i] = s[i + 1]
      BY <1>3, HeadTailProperties
    <2>2. Len(s) \in Nat \ {0} /\ Head(s) = s[1]
      BY <1>3, EmptySeq
    <2>3. Calls(s) \subseteq {Head(s)} \cup Calls(Tail(s))
      <3>1. SUFFICES ASSUME NEW i \in 1..Len(s)
                     PROVE  s[i] \in {Head(s)} \cup Calls(Tail(s))
        BY DEF Calls
      <3>2. CASE i = 1
        BY <2>2, <3>2
      <3>3. CASE i # 1
        <4>1. i - 1 \in 1..Len(Tail(s)) /\ Tail(s)[i - 1] = s[i]
          BY <2>1, <2>2, <3>3
        <4> QED  BY <4>1 DEF Calls
      <3> QED  BY <3>2, <3>3
    <2>4. {Head(s)} \cup Calls(Tail(s)) \subseteq Calls(s)
      <3>1. Head(s) \in Calls(s)
        BY <2>2 DEF Calls
      <3>2. ASSUME NEW i \in 1..Len(Tail(s))
            PROVE  Tail(s)[i] \in Calls(s)
        <4>1. i + 1 \in 1..Len(s) /\ Tail(s)[i] = s[i + 1]
          BY <2>1, <2>2
        <4> QED  BY <4>1 DEF Calls
      <3> QED  BY <3>1, <3>2 DEF Calls
    <2> QED  BY <2>1, <2>3, <2>4
  <1> QED  BY <1>1, <1>2, <1>3

---------------------------------------------------------------------------
(* The initial states, and the steps of the walk. *)

LEMMA InitIInv == Init => IInv
  <1> SUFFICES ASSUME Init
               PROVE  IInv
    OBVIOUS
  <1> USE DEF Init
  <1>1. TypeOK
    BY GraphAssumption, EmptySeq DEF TypeOK
  <1>2. Calls(stack) = {} /\ Ordered = {} /\ Len(order) = 0
    BY DEF Calls, Ordered
  <1>3. WalkInv
    BY <1>2 DEF WalkInv, WalkSound, RootsSeen, DependenciesSeen, OnlyNeeded, WalkOver
  <1>4. OrderInv
    BY <1>2, FS_EmptySet DEF OrderInv
  <1> QED  BY <1>1, <1>3, <1>4 DEF IInv, Unordered, SortInv, Outcome, CycleFound

\* What is activated and needed depends on catalog and configuration alone.
LEMMA SameInput ==
    ASSUME UNCHANGED input
    PROVE  /\ Defined' = Defined /\ Candidates' = Candidates /\ Roots' = Roots
           /\ \A n : Active(n)' = Active(n)
           /\ \A n : Dependencies(n)' = Dependencies(n)
  <1>1. catalog' = catalog /\ config' = config
    BY DEF input
  <1>2. \A n : Active(n)' = Active(n)
    BY <1>1 DEF Active
  <1>3. \A w : Holds(w)' = Holds(w)
    BY <1>1 DEF Holds
  <1>4. \A n : Dependencies(n)' = Dependencies(n)
    BY <1>1, <1>3 DEF Dependencies
  <1>5. Defined' = Defined /\ Candidates' = Candidates
    BY <1>1 DEF Defined, Candidates
  <1> QED  BY <1>2, <1>4, <1>5 DEF Roots

\* While nothing is in order yet, the invariants about the order say nothing.
LEMMA NothingOrdered == order = <<>> => OrderInv
  <1> SUFFICES ASSUME order = <<>>
               PROVE  OrderInv
    OBVIOUS
  <1>1. Len(order) = 0 /\ Ordered = {}
    BY DEF Ordered
  <1> QED  BY <1>1, FS_EmptySet DEF OrderInv

\* A call of resolveService adds at most the service itself, if it is active; and if it
\* is not in the graph then there is an error or it was not needed.
LEMMA ResolveEffect ==
    ASSUME TypeOK, NEW n \in Names, NEW s \in Names \cup {Top}, NEW calls \in Seq(Frames),
           Resolve(n, s, calls)
    PROVE  /\ stack' \in Seq(Frames)
           /\ graph' \subseteq Names
           /\ errors' \subseteq (Names \cup {Top}) \X (Names \cup {Top})
           /\ <<Top, Top>> \in errors' => <<Top, Top>> \in errors
           /\ errors' = {} => /\ errors = {}
                              /\ n \notin graph' => s = Top /\ ~(n \in Defined /\ Active(n))
           /\ \/ graph' = graph /\ Calls(stack') = Calls(calls)
              \/ /\ n \in Defined /\ Active(n)
                 /\ graph' = graph \cup {n}
                 /\ Calls(stack') = {[name |-> n, todo |-> Dependencies(n)]} \cup Calls(calls)
  <1>1. /\ <<s, n>> \in (Names \cup {Top}) \X (Names \cup {Top})
        /\ <<s, n>> # <<Top, Top>>
    BY GraphAssumption
  <1>2. CASE n \in graph /\ stack' = calls /\ UNCHANGED <<graph, errors>>
    BY <1>2 DEF TypeOK
  <1>3. CASE /\ n \in Defined \ graph
             /\ Active(n)
             /\ graph' = graph \cup {n}
             /\ stack' = <<[name |-> n, todo |-> Dependencies(n)]>> \o calls
             /\ UNCHANGED errors
    <2>1. [name |-> n, todo |-> Dependencies(n)] \in Frames
      BY <1>3, DependenciesAreNames DEF Frames
    <2> QED  BY <1>3, <2>1, CallsOfStack DEF TypeOK
  <1>4. CASE /\ n \in Defined \ graph
             /\ ~Active(n)
             /\ errors' = IF s = Top THEN errors ELSE errors \cup {<<s, n>>}
             /\ stack' = calls
             /\ UNCHANGED graph
    <2>1. CASE s = Top
      BY <1>4, <2>1 DEF TypeOK
    <2>2. CASE s # Top
      <3>1. errors' = errors \cup {<<s, n>>} /\ errors' # {}
        BY <1>4, <2>2
      <3> QED  BY <1>1, <1>4, <3>1 DEF TypeOK
    <2> QED  BY <2>1, <2>2
  <1>5. CASE /\ n \notin graph
             /\ errors' = errors \cup {<<s, n>>}
             /\ stack' = calls
             /\ UNCHANGED graph
    <2>1. errors' # {}
      BY <1>5
    <2> QED  BY <1>1, <1>5, <2>1 DEF TypeOK
  <1> QED  BY <1>2, <1>3, <1>4, <1>5 DEF Resolve

LEMMA ListStep == IInv /\ List => IInv'
  <1> SUFFICES ASSUME IInv, List
               PROVE  IInv'
    OBVIOUS
  <1> USE DEF List, IInv
  <1>1. UNCHANGED input /\ UNCHANGED <<stack, graph, errors, order>>
    BY DEF sorting
  <1>2. candidates' \subseteq Candidates /\ (pc' = "resolve" => candidates' = Candidates)
    BY DEF WalkInv, WalkSound
  <1>3. TypeOK'
    BY <1>1, <1>2 DEF TypeOK, input, sorting, Candidates, Defined
  <1>4. Calls(stack)' = Calls(stack) /\ Awaited' = Awaited
    BY <1>1 DEF Calls, Todo, Awaited
  <1>5. WalkInv'
    <2>1. WalkSound' /\ RootsSeen'
      BY <1>1, <1>2, <1>4, SameInput DEF WalkInv, WalkSound, RootsSeen, Roots
    <2>2. DependenciesSeen'
      BY <1>1, <1>4, SameInput DEF WalkInv, DependenciesSeen
    <2>3. OnlyNeeded'
      BY <1>1, SameInput DEF WalkInv, OnlyNeeded
    <2>4. WalkOver'
      BY DEF WalkOver
    <2> QED  BY <2>1, <2>2, <2>3, <2>4 DEF WalkInv
  <1>6. order' = <<>> /\ Unordered'
    BY <1>1 DEF Unordered
  <1>7. OrderInv'
    <2>1. (order = <<>> => OrderInv)'
      BY NothingOrdered, PTL
    <2> QED  BY <1>6, <2>1
  <1> QED  BY <1>3, <1>5, <1>6, <1>7 DEF SortInv, Outcome, CycleFound

\* What one call does to the invariant, whoever calls: the loop of Resolve over the
\* candidates, or the loop of resolveService over the dependencies.
LEMMA CallStep ==
    ASSUME IInv, pc = "resolve",
           NEW n \in Names, NEW s \in Names \cup {Top}, NEW calls \in Seq(Frames),
           Resolve(n, s, calls),
           UNCHANGED <<input, pc, sorting>>,
           candidates' \subseteq candidates,
           candidates \subseteq candidates' \cup {n},
           \A call \in Calls(calls) :
               call.name \in graph /\ call.todo \subseteq Dependencies(call.name),
           Awaited \subseteq Todo(calls) \cup (IF s = Top THEN {} ELSE {n}),
           \A S \in SUBSET Names :
               /\ Roots \subseteq S
               /\ \A m \in S : Dependencies(m) \subseteq S
               /\ n \in Defined /\ Active(n)
               => n \in S
    PROVE  IInv'
  <1> USE DEF IInv
  <1>1. UNCHANGED input /\ pc' = "resolve" /\ UNCHANGED <<inDegree, queue, order>>
    BY DEF sorting
  <1>2. /\ stack' \in Seq(Frames)
        /\ graph' \subseteq Names
        /\ errors' \subseteq (Names \cup {Top}) \X (Names \cup {Top})
        /\ <<Top, Top>> \in errors' => <<Top, Top>> \in errors
        /\ errors' = {} => /\ errors = {}
                           /\ n \notin graph' => s = Top /\ ~(n \in Defined /\ Active(n))
    BY ResolveEffect
  <1>3. \/ graph' = graph /\ Calls(stack') = Calls(calls)
        \/ /\ n \in Defined /\ Active(n)
           /\ graph' = graph \cup {n}
           /\ Calls(stack') = {[name |-> n, todo |-> Dependencies(n)]} \cup Calls(calls)
    BY ResolveEffect
  <1>4. TypeOK'
    BY <1>1, <1>2 DEF TypeOK, input
  <1>5. Calls(stack)' = Calls(stack') /\ Awaited' = Todo(stack')
    BY DEF Calls, Todo, Awaited
  <1>6. graph \subseteq graph' /\ graph' \subseteq graph \cup {n}
    BY <1>3
  <1>7. WalkSound'
    <2>1. \A call \in Calls(stack') :
              call.name \in graph' /\ call.todo \subseteq Dependencies(call.name)
      BY <1>3
    <2>2. \A m \in graph' : m \in Defined /\ Active(m)
      BY <1>3 DEF WalkInv, WalkSound
    <2> QED  BY <1>1, <1>5, <2>1, <2>2, SameInput DEF WalkInv, WalkSound
  <1>8. RootsSeen'
    <2>1. SUFFICES ASSUME errors' = {}
                   PROVE  Roots \subseteq graph' \cup candidates'
      BY <1>1, SameInput DEF RootsSeen
    <2>2. Roots \subseteq graph \cup candidates
      BY <1>2, <2>1 DEF WalkInv, RootsSeen
    <2>3. n \in graph' \/ n \notin Roots
      BY <1>2, <2>1 DEF Roots, Candidates
    <2> QED  BY <1>6, <2>2, <2>3
  <1>9. DependenciesSeen'
    <2>1. SUFFICES ASSUME errors' = {}, NEW m \in graph'
                   PROVE  Dependencies(m) \subseteq graph' \cup Todo(stack')
      BY <1>1, <1>5, SameInput DEF DependenciesSeen
    <2>2. Todo(calls) \subseteq Todo(stack')
      BY <1>3 DEF Todo
    <2>3. CASE m \in graph
      <3>1. Dependencies(m) \subseteq graph \cup Awaited
        BY <1>2, <2>1, <2>3 DEF WalkInv, DependenciesSeen
      <3>2. Awaited \subseteq Todo(calls) \cup graph'
        BY <1>2, <2>1
      <3> QED  BY <1>6, <2>2, <3>1, <3>2
    <2>4. CASE m \notin graph
      <3>1. m = n /\ [name |-> n, todo |-> Dependencies(n)] \in Calls(stack')
        BY <1>3, <2>4
      <3>2. Dependencies(n) \subseteq Todo(stack')
        BY <3>1 DEF Todo
      <3> QED  BY <3>1, <3>2
    <2> QED  BY <2>3, <2>4
  <1>10. OnlyNeeded'
    <2>1. SUFFICES ASSUME NEW S \in SUBSET Names, Roots \subseteq S,
                          \A m \in S : Dependencies(m) \subseteq S
                   PROVE  graph' \subseteq S
      BY <1>1, SameInput DEF OnlyNeeded
    <2>2. graph \subseteq S
      BY <2>1 DEF WalkInv, OnlyNeeded
    <2>3. n \in Defined /\ Active(n) => n \in S
      BY <2>1
    <2> QED  BY <1>3, <2>2, <2>3
  <1>11. WalkInv'
    BY <1>1, <1>7, <1>8, <1>9, <1>10 DEF WalkInv, WalkOver
  <1>12. order' = <<>> /\ Unordered'
    BY <1>1, <1>2 DEF Unordered
  <1>13. OrderInv'
    <2>1. (order = <<>> => OrderInv)'
      BY NothingOrdered, PTL
    <2> QED  BY <1>12, <2>1
  <1> QED  BY <1>1, <1>4, <1>11, <1>12, <1>13 DEF SortInv, Outcome, CycleFound

LEMMA ResolveCandidateStep == IInv /\ ResolveCandidate => IInv'
  <1> SUFFICES ASSUME IInv, ResolveCandidate
               PROVE  IInv'
    OBVIOUS
  <1> USE DEF ResolveCandidate
  <1> DEFINE n == First(candidates)
  <1>1. n \in candidates /\ candidates \subseteq Candidates /\ n \in Names
    BY FirstIsLeast DEF IInv, TypeOK, WalkInv, WalkSound
  <1>2. <<>> \in Seq(Frames) /\ Calls(<<>>) = {} /\ Awaited = {}
    BY EmptySeq DEF Calls, Todo, Awaited
  <1>3. n \in Defined /\ Active(n) => n \in Roots
    BY <1>1 DEF Roots
  <1> QED  BY <1>1, <1>2, <1>3, CallStep

LEMMA ResolveDependencyStep == IInv /\ ResolveDependency => IInv'
  <1> SUFFICES ASSUME IInv, ResolveDependency
               PROVE  IInv'
    OBVIOUS
  <1> USE DEF ResolveDependency, IInv
  <1> DEFINE call == Head(stack)
             n == First(call.todo)
             next == Continued(call, n)
             calls == <<next>> \o Tail(stack)
  <1>1. /\ call \in Frames
        /\ Tail(stack) \in Seq(Frames)
        /\ Calls(stack) = {call} \cup Calls(Tail(stack))
    BY CallsOfStack DEF TypeOK
  <1>2. n \in call.todo /\ n \in Names /\ call.name \in Names
    BY <1>1, FirstIsLeast DEF Frames
  <1>3. next \in Frames /\ next.name = call.name /\ next.todo = call.todo \ {n}
    BY <1>1 DEF Frames, Continued
  <1>4. calls \in Seq(Frames) /\ Calls(calls) = {next} \cup Calls(Tail(stack))
    BY <1>1, <1>3, CallsOfStack
  <1>5. call.name \in graph /\ call.todo \subseteq Dependencies(call.name)
    BY <1>1 DEF WalkInv, WalkSound
  <1>6. \A c \in Calls(calls) : c.name \in graph /\ c.todo \subseteq Dependencies(c.name)
    BY <1>1, <1>3, <1>4, <1>5 DEF WalkInv, WalkSound
  <1>7. Awaited \subseteq Todo(calls) \cup {n} /\ call.name # Top
    BY <1>1, <1>2, <1>3, <1>4, GraphAssumption DEF Todo, Awaited
  <1>8. ASSUME NEW S \in SUBSET Names, Roots \subseteq S,
               \A m \in S : Dependencies(m) \subseteq S
        PROVE  n \in S
    BY <1>2, <1>5, <1>8 DEF WalkInv, OnlyNeeded
  <1>9. Resolve(n, call.name, calls) /\ pc = "resolve" /\ candidates' = candidates
        /\ UNCHANGED <<input, pc, sorting>>
    OBVIOUS
  <1> HIDE DEF ResolveDependency, n, call, calls, next
  <1> QED  BY <1>2, <1>4, <1>6, <1>7, <1>8, <1>9, CallStep

LEMMA ReturnStep == IInv /\ Return => IInv'
  <1> SUFFICES ASSUME IInv, Return
               PROVE  IInv'
    OBVIOUS
  <1> USE DEF Return, IInv
  <1>1. UNCHANGED input /\ pc' = "resolve"
        /\ UNCHANGED <<candidates, graph, errors, inDegree, queue, order>>
    BY DEF sorting
  <1>2. /\ Head(stack) \in Frames
        /\ stack' \in Seq(Frames)
        /\ Calls(stack) = {Head(stack)} \cup Calls(stack')
    BY CallsOfStack DEF TypeOK
  <1>3. TypeOK'
    BY <1>1, <1>2 DEF TypeOK, input
  <1>4. Calls(stack)' = Calls(stack') /\ Awaited' = Awaited
    BY <1>2 DEF Calls, Todo, Awaited
  <1>5. WalkSound' /\ RootsSeen'
    BY <1>1, <1>2, <1>4, SameInput DEF WalkInv, WalkSound, RootsSeen
  <1>6. DependenciesSeen'
    BY <1>1, <1>4, SameInput DEF WalkInv, DependenciesSeen
  <1>7. OnlyNeeded'
    BY <1>1, SameInput DEF WalkInv, OnlyNeeded
  <1>8. WalkInv'
    BY <1>1, <1>5, <1>6, <1>7 DEF WalkInv, WalkOver
  <1>9. order' = <<>> /\ Unordered'
    BY <1>1 DEF Unordered
  <1>10. OrderInv'
    <2>1. (order = <<>> => OrderInv)'
      BY NothingOrdered, PTL
    <2> QED  BY <1>9, <2>1
  <1> QED  BY <1>1, <1>3, <1>8, <1>9, <1>10 DEF SortInv, Outcome, CycleFound

---------------------------------------------------------------------------
(* The steps of the sort. *)

\* The graph does not change any more.
LEMMA SameGraph ==
    ASSUME UNCHANGED <<input, graph>>
    PROVE  \A n : Edges(n)' = Edges(n)
  BY SameInput DEF Edges

\* The walk does not change any more.
LEMMA WalkKept ==
    ASSUME WalkInv, UNCHANGED <<input, walk>>, WalkOver', pc # "list", pc # "failed",
           errors \subseteq errors'
    PROVE  WalkInv'
  <1>1. UNCHANGED <<candidates, stack, graph>>
    BY DEF walk
  <1>2. Calls(stack)' = Calls(stack) /\ Awaited' = Awaited
    BY <1>1 DEF Calls, Todo, Awaited
  <1>3. errors' = {} => errors = {}
    OBVIOUS
  <1>4. WalkSound' /\ RootsSeen'
    BY <1>1, <1>2, <1>3, SameInput DEF WalkInv, WalkSound, RootsSeen
  <1>5. DependenciesSeen'
    BY <1>1, <1>2, <1>3, SameInput DEF WalkInv, DependenciesSeen
  <1>6. OnlyNeeded'
    BY <1>1, SameInput DEF WalkInv, OnlyNeeded
  <1> QED  BY <1>4, <1>5, <1>6 DEF WalkInv

LEMMA StartSortStep == IInv /\ StartSort => IInv'
  <1> SUFFICES ASSUME IInv, StartSort
               PROVE  IInv'
    OBVIOUS
  <1> USE DEF StartSort, IInv
  <1>1. UNCHANGED <<input, walk, candidates, stack, graph, errors, order>> /\ order = <<>>
    BY DEF walk, Unordered
  <1>2. \A n : Count(n) \in Nat /\ Count(n) = Cardinality(Edges(n) \ {})
    <2>1. \A n : Edges(n) \ {} = Edges(n)
      OBVIOUS
    <2> QED  BY <2>1, EdgesFinite DEF Count
  <1>3. inDegree' \in [Names -> Nat] /\ \A n \in graph : inDegree'[n] = Count(n)
    BY <1>2 DEF TypeOK
  <1>4. TypeOK'
    BY <1>1, <1>3 DEF TypeOK, input
  <1>5. WalkInv'
    BY <1>1, WalkKept DEF WalkOver
  <1>6. OrderInv'
    <2>1. (order = <<>> => OrderInv)'
      BY NothingOrdered, PTL
    <2> QED  BY <1>1, <2>1
  <1>7. SortInv'
    <2>1. Ordered' = {}
      BY <1>1 DEF Ordered
    <2> QED  BY <1>1, <1>2, <1>3, <2>1, SameGraph DEF SortInv, Unordered
  <1> QED  BY <1>4, <1>5, <1>6, <1>7 DEF Unordered, Outcome, CycleFound

LEMMA PopStep == IInv /\ Pop => IInv'
  <1> SUFFICES ASSUME IInv, Pop
               PROVE  IInv'
    OBVIOUS
  <1> USE DEF Pop, IInv
  <1> DEFINE node == First(queue)
             dependents == {n \in graph : node \in Edges(n)}
  <1>1. UNCHANGED <<input, walk, graph, errors>> /\ pc = "sort" /\ pc' = "sort"
    BY DEF walk
  <1>2. node \in queue /\ (\A n \in queue : node <= n)
    BY FirstIsLeast DEF TypeOK
  <1>3. /\ \A n \in graph : inDegree[n] = Cardinality(Edges(n) \ Ordered)
        /\ queue = {n \in graph \ Ordered : inDegree[n] = 0}
    BY DEF SortInv
  <1>4. \A n \in graph : inDegree[n] = 0 <=> Edges(n) \subseteq Ordered
    <2>1. SUFFICES ASSUME NEW n \in graph
                   PROVE  inDegree[n] = 0 <=> Edges(n) \ Ordered = {}
      OBVIOUS
    <2> QED  BY <1>3, EdgesFinite, FS_EmptySet
  <1>5. node \in graph \ Ordered /\ Edges(node) \subseteq Ordered /\ node \in Names
    BY <1>2, <1>3, <1>4 DEF TypeOK
  <1>6. /\ order' = Append(order, node)
        /\ inDegree' = [n \in Names |-> IF n \in dependents THEN inDegree[n] - 1 ELSE inDegree[n]]
        /\ queue' = (queue \ {node}) \cup {n \in dependents : inDegree'[n] = 0}
    OBVIOUS
  <1> HIDE DEF Pop, node
  <1>7. /\ order' \in Seq(Names)
        /\ Len(order) \in Nat
        /\ Len(order') = Len(order) + 1
        /\ \A i \in 1..Len(order) : order'[i] = order[i]
        /\ order'[Len(order) + 1] = node
    BY <1>5, <1>6 DEF TypeOK
  <1>8. Ordered' = Ordered \cup {node}
    <2>1. Ordered' = {order'[i] : i \in 1..(Len(order) + 1)}
      BY <1>7 DEF Ordered
    <2>2. 1..(Len(order) + 1) = (1..Len(order)) \cup {Len(order) + 1}
      BY <1>7
    <2> QED  BY <1>7, <2>1, <2>2 DEF Ordered
  <1>9. \A n : Edges(n)' = Edges(n)
    BY <1>1, SameGraph
  <1>10. \A n \in graph : inDegree'[n] \in Nat /\ inDegree'[n] = Cardinality(Edges(n) \ Ordered')
    <2>1. SUFFICES ASSUME NEW n \in graph
                   PROVE  inDegree'[n] \in Nat /\ inDegree'[n] = Cardinality(Edges(n) \ Ordered')
      OBVIOUS
    <2>2. n \in Names /\ IsFiniteSet(Edges(n) \ Ordered) /\ inDegree[n] \in Nat
      BY EdgesFinite DEF TypeOK
    <2>3. Edges(n) \ Ordered' = (Edges(n) \ Ordered) \ {node}
      BY <1>8
    <2>4. IsFiniteSet((Edges(n) \ Ordered) \ {node})
      BY <2>2, FS_RemoveElement
    <2>5. Cardinality((Edges(n) \ Ordered) \ {node}) =
              IF node \in Edges(n) THEN inDegree[n] - 1 ELSE inDegree[n]
      BY <1>3, <1>5, <2>2, FS_RemoveElement
    <2>6. inDegree'[n] = Cardinality((Edges(n) \ Ordered) \ {node})
      BY <1>6, <2>2, <2>5
    <2> QED  BY <2>3, <2>4, <2>6, FS_CardinalityType
  <1>11. TypeOK'
    <2>1. inDegree' \in [Names -> Nat]
      <3>1. \A n \in Names : inDegree'[n] \in Nat
        BY <1>6, <1>10 DEF TypeOK
      <3> QED  BY <1>6, <3>1
    <2>2. queue' \subseteq Names
      BY <1>6 DEF TypeOK
    <2> QED  BY <1>1, <1>7, <2>1, <2>2 DEF TypeOK, input, walk
  <1>12. WalkInv'
    BY <1>1, WalkKept DEF WalkInv, WalkOver, walk
  <1>13. \A n \in Ordered : Edges(n) \subseteq Ordered
    <2>1. \A i \in 1..Len(order) : Prefix(i) \subseteq Ordered
      BY <1>7 DEF Prefix, Ordered
    <2>2. \A i \in 1..Len(order) : Edges(order[i]) \subseteq Ordered
      BY <2>1 DEF OrderInv
    <2> QED  BY <2>2 DEF Ordered
  <1>14. SortInv'
    <2>1. \A n \in dependents : inDegree[n] # 0
      BY <1>4, <1>5
    <2>2. \A n \in dependents : n \notin Ordered /\ n # node
      BY <1>5, <1>13
    <2>3. queue' \subseteq {n \in graph \ Ordered' : inDegree'[n] = 0}
      BY <1>3, <1>6, <1>8, <2>1, <2>2 DEF TypeOK
    <2>4. {n \in graph \ Ordered' : inDegree'[n] = 0} \subseteq queue'
      BY <1>3, <1>6, <1>8 DEF TypeOK
    <2> QED  BY <1>1, <1>9, <1>10, <2>3, <2>4 DEF SortInv
  <1>15. OrderInv'
    <2>1. Ordered' \subseteq graph'
      BY <1>1, <1>5, <1>8 DEF OrderInv
    <2>2. Cardinality(Ordered') = Len(order')
      <3>1. IsFiniteSet(Ordered)
        BY GraphAssumption, FS_Subset DEF OrderInv, TypeOK
      <3>2. Cardinality(Ordered \cup {node}) = Cardinality(Ordered) + 1
        BY <1>5, <3>1, FS_AddElement
      <3> QED  BY <1>7, <1>8, <3>2 DEF OrderInv
    <2>3. \A i \in 1..Len(order) : Prefix(i)' = Prefix(i)
      BY <1>7 DEF Prefix
    <2>4. \A i : i = Len(order) + 1 => Prefix(i)' = Ordered
      <3>1. SUFFICES ASSUME NEW i, i = Len(order) + 1
                     PROVE  {order'[j] : j \in 1..(i - 1)} = {order[j] : j \in 1..Len(order)}
        BY DEF Prefix, Ordered
      <3>2. i - 1 = Len(order)
        BY <1>7, <3>1
      <3> QED  BY <1>7, <3>2
    <2>5. ASSUME NEW i \in 1..Len(order')
          PROVE  /\ Edges(order'[i]) \subseteq Prefix(i)'
                 /\ \A n \in graph \ Prefix(i)' : Edges(n) \subseteq Prefix(i)' => order'[i] <= n
      <3>1. CASE i \in 1..Len(order)
        BY <1>7, <2>3, <3>1 DEF OrderInv
      <3>2. CASE i = Len(order) + 1
        <4>1. Prefix(i)' = Ordered /\ order'[i] = node
          BY <1>7, <2>4, <3>2
        <4>2. \A n \in graph \ Ordered : Edges(n) \subseteq Ordered => node <= n
          BY <1>2, <1>3, <1>4
        <4> QED  BY <1>5, <4>1, <4>2
      <3> QED  BY <1>7, <3>1, <3>2
    <2>6. ASSUME NEW S \in SUBSET graph, \A n \in S : Edges(n) \cap S # {}
          PROVE  S \cap Ordered' = {}
      <3>1. S \cap Ordered = {}
        BY <2>6 DEF OrderInv
      <3>2. node \notin S
        BY <1>5, <2>6, <3>1
      <3> QED  BY <1>8, <3>1, <3>2
    <2> QED  BY <1>1, <1>9, <2>1, <2>2, <2>5, <2>6 DEF OrderInv
  <1> QED  BY <1>1, <1>11, <1>12, <1>14, <1>15 DEF Unordered, Outcome, CycleFound

LEMMA FinishStep == IInv /\ Finish => IInv'
  <1> SUFFICES ASSUME IInv, Finish
               PROVE  IInv'
    OBVIOUS
  <1> USE DEF Finish, IInv
  <1>1. /\ UNCHANGED <<input, walk, graph, inDegree, queue>>
        /\ pc = "sort" /\ pc' = "done" /\ queue = {}
        /\ <<Top, Top>> \notin errors
    BY DEF walk, SortInv
  <1>2. TypeOK'
    <2>1. /\ errors' \subseteq (Names \cup {Top}) \X (Names \cup {Top})
          /\ order' \in Seq(Names)
      <3>1. <<Top, Top>> \in (Names \cup {Top}) \X (Names \cup {Top})
        OBVIOUS
      <3>2. errors' \subseteq errors \cup {<<Top, Top>>} /\ order' \in {order, <<>>}
        OBVIOUS
      <3> QED  BY <3>1, <3>2, EmptySeq DEF TypeOK
    <2> QED  BY <1>1, <2>1 DEF TypeOK, input, walk
  <1>3. \A n : Edges(n)' = Edges(n)
    BY <1>1, SameGraph
  <1>4. WalkInv'
    BY <1>1, WalkKept DEF WalkInv, WalkOver, walk
  <1>5. IsFiniteSet(graph) /\ Ordered \in SUBSET graph /\ Cardinality(Ordered) = Len(order)
    BY GraphAssumption, FS_Subset DEF TypeOK, OrderInv
  <1>6. CASE Len(order) = Cardinality(graph)
    <2>1. UNCHANGED <<errors, order>> /\ Ordered = graph
      BY <1>5, <1>6, FS_Subset
    <2>2. Ordered' = Ordered /\ \A i : Prefix(i)' = Prefix(i)
      BY <2>1 DEF Ordered, Prefix
    <2>3. OrderInv'
      BY <1>1, <1>3, <2>1, <2>2 DEF OrderInv
    <2>4. \A S \in (SUBSET graph) \ {{}} : ~ \A n \in S : Edges(n) \cap S # {}
      BY <2>1 DEF OrderInv
    <2>5. CycleFound'
      BY <1>1, <1>3, <2>1, <2>4 DEF CycleFound
    <2> QED  BY <1>1, <1>2, <1>4, <2>1, <2>2, <2>3, <2>5 DEF Unordered, SortInv, Outcome
  <1>7. CASE Len(order) # Cardinality(graph)
    <2>1. errors' = errors \cup {<<Top, Top>>} /\ order' = <<>>
      BY <1>7
    <2>2. OrderInv'
      <3>1. (order = <<>> => OrderInv)'
        BY NothingOrdered, PTL
      <3> QED  BY <2>1, <3>1
    <2> DEFINE S == graph \ Ordered
    <2>3. S # {} /\ S \in SUBSET graph
      <3>1. Ordered # graph
        BY <1>5, <1>7
      <3> QED  BY <1>5, <3>1
    <2>4. ASSUME NEW n \in S
          PROVE  Edges(n) \cap S # {}
      <3>1. Cardinality(Edges(n) \ Ordered) # 0
        BY <1>1 DEF SortInv
      <3>2. Edges(n) \ Ordered # {} /\ Edges(n) \subseteq graph
        BY <3>1, EdgesFinite, FS_EmptySet
      <3> QED  BY <3>2
    <2>5. CycleFound'
      <3> HIDE DEF S
      <3> QED  BY <1>1, <1>3, <2>1, <2>3, <2>4 DEF CycleFound
    <2> QED  BY <1>1, <1>2, <1>4, <2>1, <2>2, <2>5 DEF Unordered, SortInv, Outcome
  <1> QED  BY <1>6, <1>7

LEMMA StutterStep == IInv /\ UNCHANGED vars => IInv'
  <1> SUFFICES ASSUME IInv, UNCHANGED vars
               PROVE  IInv'
    OBVIOUS
  <1> USE DEF IInv
  <1>1. UNCHANGED <<input, pc, walk, candidates, stack, graph, errors, inDegree, queue, order>>
    BY DEF vars, walk, sorting
  <1>2. TypeOK'
    BY <1>1 DEF TypeOK, input
  <1>3. \A n : Edges(n)' = Edges(n)
    BY <1>1, SameGraph
  <1>4. Calls(stack)' = Calls(stack) /\ Awaited' = Awaited
    BY <1>1 DEF Calls, Todo, Awaited
  <1>5. WalkSound' /\ RootsSeen'
    BY <1>1, <1>4, SameInput DEF WalkInv, WalkSound, RootsSeen
  <1>6. DependenciesSeen' /\ OnlyNeeded' /\ WalkOver'
    BY <1>1, <1>4, SameInput DEF WalkInv, DependenciesSeen, OnlyNeeded, WalkOver
  <1>7. Ordered' = Ordered /\ \A i : Prefix(i)' = Prefix(i)
    BY <1>1 DEF Ordered, Prefix
  <1>8. OrderInv' /\ SortInv' /\ Unordered'
    BY <1>1, <1>3, <1>7 DEF OrderInv, SortInv, Unordered
  <1>9. Outcome'
    BY <1>1, <1>3, <1>7 DEF Outcome, CycleFound
  <1> QED  BY <1>2, <1>5, <1>6, <1>8, <1>9 DEF WalkInv

THEOREM NextIInv == IInv /\ [Next]_vars => IInv'
  BY ListStep, ResolveCandidateStep, ResolveDependencyStep, ReturnStep, StartSortStep,
     PopStep, FinishStep, StutterStep DEF Next

THEOREM Invariant == Spec => []IInv
  BY InitIInv, NextIInv, PTL DEF Spec

---------------------------------------------------------------------------
(* The theorems. *)

\* The variables keep their types: in particular no in-degree falls below zero.
THEOREM TypeCorrect == Spec => []TypeOK
  BY Invariant, PTL DEF IInv

LEMMA ReadyIsClosed == IInv => Closed
  <1>1. SUFFICES ASSUME IInv, Ready, NEW n \in graph
                 PROVE  n \in Defined /\ Active(n) /\ Dependencies(n) \subseteq graph
    BY DEF Closed
  <1>2. stack = <<>>
    BY <1>1 DEF IInv, WalkInv, WalkOver, Ready
  <1>3. Awaited = {}
    BY <1>2 DEF Awaited, Todo, Calls
  <1> QED  BY <1>1, <1>3 DEF IInv, WalkInv, WalkSound, DependenciesSeen, Ready

\* A graph without errors is closed: each service of it is active and has what it needs
\* with it.
THEOREM GraphClosed == Spec => []Closed
  BY ReadyIsClosed, Invariant, PTL

\* ... and is the least that has the active candidates in it and is closed.
THEOREM GraphNeeded == Spec => []Needed
  <1>1. IInv => Needed
    <2>1. SUFFICES ASSUME IInv, Ready
                   PROVE  /\ Roots \subseteq graph
                          /\ \A S \in SUBSET graph :
                                 /\ Roots \subseteq S
                                 /\ \A n \in S : Dependencies(n) \subseteq S
                                 => S = graph
      BY DEF Needed
    <2>2. Roots \subseteq graph
      BY <2>1 DEF IInv, WalkInv, WalkOver, RootsSeen, Ready
    <2>3. graph \subseteq Names
      BY <2>1 DEF IInv, TypeOK
    <2> QED  BY <2>1, <2>2, <2>3 DEF IInv, WalkInv, OnlyNeeded
  <1> QED  BY <1>1, Invariant, PTL

\* The installation order of a graph without errors has every service once and after
\* all that it depends on.
THEOREM OrderIsSound == Spec => []OrderSound
  <1>1. IInv => OrderSound
    <2>1. SUFFICES ASSUME IInv, Ready
                   PROVE  /\ Ordered = graph
                          /\ \A i \in 1..Len(order) : order[i] \in graph
                          /\ \A i \in 1..Len(order) : Dependencies(order[i]) \subseteq Prefix(i)
      BY DEF OrderSound, Ordered, Prefix
    <2>2. Ordered = graph
      BY <2>1 DEF IInv, Outcome, Ready
    <2>3. \A i \in 1..Len(order) : order[i] \in graph
      BY <2>2 DEF Ordered
    <2>4. \A i \in 1..Len(order) : Dependencies(order[i]) = Edges(order[i])
      BY <2>1, <2>3, ReadyIsClosed DEF Closed, Edges
    <2> QED  BY <2>1, <2>2, <2>3, <2>4 DEF IInv, OrderInv
  <1> QED  BY <1>1, Invariant, PTL

\* No other sound order comes before it: where another differs for the first time, its
\* service could have been popped as well and is not the first of the queue.
THEOREM OrderIsCanonical == Spec => []OrderCanonical
  <1>1. IInv => OrderCanonical
    <2>1. SUFFICES ASSUME IInv, Ready, NEW s \in [1..Len(order) -> graph],
                          \A i, j \in 1..Len(order) : s[i] = s[j] => i = j,
                          \A i \in 1..Len(order) :
                             \A d \in Edges(s[i]) : \E j \in 1..(i - 1) : s[j] = d,
                          Before(s, order)
                   PROVE  FALSE
      BY DEF OrderCanonical
    <2>2. order \in Seq(Names) /\ graph \subseteq Nat /\ Len(order) \in Nat
      BY <2>1, GraphAssumption, LenProperties DEF IInv, TypeOK
    <2>3. Len(s) = Len(order)
      BY <2>2, LenProperties
    <2>4. PICK i \in 1..Len(order) : s[i] < order[i] /\ \A j \in 1..(i - 1) : s[j] = order[j]
      BY <2>1, <2>3 DEF Before
    <2>5. \A j \in 1..(i - 1) : j \in 1..Len(order) /\ j # i
      BY <2>2
    <2>6. s[i] \in graph \ Prefix(i)
      <3>1. \A j \in 1..(i - 1) : s[i] # order[j]
        BY <2>1, <2>4, <2>5
      <3> QED  BY <3>1 DEF Prefix
    <2>7. Edges(s[i]) \subseteq Prefix(i)
      BY <2>1, <2>4 DEF Prefix
    <2>8. order[i] <= s[i]
      BY <2>1, <2>6, <2>7 DEF IInv, OrderInv
    <2>9. order[i] \in Nat /\ s[i] \in Nat
      BY <2>1, <2>2, <2>6, GraphAssumption DEF IInv, OrderInv, Ordered
    <2> QED  BY <2>4, <2>8, <2>9
  <1> QED  BY <1>1, Invariant, PTL

\* A cycle is told of if and only if the graph has one.
THEOREM CycleIsFound == Spec => []CycleFound
  BY Invariant, PTL DEF IInv, Outcome
=============================================================================
