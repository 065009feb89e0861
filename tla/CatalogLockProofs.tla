-------------------------- MODULE CatalogLockProofs --------------------------
(***************************************************************************)
(* What the commands that write and start a lock promise for any sources,   *)
(* definitions, images and number of processes beside them.  A command is a *)
(* list of steps, so that the first part is about lists: in which order the *)
(* steps of every command come.  The second is about what is started, and   *)
(* about digests; the third about where the definition of a lock comes from, *)
(* with one refresh of the cache beside the command.                        *)
(***************************************************************************)
EXTENDS CatalogLock, SequenceTheorems, TLAPS

-----------------------------------------------------------------------------
(* The order of the steps.                                                   *)

Has(s, x) == \E i \in 1..Len(s) : s[i] = x

\* A commit comes last.  What is drafted or altered is compared and rendered
\* afterwards, and drafted once.  What is started was checked just before.
Ordered(s) ==
    /\ \A i \in 1..Len(s) : s[i] = "commit" => i = Len(s)
    /\ \A i \in 1..Len(s) : s[i] \in {"draft", "alter"} =>
          /\ \E j \in i + 1..Len(s) : s[j] = "compare"
          /\ \E j \in i + 1..Len(s) : s[j] = "render"
    /\ \A i, j \in 1..Len(s) : s[i] = "draft" /\ s[j] = "draft" => i = j
    /\ \A i \in 2..Len(s) : s[i] = "start" => s[i - 1] = "check"

\* A list that nothing is committed or started in.
Plain(s) == ~Has(s, "commit") /\ ~Has(s, "start")

\* The steps of two lists one after the other.
LEMMA HasConcat ==
    ASSUME NEW s \in Seq(Steps), NEW t \in Seq(Steps), NEW x
    PROVE  Has(s \o t, x) <=> Has(s, x) \/ Has(t, x)
  <1>1. /\ Len(s \o t) = Len(s) + Len(t) /\ Len(s) \in Nat /\ Len(t) \in Nat
        /\ \A i \in 1..Len(s) + Len(t) :
              (s \o t)[i] = IF i <= Len(s) THEN s[i] ELSE t[i - Len(s)]
    BY ConcatProperties, LenProperties
  <1>2. ASSUME Has(s, x) PROVE Has(s \o t, x)
    <2>1. PICK i \in 1..Len(s) : s[i] = x
      BY <1>2 DEF Has
    <2>2. i \in 1..Len(s) + Len(t) /\ (s \o t)[i] = x
      BY <1>1, <2>1
    <2> QED BY <1>1, <2>2 DEF Has
  <1>3. ASSUME Has(t, x) PROVE Has(s \o t, x)
    <2>1. PICK i \in 1..Len(t) : t[i] = x
      BY <1>3 DEF Has
    <2>2. /\ i + Len(s) \in 1..Len(s) + Len(t)
          /\ ~(i + Len(s) <= Len(s)) /\ (i + Len(s)) - Len(s) = i
      BY <1>1
    <2>3. (s \o t)[i + Len(s)] = x
      BY <1>1, <2>1, <2>2
    <2> QED BY <1>1, <2>2, <2>3 DEF Has
  <1>4. ASSUME Has(s \o t, x) PROVE Has(s, x) \/ Has(t, x)
    <2>1. PICK i \in 1..Len(s) + Len(t) : (s \o t)[i] = x
      BY <1>1, <1>4 DEF Has
    <2>2. CASE i <= Len(s)
      BY <1>1, <2>1, <2>2 DEF Has
    <2>3. CASE ~(i <= Len(s))
      <3>1. i - Len(s) \in 1..Len(t) /\ t[i - Len(s)] = x
        BY <1>1, <2>1, <2>3
      <3> QED BY <3>1 DEF Has
    <2> QED BY <2>2, <2>3
  <1> QED BY <1>2, <1>3, <1>4

\* Plain steps may come before what is ordered, and drafts and alterations
\* before what compares and renders them.
LEMMA OrderedConcat ==
    ASSUME NEW s \in Seq(Steps), NEW t \in Seq(Steps), Plain(s), Ordered(t),
           t # <<>>, Head(t) # "start",
           \/ ~Has(s, "draft") /\ ~Has(s, "alter")
           \/ Has(t, "compare") /\ Has(t, "render"),
           Has(s, "draft") => ~Has(t, "draft"),
           \A i, j \in 1..Len(s) : s[i] = "draft" /\ s[j] = "draft" => i = j
    PROVE  Ordered(s \o t)
  <1> DEFINE u == s \o t
  <1> DEFINE n == Len(s)
  <1> DEFINE m == Len(t)
  <1>1. /\ Len(u) = n + m /\ n \in Nat /\ m \in Nat /\ m # 0
        /\ \A i \in 1..n + m : u[i] = IF i <= n THEN s[i] ELSE t[i - n]
    BY ConcatProperties, LenProperties, EmptySeq
  <1>2. \A i \in 1..n : u[i] = s[i] /\ i \in 1..n + m
    BY <1>1
  <1>3. \A i \in 1..n + m : ~(i <= n) => u[i] = t[i - n] /\ i - n \in 1..m
    BY <1>1
  <1>4. \A j \in 1..m : u[j + n] = t[j] /\ j + n \in 1..n + m /\ ~(j + n <= n)
    <2> TAKE j \in 1..m
    <2>1. j + n \in 1..n + m /\ ~(j + n <= n) /\ (j + n) - n = j
      BY <1>1
    <2> QED BY <1>1, <2>1
  <1> HIDE DEF u, n, m
  <1>a. \A i \in 1..n : s[i] # "commit" /\ s[i] # "start"
    BY DEF Plain, Has, n
  <1>5. \A i \in 1..n + m : u[i] = "commit" => i = n + m
    <2> TAKE i \in 1..n + m
    <2> HAVE u[i] = "commit"
    <2>1. ~(i <= n)
      BY <1>1, <1>2, <1>a
    <2>2. i - n = m
      BY <1>3, <2>1 DEF Ordered, m
    <2> QED BY <1>1, <2>2
  <1>6. \A i \in 1..n + m : u[i] \in {"draft", "alter"} =>
          \A x \in {"compare", "render"} : \E j \in i + 1..n + m : u[j] = x
    <2> TAKE i \in 1..n + m
    <2> HAVE u[i] \in {"draft", "alter"}
    <2> TAKE x \in {"compare", "render"}
    <2>1. CASE i <= n
      <3>1. Has(s, "draft") \/ Has(s, "alter")
        BY <1>1, <1>2, <2>1 DEF Has, n
      <3>2. PICK j \in 1..m : t[j] = x
        BY <3>1 DEF Has, m
      <3>3. j + n \in i + 1..n + m /\ u[j + n] = x
        BY <1>1, <1>4, <2>1, <3>2
      <3> QED BY <3>3
    <2>2. CASE ~(i <= n)
      <3>1. i - n \in 1..m /\ t[i - n] \in {"draft", "alter"}
        BY <1>3, <2>2
      <3>2. PICK j \in (i - n) + 1..m : t[j] = x
        BY <3>1 DEF Ordered, m
      <3>3. j \in 1..m /\ j + n \in i + 1..n + m
        BY <1>1, <3>1, <3>2
      <3> QED BY <1>4, <3>2, <3>3
    <2> QED BY <2>1, <2>2
  <1>7. \A i, j \in 1..n + m : u[i] = "draft" /\ u[j] = "draft" => i = j
    <2> TAKE i, j \in 1..n + m
    <2> HAVE u[i] = "draft" /\ u[j] = "draft"
    <2>1. CASE i <= n /\ j <= n
      BY <1>1, <1>2, <2>1 DEF n
    <2>2. CASE ~(i <= n) /\ ~(j <= n)
      <3>1. i - n = j - n
        BY <1>3, <2>2 DEF Ordered, m
      <3> QED BY <1>1, <3>1
    <2>3. CASE ~(i <= n <=> j <= n)
      <3>1. ASSUME NEW k \in 1..n + m, u[k] = "draft", k <= n PROVE Has(s, "draft")
        <4>1. k \in 1..n
          BY <1>1, <3>1
        <4> QED BY <1>2, <3>1, <4>1 DEF Has, n
      <3>2. ASSUME NEW k \in 1..n + m, u[k] = "draft", ~(k <= n) PROVE Has(t, "draft")
        BY <1>3, <3>2 DEF Has, m
      <3>3. Has(s, "draft") /\ Has(t, "draft")
        BY <2>3, <3>1, <3>2
      <3> QED BY <3>3
    <2> QED BY <2>1, <2>2, <2>3
  <1>8. \A i \in 2..n + m : u[i] = "start" => u[i - 1] = "check"
    <2> TAKE i \in 2..n + m
    <2> HAVE u[i] = "start"
    <2>1. i \in 1..n + m /\ ~(i <= n)
      BY <1>1, <1>2, <1>a
    <2>2. i - n \in 1..m /\ t[i - n] = "start"
      BY <1>3, <2>1
    <2>3. i - n # 1
      BY <2>2 DEF m
    <2>4. i - n \in 2..m /\ (i - n) - 1 \in 1..m
      BY <1>1, <2>2, <2>3
    <2>5. t[(i - n) - 1] = "check"
      BY <2>2, <2>4 DEF Ordered, m
    <2>6. (i - 1) = ((i - n) - 1) + n
      BY <1>1, <2>1
    <2> QED BY <1>4, <2>4, <2>5, <2>6
  <1>9. Len(u) = n + m
    BY <1>1
  <1>10. Ordered(u)
    BY <1>5, <1>6, <1>7, <1>8, <1>9 DEF Ordered
  <1> QED BY <1>10 DEF u
\* Taking the first step off the list keeps the order of the others.
LEMMA OrderedTail ==
    ASSUME NEW s \in Seq(Steps), s # <<>>, Ordered(s)
    PROVE  /\ Tail(s) \in Seq(Steps) /\ Ordered(Tail(s))
           /\ \A x : Has(Tail(s), x) => Has(s, x)
           /\ \A x : Has(s, x) /\ Head(s) # x => Has(Tail(s), x)
           /\ Head(s) = "commit" => Tail(s) = <<>>
           /\ Head(s) \in {"draft", "alter"} => Has(Tail(s), "compare") /\ Has(Tail(s), "render")
           /\ Head(s) = "draft" => ~Has(Tail(s), "draft")
           /\ Tail(s) # <<>> /\ Head(Tail(s)) = "start" => Head(s) = "check"
  <1> DEFINE t == Tail(s)
  <1> DEFINE m == Len(t)
  <1>1. /\ t \in Seq(Steps) /\ m \in Nat /\ Len(s) = m + 1 /\ Head(s) = s[1]
        /\ \A i \in 1..m : t[i] = s[i + 1] /\ i + 1 \in 1..Len(s)
        /\ t = <<>> <=> m = 0
        /\ m # 0 => Head(t) = t[1]
    <2>1. t \in Seq(Steps) /\ m = Len(s) - 1 /\ \A i \in 1..m : t[i] = s[i + 1]
      BY HeadTailProperties
    <2>2. Len(s) \in Nat \ {0} /\ m \in Nat
      BY <2>1, LenProperties, EmptySeq
    <2>3. t = <<>> <=> m = 0
      BY <2>1, EmptySeq
    <2> HIDE DEF t
    <2>4. m = Len(t) /\ (m # 0 => Head(t) = t[1])
      BY <2>1 DEF t
    <2> QED BY <2>1, <2>2, <2>3, <2>4
  <1>2. \A i \in 2..m + 1 : i - 1 \in 1..m /\ t[i - 1] = s[i]
    <2> TAKE i \in 2..m + 1
    <2>1. i - 1 \in 1..m /\ (i - 1) + 1 = i
      BY <1>1
    <2> QED BY <1>1, <2>1
  <1> HIDE DEF t, m
  <1>3. \A x : Has(t, x) => Has(s, x)
    BY <1>1 DEF Has, m
  <1>4. \A x : Has(s, x) /\ Head(s) # x => Has(t, x)
    <2> TAKE x
    <2> HAVE Has(s, x) /\ Head(s) # x
    <2>1. PICK i \in 1..m + 1 : s[i] = x
      BY <1>1 DEF Has
    <2>2. i \in 2..m + 1
      BY <1>1, <2>1
    <2> QED BY <1>2, <2>1, <2>2 DEF Has, m
  <1>5. m # 0 \/ Head(s) # "commit" \/ t = <<>>
    BY <1>1
  <1>6. Head(s) = "commit" => t = <<>>
    BY <1>1 DEF Ordered
  <1>7. ASSUME NEW x \in {"compare", "render"}, Head(s) \in {"draft", "alter"} PROVE Has(t, x)
    <2>1. 1 \in 1..Len(s)
      BY <1>1
    <2>2. PICK j \in 2..m + 1 : s[j] = x
      BY <1>1, <1>7, <2>1 DEF Ordered
    <2> QED BY <1>2, <2>2 DEF Has, m
  <1>8. Head(s) = "draft" => ~Has(t, "draft")
    <2> SUFFICES ASSUME Head(s) = "draft", NEW i \in 1..m, t[i] = "draft" PROVE FALSE
      BY DEF Has, m
    <2>1. 1 \in 1..Len(s) /\ i + 1 \in 1..Len(s) /\ s[i + 1] = "draft" /\ i + 1 # 1
      BY <1>1
    <2> QED BY <1>1, <2>1 DEF Ordered
  <1>9. t # <<>> /\ Head(t) = "start" => Head(s) = "check"
    <2> HAVE t # <<>> /\ Head(t) = "start"
    <2>1. 1 \in 1..m /\ s[2] = "start" /\ 2 \in 2..Len(s) /\ 2 - 1 = 1
      BY <1>1
    <2> QED BY <1>1, <2>1 DEF Ordered
  <1>10. Ordered(t)
    <2>1. \A i \in 1..m : t[i] = "commit" => i = m
      <3> TAKE i \in 1..m
      <3> HAVE t[i] = "commit"
      <3>1. i + 1 = m + 1
        BY <1>1 DEF Ordered
      <3> QED BY <1>1, <3>1
    <2>2. \A i \in 1..m : t[i] \in {"draft", "alter"} =>
            \A x \in {"compare", "render"} : \E j \in i + 1..m : t[j] = x
      <3> TAKE i \in 1..m
      <3> HAVE t[i] \in {"draft", "alter"}
      <3> TAKE x \in {"compare", "render"}
      <3>1. s[i + 1] \in {"draft", "alter"} /\ i + 1 \in 1..Len(s)
        BY <1>1
      <3>2. PICK j \in (i + 1) + 1..m + 1 : s[j] = x
        BY <1>1, <3>1 DEF Ordered
      <3>3. j - 1 \in i + 1..m /\ j \in 2..m + 1
        BY <1>1, <3>2
      <3> QED BY <1>2, <3>2, <3>3
    <2>3. \A i, j \in 1..m : t[i] = "draft" /\ t[j] = "draft" => i = j
      <3> TAKE i, j \in 1..m
      <3> HAVE t[i] = "draft" /\ t[j] = "draft"
      <3>1. i + 1 = j + 1
        BY <1>1 DEF Ordered
      <3> QED BY <1>1, <3>1
    <2>4. \A i \in 2..m : t[i] = "start" => t[i - 1] = "check"
      <3> TAKE i \in 2..m
      <3> HAVE t[i] = "start"
      <3>1. i \in 1..m /\ i - 1 \in 1..m /\ (i - 1) + 1 = i /\ i + 1 \in 2..Len(s)
            /\ (i + 1) - 1 = i
        BY <1>1
      <3>2. s[i + 1] = "start" /\ t[i - 1] = s[i]
        BY <1>1, <3>1
      <3> QED BY <3>1, <3>2 DEF Ordered
    <2> QED BY <2>1, <2>2, <2>3, <2>4 DEF Ordered, m
  <1> QED BY <1>1, <1>3, <1>4, <1>6, <1>7, <1>8, <1>9, <1>10 DEF t

\* A list of one step.
LEMMA One ==
    ASSUME NEW x \in Steps
    PROVE  /\ <<x>> \in Seq(Steps) /\ <<x>> # <<>> /\ Head(<<x>>) = x
           /\ Len(<<x>>) = 1
           /\ \A y : Has(<<x>>, y) <=> y = x
           /\ x \notin {"draft", "alter"} => Ordered(<<x>>)
           /\ x \notin {"commit", "start"} => Plain(<<x>>)
           /\ \A i, j \in 1..Len(<<x>>) : i = j
  <1>1. <<x>> \in Seq(Steps) /\ <<x>> # <<>> /\ Head(<<x>>) = x /\ Len(<<x>>) = 1 /\ <<x>>[1] = x
    OBVIOUS
  <1> QED BY <1>1 DEF Has, Ordered, Plain

\* What is first in two lists.
LEMMA HeadConcat ==
    ASSUME NEW s \in Seq(Steps), NEW t \in Seq(Steps), s # <<>>
    PROVE  s \o t \in Seq(Steps) /\ s \o t # <<>> /\ Head(s \o t) = Head(s)
  BY ConcatProperties, LenProperties, EmptySeq, HeadTailProperties

\* Lists that only read, compare and render.
Quietly(s) ==
    /\ s \in Seq(Steps) /\ s # <<>> /\ Head(s) = "get"
    /\ Plain(s) /\ ~Has(s, "draft") /\ ~Has(s, "alter")

LEMMA QuietlyConcat ==
    ASSUME NEW s, Quietly(s), NEW t \in Seq(Steps), Plain(t), ~Has(t, "draft"), ~Has(t, "alter")
    PROVE  Quietly(s \o t)
  BY HeadConcat, HasConcat DEF Quietly, Plain

\* A command that locks compares and renders before it commits.
Whole(s) ==
    /\ s \in Seq(Steps) /\ s # <<>> /\ Head(s) # "start" /\ Ordered(s)
    /\ Has(s, "commit") => Has(s, "compare") /\ Has(s, "render")

\* Every command keeps the order.
LEMMA Scripts == ASSUME NEW c \in Commands PROVE Whole(Script[c])
  <1>s. {"get", "load", "refresh", "compare", "draft", "alter", "render", "commit",
         "check", "start"} \subseteq Steps
    BY DEF Steps, Reads
  <1> DEFINE Step1(x) == /\ <<x>> \in Seq(Steps) /\ Plain(<<x>>)
                         /\ ~Has(<<x>>, "draft") /\ ~Has(<<x>>, "alter")
  <1>0. \A x \in {"get", "load", "compare", "render", "check"} : Step1(x)
    BY <1>s, One
  <1>1. Quietly(Resolve)
    BY <1>s, One DEF Resolve, Quietly
  <1>2. Quietly(GenerateLock)
    BY <1>0, <1>1, QuietlyConcat DEF GenerateLock
  <1>3. Quietly(ValidateProjectLock) /\ Has(ValidateProjectLock, "compare")
    <2>1. Has(<<"compare">>, "compare")
      BY <1>s, One
    <2> QED BY <1>0, <1>2, <2>1, QuietlyConcat, HasConcat DEF ValidateProjectLock, Quietly
  <1>4. Quietly(Plan) /\ Has(Plan, "compare")
    BY <1>1, <1>3, QuietlyConcat, HasConcat DEF Plan, Quietly
  <1>5. /\ Quietly(GenerateRuntimeFiles)
        /\ Has(GenerateRuntimeFiles, "compare") /\ Has(GenerateRuntimeFiles, "render")
    <2>1. Has(<<"render">>, "render")
      BY <1>s, One
    <2> QED BY <1>0, <1>4, <2>1, QuietlyConcat, HasConcat DEF GenerateRuntimeFiles, Quietly
  <1>6. /\ Whole(Transaction) /\ Has(Transaction, "compare") /\ Has(Transaction, "render")
        /\ ~Has(Transaction, "draft") /\ Head(Transaction) = "get"
    <2> DEFINE s == GenerateRuntimeFiles \o Plan
    <2>1. Quietly(s) /\ Has(s, "compare") /\ Has(s, "render")
      BY <1>4, <1>5, QuietlyConcat, HasConcat DEF Quietly
    <2>2. /\ <<"commit">> \in Seq(Steps) /\ <<"commit">> # <<>>
          /\ Head(<<"commit">>) = "commit" /\ Ordered(<<"commit">>)
          /\ ~Has(<<"commit">>, "draft")
      BY <1>s, One
    <2>3. \A i, j \in 1..Len(s) : s[i] = "draft" /\ s[j] = "draft" => i = j
      BY <2>1 DEF Quietly, Has
    <2> HIDE DEF s
    <2>4. Ordered(s \o <<"commit">>)
      BY <2>1, <2>2, <2>3, OrderedConcat DEF Quietly
    <2>5. Transaction = s \o <<"commit">>
      BY DEF Transaction, s
    <2> QED BY <2>1, <2>2, <2>4, <2>5, HasConcat, HeadConcat DEF Whole, Quietly
  <1>7. ASSUME NEW s, Quietly(s), NEW t, Whole(t)
        PROVE  Whole(s \o t) /\ Head(s \o t) = "get"
               /\ \A x : Has(t, x) => Has(s \o t, x)
    <2>1. \A i, j \in 1..Len(s) : s[i] = "draft" /\ s[j] = "draft" => i = j
      BY <1>7 DEF Quietly, Has
    <2>2. Ordered(s \o t)
      BY <1>7, <2>1, OrderedConcat DEF Quietly, Whole
    <2> QED BY <1>7, <2>2, HasConcat, HeadConcat DEF Whole, Quietly, Plain
  <1>8. /\ Whole(runLockGenerate)
        /\ Has(runLockGenerate, "compare") /\ Has(runLockGenerate, "render")
    <2> DEFINE s == GenerateLock \o <<"draft">>
    <2>1. <<"draft">> \in Seq(Steps) /\ Plain(<<"draft">>) /\ <<"draft">> # <<>>
      BY <1>s, One
    <2>2. s \in Seq(Steps) /\ s # <<>> /\ Head(s) = "get" /\ Plain(s)
      BY <1>2, <2>1, HeadConcat, HasConcat DEF Quietly, Plain
    <2>3. \A i, j \in 1..Len(s) : s[i] = "draft" /\ s[j] = "draft" => i = j
      <3>1. \A i \in 1..Len(s) : s[i] = "draft" => i = Len(s)
        <4>1. /\ Len(s) = Len(GenerateLock) + 1 /\ Len(GenerateLock) \in Nat
              /\ \A i \in 1..Len(GenerateLock) + 1 :
                    i <= Len(GenerateLock) => s[i] = GenerateLock[i]
          BY <1>2, <2>1, ConcatProperties, LenProperties, One, <1>s DEF Quietly
        <4>2. \A i \in 1..Len(GenerateLock) : GenerateLock[i] # "draft"
          BY <1>2 DEF Quietly, Has
        <4> QED BY <4>1, <4>2
      <3> QED BY <3>1
    <2> HIDE DEF s
    <2>4. Ordered(s \o Transaction)
      BY <1>6, <2>2, <2>3, OrderedConcat DEF Whole
    <2>5. runLockGenerate = s \o Transaction
      BY DEF runLockGenerate, s
    <2> QED BY <1>6, <2>2, <2>4, <2>5, HasConcat, HeadConcat DEF Whole
  <1>9. ASSUME NEW t, Whole(t), Has(t, "compare"), Has(t, "render")
        PROVE  Whole(<<"alter">> \o t) /\ Head(<<"alter">> \o t) = "alter"
    <2>1. /\ <<"alter">> \in Seq(Steps) /\ <<"alter">> # <<>> /\ Head(<<"alter">>) = "alter"
          /\ Plain(<<"alter">>) /\ ~Has(<<"alter">>, "draft")
      BY <1>s, One
    <2>2. \A i, j \in 1..Len(<<"alter">>) : i = j
      BY <1>s, One
    <2>3. Ordered(<<"alter">> \o t)
      BY <1>9, <2>1, <2>2, OrderedConcat DEF Whole
    <2> QED BY <1>9, <2>1, <2>3, HasConcat, HeadConcat DEF Whole
  <1>10. Whole(Set) /\ Whole(runConfigSet)
    <2>1. RegenerateRuntimeWithUpdatedLock = runLockGenerate
      BY DEF RegenerateRuntimeWithUpdatedLock, runLockGenerate
    <2>2. Whole(Set)
      BY <1>8, <1>9, <2>1 DEF Set
    <2> QED BY <1>3, <1>1, <1>7, <2>2, QuietlyConcat DEF runConfigSet, Verify, Quietly
  <1>11. Whole(runAddonEnable)
    <2> DEFINE s == <<"get", "alter">>
    <2>1. /\ s \in Seq(Steps) /\ s # <<>> /\ Head(s) = "get" /\ Len(s) = 2
          /\ s[1] = "get" /\ s[2] = "alter"
      BY <1>s
    <2>2. \A i \in 1..Len(s) : s[i] \in {"get", "alter"}
      BY <2>1
    <2> HIDE DEF s
    <2>3. Plain(s) /\ ~Has(s, "draft")
      BY <2>2 DEF Plain, Has
    <2>4. \A i, j \in 1..Len(s) : s[i] = "draft" /\ s[j] = "draft" => i = j
      BY <2>2
    <2>5. RegenerateRuntimeWithUpdatedLock = runLockGenerate
      BY DEF RegenerateRuntimeWithUpdatedLock, runLockGenerate
    <2>6. Ordered(s \o runLockGenerate)
      BY <1>8, <2>1, <2>3, <2>4, OrderedConcat DEF Whole
    <2>7. Whole(s \o runLockGenerate)
      BY <1>8, <2>1, <2>3, <2>6, HasConcat, HeadConcat DEF Whole
    <2> QED BY <1>3, <1>1, <1>7, <2>5, <2>7, QuietlyConcat
            DEF runAddonEnable, Enable, Verify, Quietly, s
  <1>12. Whole(runGenerate)
    BY <1>1, <1>3, <1>6, <1>7, QuietlyConcat DEF runGenerate, Verify, Quietly
  <1>13. Whole(runUp)
    <2> DEFINE t == <<"check", "start">>
    <2>1. /\ t \in Seq(Steps) /\ t # <<>> /\ Head(t) = "check" /\ Len(t) = 2
          /\ t[1] = "check" /\ t[2] = "start"
      BY <1>s
    <2> HIDE DEF t
    <2>2. Ordered(t) /\ ~Has(t, "commit")
      BY <2>1 DEF Ordered, Has
    <2>3. Whole(t)
      BY <2>1, <2>2 DEF Whole
    <2> QED BY <1>1, <1>3, <1>7, <2>3, QuietlyConcat DEF runUp, Verify, Quietly, t
  <1>14. Whole(runSourceUpdate)
    BY <1>s, One DEF runSourceUpdate, Whole
  <1> QED BY <1>8, <1>10, <1>11, <1>12, <1>13, <1>14 DEF Commands, Script
-----------------------------------------------------------------------------
(* The inductive invariant.                                                  *)

\* What is so of a process, whatever the others do: what it has staged and
\* kept, the step it is in the middle of, and the lock it started from.
Sound(p, r) ==
    /\ r \in Processes
    /\ r.staged <=> r.at \in {"fetch", "promote", "install", "rollback"}
    /\ r.kept # None => r.at \in {"install", "rollback", "mark"}
    /\ r.at \in {"idle", "done"} => r.todo = <<>>
    /\ r.at \in {"fetch", "promote", "install", "rollback", "mark", "read"} =>
          IsGit(r.src) /\ r.todo # <<>> /\ Head(r.todo) \in Reads \cup {"refresh"}
    /\ r.at = "read" => Head(r.todo) \in Reads
    /\ r.at \notin {"idle", "done"} => r.old \in Identity
    /\ p # Main => \A i \in 1..Len(r.todo) : r.todo[i] = "refresh"
    /\ Ordered(r.todo)

AllSound == \A p \in Procs : Sound(p, proc[p])

\* What killed processes left in the cache is at most two directories each.
Littered == litter <= 2 * faults

\* The lock a command made has the digest of the lock on disk for an image that
\* both have.
Pinned(old) == ImageOf[old.from] = ImageOf[lock.from] => old.digest = lock.digest

\* A command of the operator, between its steps.
Working(r) ==
    /\ r.todo # <<>> => Pinned(r.old)
    /\ Has(r.todo, "draft") => r.old = lock
    /\ Has(r.todo, "commit") /\ ~Has(r.todo, "render") => ImageOf[r.made] = ImageOf[r.old.from]
    /\ Has(r.todo, "commit") /\ ~Has(r.todo, "compare") => r.old.config = r.cfg
    /\ r.todo # <<>> /\ Head(r.todo) = "start" => files = recorded

\* The files were rendered from what the lock records.
RecordedIsLocked ==
    /\ ImageOf[recorded.from] = ImageOf[lock.from]
    /\ recorded.config = lock.config
    /\ recorded.digest = lock.digest

IInv ==
    /\ TypeOK
    /\ AllSound
    /\ Littered
    /\ Working(proc[Main])
    /\ RecordedIsLocked

-----------------------------------------------------------------------------
(* Processes.                                                                *)

\* Embedded, its image and the first versions are what they should be.
LEMMA Constants ==
    /\ Embedded \in Definitions /\ Tampered \in Definitions
    /\ 0 \in Versions /\ 1 \in Versions /\ 1 \in Trees /\ None \in Sources
    /\ Acceptable \subseteq Definitions /\ Refs \subseteq Definitions /\ Trees \subseteq Definitions
  BY Names DEF Definitions, Versions, Trees, Sources

\* A configured repository.
LEMMA GitType ==
    ASSUME NEW s \in Sources, IsGit(s)
    PROVE  s.url \in Urls /\ s.ref \in Refs
  BY Names, CatalogsAreSources DEF Sources, IsGit

\* A process that is at rest is sound.
LEMMA RestingSound ==
    ASSUME NEW p \in Procs, NEW at \in {"idle", "done"}
    PROVE  Sound(p, Resting(at)) /\ Working(Resting(at)) /\ Resting(at).todo = <<>>
  <1>1. Resting(at) \in Processes
    BY Constants DEF Resting, Processes, Points, Sources
  <1>2. Len(<<>>) = 0 /\ Ordered(<<>>) /\ \A x : ~Has(<<>>, x)
    BY DEF Ordered, Has
  <1> QED BY <1>1, <1>2 DEF Sound, Working, Resting

\* A step changes one process, and the others stay sound.
LEMMA Replaced ==
    ASSUME TypeOK, AllSound, NEW p \in Procs, NEW r, Sound(p, r),
           proc' = [proc EXCEPT ![p] = r]
    PROVE  /\ proc' \in [Procs -> Processes] /\ AllSound'
           /\ proc'[p] = r /\ (p # Main => proc'[Main] = proc[Main])
           /\ \A q \in Procs :
                /\ proc'[q].staged <=> proc'[q].at \in {"fetch", "promote", "install", "rollback"}
                /\ proc'[q].kept # None => proc'[q].at \in {"install", "rollback", "mark"}
  <1>1. proc \in [Procs -> Processes] /\ r \in Processes /\ Main \in Procs
    BY DEF TypeOK, Sound, Procs
  <1>2. \A q \in Procs : proc'[q] = IF q = p THEN r ELSE proc[q]
    BY <1>1
  <1>3. \A q \in Procs : Sound(q, proc'[q])
    BY <1>2 DEF AllSound
  <1> QED BY <1>1, <1>2, <1>3 DEF AllSound, Sound

\* A process that takes the first step off its list.
LEMMA GoesSound ==
    ASSUME TypeOK, AllSound, NEW p \in Procs, NEW s \in Processes, Goes(p, s),
           s.todo = proc[p].todo, s.todo # <<>>, ~s.staged, s.kept = None, s.old \in Identity
    PROVE  \E r : /\ Sound(p, r) /\ proc' = [proc EXCEPT ![p] = r]
                  /\ r = [s EXCEPT !.todo = Tail(@), !.at = "run"]
  <1> DEFINE r == [s EXCEPT !.todo = Tail(@), !.at = "run"]
  <1>1. Sound(p, proc[p])
    BY DEF AllSound
  <1>2. s.todo \in Seq(Steps) /\ Ordered(s.todo)
    BY <1>1 DEF Sound, Processes
  <1>3. Tail(s.todo) \in Seq(Steps) /\ Ordered(Tail(s.todo))
    BY <1>2, OrderedTail
  <1>4. r \in Processes /\ r.at = "run" /\ r.todo = Tail(s.todo) /\ r.old = s.old
        /\ r.staged = s.staged /\ r.kept = s.kept
    BY <1>3 DEF Processes, Points
  <1>5. p # Main => \A i \in 1..Len(r.todo) : r.todo[i] = "refresh"
    <2> HAVE p # Main
    <2>1. \A i \in 1..Len(s.todo) : s.todo[i] = "refresh"
      BY <1>1 DEF Sound
    <2>2. /\ Len(Tail(s.todo)) = Len(s.todo) - 1 /\ Len(s.todo) \in Nat
          /\ \A i \in 1..Len(Tail(s.todo)) : Tail(s.todo)[i] = s.todo[i + 1]
      BY <1>2, HeadTailProperties, LenProperties
    <2> QED BY <1>4, <2>1, <2>2
  <1>6. Sound(p, r)
    BY <1>3, <1>4, <1>5 DEF Sound
  <1> QED BY <1>6 DEF Goes
\* What a process makes of itself is sound, and of the operator's command, working.
Keeps(p) ==
    \E r : /\ Sound(p, r) /\ (p = Main => Working(r))
           /\ proc' = [proc EXCEPT ![p] = r]

\* A command that returns keeps nothing.
LEMMA ReturnsKeeps ==
    ASSUME NEW p \in Procs, Returns(p)
    PROVE  Keeps(p)
  BY RestingSound DEF Returns, Keeps

\* A step that takes nothing off the list keeps what the command has found out.
LEMMA SameTodo ==
    ASSUME Working(proc[Main]), NEW p \in Procs, NEW r, Sound(p, r),
           proc' = [proc EXCEPT ![p] = r], r.todo = proc[p].todo, r.old = proc[p].old,
           r.made = proc[p].made, r.cfg = proc[p].cfg
    PROVE  Keeps(p)
  <1>1. p = Main => Working(r)
    BY DEF Working, Pinned
  <1> QED BY <1>1 DEF Keeps

\* One that does keeps it as well, if what the step is for has been done.
LEMMA TailWorks ==
    ASSUME NEW o \in Processes, o.todo # <<>>, Ordered(o.todo), Working(o),
           NEW r, r.todo = Tail(o.todo), Pinned(r.old),
           Has(r.todo, "draft") => r.old = o.old,
           \/ ImageOf[r.made] = ImageOf[r.old.from]
           \/ Has(r.todo, "render")
           \/ Head(o.todo) # "render" /\ r.made = o.made /\ r.old = o.old,
           \/ r.old.config = r.cfg
           \/ Has(r.todo, "compare")
           \/ Head(o.todo) # "compare" /\ r.cfg = o.cfg /\ r.old = o.old,
           Head(o.todo) = "check" => files = recorded
    PROVE  Working(r)
  <1>1. o.todo \in Seq(Steps)
    BY DEF Processes
  <1>2. /\ \A x : Has(r.todo, x) => Has(o.todo, x)
        /\ \A x : Has(o.todo, x) /\ Head(o.todo) # x => Has(r.todo, x)
        /\ r.todo # <<>> /\ Head(r.todo) = "start" => Head(o.todo) = "check"
    BY <1>1, OrderedTail
  <1>3. Has(r.todo, "draft") => r.old = lock
    BY <1>2 DEF Working
  <1>4. Has(r.todo, "commit") /\ ~Has(r.todo, "render") => ImageOf[r.made] = ImageOf[r.old.from]
    BY <1>2 DEF Working
  <1>5. Has(r.todo, "commit") /\ ~Has(r.todo, "compare") => r.old.config = r.cfg
    BY <1>2 DEF Working
  <1> QED BY <1>2, <1>3, <1>4, <1>5 DEF Working

\* A step that is none of the lock's takes itself off the list.
LEMMA Proceeds ==
    ASSUME TypeOK, AllSound, Working(proc[Main]), NEW p \in Procs, NEW s \in Processes,
           Goes(p, s), s.todo = proc[p].todo, s.todo # <<>>, ~s.staged, s.kept = None,
           s.old = proc[p].old, proc[p].at \notin {"idle", "done"},
           s.made = proc[p].made, s.cfg = proc[p].cfg,
           Head(s.todo) \notin {"render", "compare", "check"}
    PROVE  Keeps(p)
  <1>1. Sound(p, proc[p]) /\ proc[p] \in Processes
    BY DEF AllSound, Sound
  <1>2. s.old \in Identity /\ Ordered(proc[p].todo)
    BY <1>1 DEF Sound
  <1>3. PICK r : /\ Sound(p, r) /\ proc' = [proc EXCEPT ![p] = r]
                 /\ r = [s EXCEPT !.todo = Tail(@), !.at = "run"]
    BY <1>2, GoesSound
  <1>4. r.todo = Tail(proc[p].todo) /\ r.old = proc[p].old /\ r.made = proc[p].made
        /\ r.cfg = proc[p].cfg
    BY <1>3 DEF Processes
  <1>5. ASSUME p = Main PROVE Working(r)
    <2>1. Pinned(r.old)
      BY <1>4, <1>5 DEF Working
    <2> QED BY <1>1, <1>2, <1>4, <1>5, <2>1, TailWorks
  <1> QED BY <1>3, <1>5 DEF Keeps

\* What a process that keeps all this leaves.
LEMMA KeepsAll ==
    ASSUME IInv, NEW p \in Procs, Keeps(p), UNCHANGED <<lock, recorded, files>>
    PROVE  /\ proc' \in [Procs -> Processes] /\ AllSound'
           /\ Working(proc[Main])' /\ RecordedIsLocked'
           /\ \A q \in Procs :
                /\ proc'[q].staged <=> proc'[q].at \in {"fetch", "promote", "install", "rollback"}
                /\ proc'[q].kept # None => proc'[q].at \in {"install", "rollback", "mark"}
  <1>1. PICK r : /\ Sound(p, r) /\ (p = Main => Working(r))
                 /\ proc' = [proc EXCEPT ![p] = r]
    BY DEF Keeps
  <1>2. TypeOK /\ AllSound /\ Working(proc[Main]) /\ RecordedIsLocked
    BY DEF IInv
  <1>3. /\ proc' \in [Procs -> Processes] /\ AllSound'
        /\ proc'[p] = r /\ (p # Main => proc'[Main] = proc[Main])
        /\ \A q \in Procs :
                /\ proc'[q].staged <=> proc'[q].at \in {"fetch", "promote", "install", "rollback"}
                /\ proc'[q].kept # None => proc'[q].at \in {"install", "rollback", "mark"}
    BY <1>1, <1>2, Replaced
  <1>4. Working(proc'[Main])
    BY <1>1, <1>2, <1>3
  <1>5. Working(proc[Main])'
    BY <1>4 DEF Working, Pinned
  <1> QED BY <1>2, <1>3, <1>5 DEF RecordedIsLocked
\* Between its steps a process has nothing staged.
LEMMA AtRun ==
    ASSUME AllSound, NEW p \in Procs, NEW S, Doing(p, S)
    PROVE  /\ proc[p] \in Processes /\ proc[p].todo # <<>> /\ Head(proc[p].todo) \in S
           /\ proc[p].at = "run" /\ ~proc[p].staged /\ proc[p].kept = None
           /\ proc[p].old \in Identity /\ Ordered(proc[p].todo)
           /\ proc[p].todo \in Seq(Steps)
  <1>1. Sound(p, proc[p]) /\ proc[p] \in Processes
    BY DEF AllSound, Sound
  <1> QED BY <1>1 DEF Sound, Doing, At, Processes

-----------------------------------------------------------------------------
(* The steps of a source.                                                    *)

\* A definition that is read becomes what was got or loaded.
LEMMA TakesKeeps ==
    ASSUME IInv, NEW p \in Procs, NEW d \in Definitions, proc[p].at \in {"run", "read"},
           proc[p].todo # <<>>, Head(proc[p].todo) \in Reads,
           \/ Takes(p, Head(proc[p].todo), d)
           \/ Goes(p, [proc[p] EXCEPT !.got = d])
    PROVE  Keeps(p)
  <1>1. CASE Returns(p)
    BY <1>1, ReturnsKeeps
  <1>2. CASE ~Returns(p)
    <2>1. PICK s \in {[proc[p] EXCEPT !.got = d], [proc[p] EXCEPT !.content = d]} : Goes(p, s)
      BY <1>2 DEF Takes, Reads
    <2>2. Sound(p, proc[p]) /\ proc[p] \in Processes
      BY DEF IInv, AllSound, Sound
    <2>3. /\ s \in Processes /\ s.todo = proc[p].todo /\ s.staged = proc[p].staged
          /\ s.kept = proc[p].kept /\ s.old = proc[p].old /\ s.made = proc[p].made
          /\ s.cfg = proc[p].cfg
      BY <2>2 DEF Processes
    <2>4. ~s.staged /\ s.kept = None
      BY <2>2, <2>3 DEF Sound
    <2>5. Head(s.todo) \notin {"render", "compare", "check"}
      BY <2>3 DEF Reads
    <2> QED BY <2>1, <2>3, <2>4, <2>5, Proceeds DEF IInv
  <1> QED BY <1>1, <1>2

\* Each step of a source keeps what the command has found out, and the cache a
\* checkout.
LEMMA SourceKeeps ==
    ASSUME IInv, NEW p \in Procs, SourceStep(p)
    PROVE  /\ Keeps(p)
           /\ active' \in Checkouts \cup {None} /\ marked' \in BOOLEAN
           /\ faults' \in 0..MaxFaults /\ faults <= faults'
           /\ UNCHANGED <<project, written, litter, edits>>
  <1> USE DEF At
  <1>0. /\ TypeOK /\ AllSound /\ Working(proc[Main]) /\ Sound(p, proc[p])
        /\ proc[p] \in Processes
    BY DEF IInv, AllSound, Sound
  <1>a. active \in Checkouts \cup {None} /\ marked \in BOOLEAN /\ faults \in 0..MaxFaults
        /\ MaxFaults \in Nat
    BY <1>0, Names DEF TypeOK
  <1>b. Fault => faults' \in 0..MaxFaults /\ faults <= faults'
    BY <1>a DEF Fault
  <1>c. ASSUME NEW r, Sound(p, r), proc' = [proc EXCEPT ![p] = r], r.todo = proc[p].todo,
               r.old = proc[p].old, r.made = proc[p].made, r.cfg = proc[p].cfg
        PROVE  Keeps(p)
    BY <1>0, <1>c, SameTodo
  <1>1. CASE UpdateNothing(p)
    <2>1. Doing(p, {"refresh"}) /\ Goes(p, proc[p])
      BY <1>1 DEF UpdateNothing
    <2>2. Keeps(p)
      BY <1>0, <2>1, AtRun, Proceeds
    <2> QED BY <1>1, <1>a, <2>2 DEF UpdateNothing, cache
  <1>2. CASE ensureCloned(p)
    <2>1. Keeps(p)
      <3>1. CASE Returns(p)
        BY <3>1, ReturnsKeeps
      <3>2. CASE ~Returns(p)
        <4>1. Doing(p, Reads) /\ IsGit(proc[p].src) /\ proc' = [proc EXCEPT ![p].at = "read"]
          BY <1>2, <3>2 DEF ensureCloned, ReadsGit
        <4> DEFINE r == [proc[p] EXCEPT !.at = "read"]
        <4>2. r \in Processes /\ r = [proc[p] EXCEPT !.at = "read"]
          BY <1>0 DEF Processes, Points
        <4>3. proc' = [proc EXCEPT ![p] = r]
          BY <4>1
        <4>4. Sound(p, r)
          BY <1>0, <4>1, <4>2, AtRun DEF Sound, Processes
        <4> QED BY <1>0, <1>c, <4>3, <4>4 DEF Processes
      <3> QED BY <3>1, <3>2
    <2> QED BY <1>2, <1>a, <2>1 DEF ensureCloned, cache
  <1>3. CASE CreateStagingDir(p)
    <2>1. Keeps(p)
      <3>1. CASE Returns(p)
        BY <3>1, ReturnsKeeps
      <3>2. CASE ~Returns(p)
        <4>1. /\ Doing(p, Reads \cup {"refresh"}) /\ IsGit(proc[p].src)
              /\ proc' = [proc EXCEPT ![p].at = "fetch", ![p].staged = TRUE]
          BY <1>3, <3>2 DEF CreateStagingDir, ReadsGit, Refreshes, Doing
        <4> DEFINE r == [proc[p] EXCEPT !.at = "fetch", !.staged = TRUE]
        <4>2. r \in Processes
          BY <1>0 DEF Processes, Points
        <4>3. proc' = [proc EXCEPT ![p] = r]
          BY <1>0, <4>1 DEF TypeOK
        <4>4. Sound(p, r)
          BY <1>0, <4>1, <4>2, AtRun DEF Sound, Processes
        <4> QED BY <1>0, <1>c, <4>3, <4>4 DEF Processes
      <3> QED BY <3>1, <3>2
    <2> QED BY <1>3, <1>a, <2>1 DEF CreateStagingDir, cache
  <1>4. CASE fetchCheckoutAndVerify(p)
    <2>1. Keeps(p)
      <3>1. CASE Returns(p)
        BY <3>1, ReturnsKeeps
      <3>2. CASE ~Returns(p)
        <4>1. proc[p].at = "fetch" /\ proc' = [proc EXCEPT ![p].at = "promote"]
          BY <1>4, <3>2 DEF fetchCheckoutAndVerify
        <4> DEFINE r == [proc[p] EXCEPT !.at = "promote"]
        <4>2. r \in Processes
          BY <1>0 DEF Processes, Points
        <4>3. proc' = [proc EXCEPT ![p] = r]
          BY <4>1
        <4>4. Sound(p, r)
          BY <1>0, <4>1, <4>2 DEF Sound, Processes
        <4> QED BY <1>0, <1>c, <4>3, <4>4 DEF Processes
      <3> QED BY <3>1, <3>2
    <2> QED BY <1>4, <1>a, <2>1 DEF fetchCheckoutAndVerify, cache
  <1>5. CASE FetchFails(p)
    BY <1>5, <1>a, <1>b, ReturnsKeeps DEF FetchFails, cache
  <1>6. CASE PromoteRepo(p)
    <2>1. Keeps(p) /\ active' \in {active, None}
      <3>1. CASE Returns(p)
        BY <1>6, <3>1, ReturnsKeeps DEF PromoteRepo
      <3>2. CASE ~Returns(p)
        <4>1. /\ proc[p].at = "promote" /\ active' = None
              /\ proc' = [proc EXCEPT ![p].at = "install", ![p].kept = active]
          BY <1>6, <3>2 DEF PromoteRepo
        <4> DEFINE r == [proc[p] EXCEPT !.at = "install", !.kept = active]
        <4>2. r \in Processes
          BY <1>0, <1>a DEF Processes, Points
        <4>3. proc' = [proc EXCEPT ![p] = r]
          BY <1>0, <4>1 DEF TypeOK
        <4>4. Sound(p, r)
          BY <1>0, <4>1, <4>2 DEF Sound, Processes
        <4> QED BY <1>0, <1>c, <4>1, <4>3, <4>4 DEF Processes
      <3> QED BY <3>1, <3>2
    <2> QED BY <1>6, <1>a, <2>1 DEF PromoteRepo
  <1>7. CASE Install(p)
    <2>1. proc[p].at = "install" /\ IsGit(proc[p].src) /\ proc[p].src \in Sources
      BY <1>0, <1>7 DEF Install, Sound, Processes
    <2>2. active' \in Checkouts
      BY <1>7, <2>1, GitType DEF Install, Checkouts
    <2> DEFINE r == [proc[p] EXCEPT !.at = "mark", !.staged = FALSE]
    <2>3. r \in Processes
      BY <1>0 DEF Processes, Points
    <2>4. proc' = [proc EXCEPT ![p] = r]
      BY <1>0, <1>7 DEF Install, TypeOK
    <2>5. Sound(p, r)
      BY <1>0, <2>1, <2>3 DEF Sound, Processes
    <2>6. Keeps(p)
      BY <1>0, <1>c, <2>4, <2>5 DEF Processes
    <2> QED BY <1>7, <1>a, <2>2, <2>6 DEF Install
  <1>8. CASE InstallFails(p)
    <2> DEFINE r == [proc[p] EXCEPT !.at = "rollback"]
    <2>1. r \in Processes /\ proc[p].at = "install"
      BY <1>0, <1>8 DEF InstallFails, Processes, Points
    <2>2. proc' = [proc EXCEPT ![p] = r]
      BY <1>8 DEF InstallFails
    <2>3. Sound(p, r)
      BY <1>0, <2>1 DEF Sound, Processes
    <2>4. Keeps(p)
      BY <1>0, <1>c, <2>2, <2>3 DEF Processes
    <2>5. faults' = faults \/ Fault
      BY <1>8 DEF InstallFails
    <2> QED BY <1>8, <1>a, <1>b, <2>4, <2>5 DEF InstallFails, cache
  <1>9. CASE RollbackPromotion(p)
    <2>1. active' \in Checkouts \cup {None}
      BY <1>0, <1>9, <1>a DEF RollbackPromotion, Processes
    <2> QED BY <1>9, <1>a, <2>1, ReturnsKeeps DEF RollbackPromotion
  <1>10. CASE MarkUpdated(p)
    <2> DEFINE done == [proc[p] EXCEPT !.kept = None, !.fresh = TRUE]
    <2>1. /\ done \in Processes /\ done.kept = None /\ done.todo = proc[p].todo
          /\ done.old = proc[p].old /\ done.staged = proc[p].staged
          /\ done.made = proc[p].made /\ done.cfg = proc[p].cfg /\ done.at = proc[p].at
          /\ done.src = proc[p].src
      BY <1>0 DEF Processes
    <2>2. /\ proc[p].at = "mark" /\ ~done.staged /\ done.todo # <<>>
          /\ Head(done.todo) \in Reads \cup {"refresh"}
      BY <1>0, <1>10, <2>1 DEF MarkUpdated, Sound
    <2>3. CASE Head(done.todo) = "refresh"
      <3>1. Goes(p, done)
        BY <1>10, <2>3 DEF MarkUpdated
      <3>2. Keeps(p)
        BY <1>0, <2>1, <2>2, <2>3, <3>1, Proceeds
      <3> QED BY <1>10, <1>a, <3>2 DEF MarkUpdated
    <2>4. CASE Head(done.todo) # "refresh"
      <3> DEFINE r == [done EXCEPT !.at = "read"]
      <3>1. proc' = [proc EXCEPT ![p] = r]
        BY <1>10, <2>4 DEF MarkUpdated
      <3> HIDE DEF done
      <3>2. /\ r \in Processes /\ r.at = "read" /\ r.todo = done.todo /\ r.old = done.old
            /\ r.made = done.made /\ r.cfg = done.cfg /\ r.kept = done.kept
            /\ r.staged = done.staged /\ r.src = done.src
        BY <2>1 DEF Processes, Points
      <3>3. Sound(p, r)
        BY <1>0, <2>1, <2>2, <2>4, <3>2 DEF Sound
      <3>4. Keeps(p)
        BY <1>c, <2>1, <3>1, <3>2, <3>3
      <3> QED BY <1>10, <1>a, <3>4 DEF MarkUpdated
    <2> QED BY <2>3, <2>4
  <1>11. CASE ReadSource(p)
    <2>1. proc[p].at = "read" /\ proc[p].todo # <<>> /\ Head(proc[p].todo) \in Reads
      BY <1>0, <1>11 DEF ReadSource, Sound
    <2>2. Keeps(p)
      <3>1. CASE active # None
        <4>1. LoadServiceDefinition(active) \in Definitions
          BY <1>a, <3>1, Constants DEF LoadServiceDefinition, Checkouts
        <4>2. Takes(p, Head(proc[p].todo), LoadServiceDefinition(active))
          BY <1>11, <3>1 DEF ReadSource
        <4> QED BY <2>1, <4>1, <4>2, TakesKeeps
      <3>2. CASE active = None
        <4>1. Returns(p) \/ Goes(p, [proc[p] EXCEPT !.got = Embedded])
          BY <1>11, <3>2 DEF ReadSource
        <4> QED BY <2>1, <4>1, Constants, ReturnsKeeps, TakesKeeps
      <3> QED BY <3>1, <3>2
    <2> QED BY <1>11, <1>a, <2>2 DEF ReadSource, cache
  <1>12. CASE ReadLocal(p)
    <2>1. Doing(p, Reads)
      BY <1>12 DEF ReadLocal
    <2>2. proc[p].at = "run" /\ proc[p].todo # <<>> /\ Head(proc[p].todo) \in Reads
      BY <1>0, <2>1, AtRun
    <2>3. tree \in Definitions /\ Embedded \in Definitions
      BY <1>0, Constants DEF TypeOK
    <2>4. PICK d \in Definitions : Takes(p, Head(proc[p].todo), d)
      BY <1>12, <2>3 DEF ReadLocal
    <2>5. Keeps(p)
      BY <2>2, <2>4, TakesKeeps
    <2> QED BY <1>12, <1>a, <2>5 DEF ReadLocal, cache
  <1> QED
    BY <1>1, <1>2, <1>3, <1>4, <1>5, <1>6, <1>7, <1>8, <1>9, <1>10, <1>11, <1>12 DEF SourceStep
-----------------------------------------------------------------------------
(* The steps of the lock.                                                    *)

\* The lock that is made of what was got and loaded is a lock, and pins what
\* the old one does.
LEMMA LockType ==
    ASSUME TypeOK, NEW p \in Procs, proc[p].old \in Identity
    PROVE  /\ GenerateLockFile(p) \in Identity
           /\ GenerateLockFile(p).config = proc[p].cfg
           /\ proc[p].old = lock => Pinned(GenerateLockFile(p))
  <1>1. proc[p] \in Processes /\ cli \in Versions /\ registry \in Versions
    BY DEF TypeOK
  <1>2. ResolveImage(p, proc[p].got) \in Versions
    BY <1>1 DEF ResolveImage, ResolveOfficialImage, Identity
  <1>3. GenerateLockFile(p) \in Identity
    BY <1>1, <1>2 DEF GenerateLockFile, Identity, Processes
  <1>4. proc[p].old = lock => Pinned(GenerateLockFile(p))
    BY DEF Pinned, GenerateLockFile, ResolveImage
  <1> QED BY <1>3, <1>4 DEF GenerateLockFile

\* Only the operator's command has steps of the lock.
LEMMA OnlyMain ==
    ASSUME AllSound, NEW p \in Procs, NEW S, Doing(p, S), "refresh" \notin S
    PROVE  p = Main
  <1>1. proc[p].todo \in Seq(Steps) /\ proc[p].todo # <<>> /\ Head(proc[p].todo) \in S
    BY AtRun
  <1>2. Head(proc[p].todo) = proc[p].todo[1] /\ 1 \in 1..Len(proc[p].todo)
    BY <1>1, LenProperties, EmptySeq
  <1>3. p # Main => proc[p].todo[1] = "refresh"
    BY <1>2 DEF AllSound, Sound
  <1> QED BY <1>1, <1>2, <1>3

\* Each step of the lock that does not commit keeps what the command has found
\* out.
LEMMA LockKeeps ==
    ASSUME IInv, NEW p \in Procs,
           \/ DraftLock(p) \/ DiffLockFiles(p) \/ AlterConfig(p) \/ writeResolvedFiles(p)
           \/ ValidateGeneratedFiles(p) \/ Up(p) \/ ResolveFails(p)
    PROVE  Keeps(p)
  <1> DEFINE o == proc[p]
  <1>0. TypeOK /\ AllSound /\ Working(proc[Main])
    BY DEF IInv
  <1>c. Embedded \in Definitions
    BY Constants
  <1>1. CASE Returns(p)
    BY <1>1, ReturnsKeeps
  <1>2. ASSUME NEW x \in {"draft", "compare", "alter", "render", "check", "start"}, Doing(p, {x})
        PROVE  /\ p = Main /\ o \in Processes /\ o.todo # <<>> /\ Head(o.todo) = x
               /\ ~o.staged /\ o.kept = None /\ o.old \in Identity /\ Ordered(o.todo)
               /\ o.at = "run" /\ Working(o) /\ Pinned(o.old) /\ o.todo \in Seq(Steps)
    <2>1. p = Main
      BY <1>0, <1>2, OnlyMain
    <2> QED BY <1>0, <1>2, <2>1, AtRun DEF Working
  <1>3. CASE DraftLock(p)
    <2> DEFINE s == [o EXCEPT !.old = GenerateLockFile(p), !.got = Embedded, !.content = Embedded]
    <2>1. Doing(p, {"draft"}) /\ Goes(p, s)
      BY <1>3 DEF DraftLock
    <2>2. o.old \in Identity /\ o \in Processes /\ o.todo \in Seq(Steps) /\ Head(o.todo) = "draft"
          /\ o.todo # <<>> /\ Ordered(o.todo) /\ Working(o) /\ ~o.staged /\ o.kept = None
      BY <1>2, <2>1
    <2>3. /\ s \in Processes /\ s.todo = o.todo /\ ~s.staged /\ s.kept = None
          /\ s.old = GenerateLockFile(p) /\ s.old \in Identity
      BY <1>0, <1>c, <2>2, LockType DEF Processes
    <2>4. PICK r : /\ Sound(p, r) /\ proc' = [proc EXCEPT ![p] = r]
                   /\ r = [s EXCEPT !.todo = Tail(@), !.at = "run"]
      <3> HIDE DEF s
      <3> QED BY <1>0, <2>1, <2>2, <2>3, GoesSound
    <2>5. r.todo = Tail(o.todo) /\ r.old = GenerateLockFile(p)
      BY <2>2, <2>4 DEF Processes
    <2>6. /\ Has(r.todo, "compare") /\ Has(r.todo, "render") /\ ~Has(r.todo, "draft")
      BY <2>2, <2>5, OrderedTail
    <2>7. o.old = lock
      <3>1. Has(o.todo, "draft")
        BY <2>2, LenProperties, EmptySeq DEF Has
      <3> QED BY <2>2, <3>1 DEF Working
    <2>8. Pinned(r.old)
      BY <1>0, <2>2, <2>5, <2>7, LockType
    <2>9. Working(r)
      BY <2>2, <2>5, <2>6, <2>8, TailWorks
    <2> QED BY <2>4, <2>9 DEF Keeps
  <1>4. CASE DiffLockFiles(p) /\ ~Returns(p)
    <2> DEFINE s == [o EXCEPT !.got = Embedded, !.content = Embedded]
    <2>1. Doing(p, {"compare"}) /\ Goes(p, s) /\ GenerateLockFile(p) = o.old
      BY <1>4 DEF DiffLockFiles
    <2>2. o.old \in Identity /\ o \in Processes /\ Head(o.todo) = "compare"
          /\ o.todo # <<>> /\ Ordered(o.todo) /\ Working(o) /\ Pinned(o.old)
          /\ ~o.staged /\ o.kept = None
      BY <1>2, <2>1
    <2>3. /\ s \in Processes /\ s.todo = o.todo /\ ~s.staged /\ s.kept = None
          /\ s.old = o.old
      BY <1>c, <2>2 DEF Processes
    <2>4. PICK r : /\ Sound(p, r) /\ proc' = [proc EXCEPT ![p] = r]
                   /\ r = [s EXCEPT !.todo = Tail(@), !.at = "run"]
      <3> HIDE DEF s
      <3> QED BY <1>0, <2>1, <2>2, <2>3, GoesSound
    <2>5. r.todo = Tail(o.todo) /\ r.old = o.old /\ r.made = o.made /\ r.cfg = o.cfg
      BY <2>2, <2>4 DEF Processes
    <2>6. r.old.config = r.cfg
      BY <1>0, <2>1, <2>2, <2>5, LockType
    <2>7. Working(r)
      BY <2>2, <2>5, <2>6, TailWorks
    <2> QED BY <2>4, <2>7 DEF Keeps
  <1>5. CASE AlterConfig(p)
    <2> DEFINE s == [o EXCEPT !.cfg = 1 - @]
    <2>1. Doing(p, {"alter"}) /\ Goes(p, s)
      BY <1>5 DEF AlterConfig
    <2>2. o.old \in Identity /\ o \in Processes /\ Head(o.todo) = "alter" /\ o.todo \in Seq(Steps)
          /\ o.todo # <<>> /\ Ordered(o.todo) /\ Working(o) /\ Pinned(o.old)
          /\ ~o.staged /\ o.kept = None
      BY <1>2, <2>1
    <2>3. /\ s \in Processes /\ s.todo = o.todo /\ ~s.staged /\ s.kept = None
          /\ s.old = o.old
      <3>1. 1 - o.cfg \in Versions
        BY <2>2 DEF Processes, Versions
      <3> QED BY <2>2, <3>1 DEF Processes
    <2>4. PICK r : /\ Sound(p, r) /\ proc' = [proc EXCEPT ![p] = r]
                   /\ r = [s EXCEPT !.todo = Tail(@), !.at = "run"]
      <3> HIDE DEF s
      <3> QED BY <1>0, <2>1, <2>2, <2>3, GoesSound
    <2>5. r.todo = Tail(o.todo) /\ r.old = o.old
      BY <2>2, <2>4 DEF Processes
    <2>6. Has(r.todo, "compare") /\ Has(r.todo, "render")
      BY <2>2, <2>5, OrderedTail
    <2>7. Working(r)
      BY <2>2, <2>5, <2>6, TailWorks
    <2> QED BY <2>4, <2>7 DEF Keeps
  <1>6. CASE writeResolvedFiles(p) /\ ~Returns(p)
    <2> DEFINE s == [o EXCEPT !.made = o.got, !.got = Embedded, !.content = Embedded]
    <2>1. Doing(p, {"render"}) /\ Goes(p, s) /\ ImageOf[o.got] = ImageOf[o.old.from]
      BY <1>6 DEF writeResolvedFiles
    <2>2. o.old \in Identity /\ o \in Processes /\ Head(o.todo) = "render"
          /\ o.todo # <<>> /\ Ordered(o.todo) /\ Working(o) /\ Pinned(o.old)
          /\ ~o.staged /\ o.kept = None
      BY <1>2, <2>1
    <2>3. /\ s \in Processes /\ s.todo = o.todo /\ ~s.staged /\ s.kept = None
          /\ s.old = o.old
      BY <1>c, <2>2 DEF Processes
    <2>4. PICK r : /\ Sound(p, r) /\ proc' = [proc EXCEPT ![p] = r]
                   /\ r = [s EXCEPT !.todo = Tail(@), !.at = "run"]
      <3> HIDE DEF s
      <3> QED BY <1>0, <2>1, <2>2, <2>3, GoesSound
    <2>5. r.todo = Tail(o.todo) /\ r.old = o.old /\ r.made = o.got /\ r.cfg = o.cfg
      BY <2>2, <2>4 DEF Processes
    <2>6. Working(r)
      BY <2>1, <2>2, <2>5, TailWorks
    <2> QED BY <2>4, <2>6 DEF Keeps
  <1>7. CASE ValidateGeneratedFiles(p) /\ ~Returns(p)
    <2>1. Doing(p, {"check"}) /\ Goes(p, o) /\ files = recorded
      BY <1>7 DEF ValidateGeneratedFiles
    <2>2. o.old \in Identity /\ o \in Processes /\ Head(o.todo) = "check"
          /\ o.todo # <<>> /\ Ordered(o.todo) /\ Working(o) /\ Pinned(o.old)
          /\ ~o.staged /\ o.kept = None
      BY <1>2, <2>1
    <2>3. PICK r : /\ Sound(p, r) /\ proc' = [proc EXCEPT ![p] = r]
                   /\ r = [o EXCEPT !.todo = Tail(@), !.at = "run"]
      BY <1>0, <2>1, <2>2, GoesSound
    <2>4. r.todo = Tail(o.todo) /\ r.old = o.old /\ r.made = o.made /\ r.cfg = o.cfg
      BY <2>2, <2>3 DEF Processes
    <2>5. Working(r)
      BY <2>1, <2>2, <2>4, TailWorks
    <2> QED BY <2>3, <2>5 DEF Keeps
  <1>8. CASE Up(p)
    <2>1. Doing(p, {"start"}) /\ Goes(p, o)
      BY <1>8 DEF Up
    <2>2. o.old \in Identity /\ o \in Processes /\ Head(o.todo) = "start"
          /\ o.todo # <<>> /\ ~o.staged /\ o.kept = None /\ o.at = "run"
      BY <1>2, <2>1
    <2> QED BY <1>0, <2>1, <2>2, Proceeds
  <1>9. CASE ResolveFails(p)
    BY <1>9, ReturnsKeeps DEF ResolveFails
  <1> QED BY <1>1, <1>3, <1>4, <1>5, <1>6, <1>7, <1>8, <1>9

\* The commit writes a lock, and the files of that lock.
LEMMA CommitKeeps ==
    ASSUME IInv, NEW p \in Procs, GenerateProjectTransactional(p)
    PROVE  /\ proc' \in [Procs -> Processes] /\ AllSound' /\ Working(proc[Main])'
           /\ RecordedIsLocked'
           /\ \A q \in Procs :
                /\ proc'[q].staged <=> proc'[q].at \in {"fetch", "promote", "install", "rollback"}
                /\ proc'[q].kept # None => proc'[q].at \in {"install", "rollback", "mark"}
           /\ lock' \in Identity /\ recorded' \in Rendered /\ files' \in Rendered
           /\ config' \in Versions
           /\ p = Main /\ Pinned(lock')
  <1> DEFINE o == proc[p]
  <1>0. TypeOK /\ AllSound /\ Working(proc[Main])
    BY DEF IInv
  <1>1. /\ Doing(p, {"commit"}) /\ Goes(p, o) /\ lock' = o.old /\ config' = o.cfg
        /\ recorded' = [from |-> o.made, config |-> o.cfg, digest |-> o.old.digest]
        /\ files' = recorded'
    BY DEF GenerateProjectTransactional
  <1>2. /\ p = Main /\ o.old \in Identity /\ o \in Processes /\ Head(o.todo) = "commit"
        /\ o.todo # <<>> /\ Ordered(o.todo) /\ ~o.staged /\ o.kept = None
        /\ o.todo \in Seq(Steps)
    BY <1>0, <1>1, OnlyMain, AtRun
  <1>3. PICK r : /\ Sound(p, r) /\ proc' = [proc EXCEPT ![p] = r]
                 /\ r = [o EXCEPT !.todo = Tail(@), !.at = "run"]
    BY <1>0, <1>1, <1>2, GoesSound
  <1>4. Tail(o.todo) = <<>> /\ r.todo = Tail(o.todo)
    BY <1>2, <1>3, OrderedTail DEF Processes
  <1>5. /\ Has(o.todo, "commit") /\ \A x : Has(o.todo, x) => x = "commit"
    <2> DEFINE t == o.todo
    <2>1. t \in Seq(Steps) /\ t # <<>> /\ Head(t) = "commit" /\ Tail(t) = <<>>
      BY <1>2, <1>4
    <2> HIDE DEF t
    <2>2. Len(Tail(t)) = Len(t) - 1 /\ Len(t) \in Nat
      BY <2>1, HeadTailProperties, LenProperties
    <2>3. Len(t) = 1 /\ t[1] = "commit"
      BY <2>1, <2>2
    <2>4. Has(t, "commit") /\ \A x : Has(t, x) => x = "commit"
      BY <2>3 DEF Has
    <2> QED BY <2>4 DEF t
  <1>6. ImageOf[o.made] = ImageOf[o.old.from] /\ o.old.config = o.cfg /\ Pinned(o.old)
    BY <1>0, <1>2, <1>5 DEF Working
  <1>7. /\ proc' \in [Procs -> Processes] /\ AllSound' /\ proc'[p] = r
        /\ \A q \in Procs :
                /\ proc'[q].staged <=> proc'[q].at \in {"fetch", "promote", "install", "rollback"}
                /\ proc'[q].kept # None => proc'[q].at \in {"install", "rollback", "mark"}
    BY <1>0, <1>3, Replaced
  <1>8. Working(proc[Main])'
    <2>1. Len(<<>>) = 0
      OBVIOUS
    <2>2. \A x : ~Has(<<>>, x)
      BY <2>1 DEF Has
    <2>3. proc'[Main].todo = <<>>
      BY <1>2, <1>4, <1>7
    <2> QED BY <2>2, <2>3 DEF Working, Has
  <1>9. lock' \in Identity /\ recorded' \in Rendered /\ config' \in Versions
    BY <1>1, <1>2 DEF Rendered, Processes, Identity
  <1>10. RecordedIsLocked'
    BY <1>1, <1>6 DEF RecordedIsLocked
  <1> QED BY <1>1, <1>2, <1>6, <1>7, <1>8, <1>9, <1>10
-----------------------------------------------------------------------------
(* The theorems.                                                             *)

\* A project that has just been made.
LEMMA Begins == Init => IInv
  <1> SUFFICES ASSUME Init PROVE IInv
    OBVIOUS
  <1>1. lock \in Identity /\ recorded \in Rendered /\ files = recorded
    BY Constants DEF Init, Identity, Rendered
  <1>2. \A p \in Procs : proc[p] = Resting("idle") /\ Sound(p, proc[p]) /\ Working(proc[p])
    BY RestingSound DEF Init
  <1>3. proc \in [Procs -> Processes]
    BY <1>2 DEF Init, Sound
  <1>4. TypeOK
    <2>1. 0 \in 0..MaxEdits /\ 0 \in 0..MaxFaults /\ 0 \in 0..2 * MaxFaults
      BY Names
    <2>2. \A p \in Procs :
            /\ proc[p].staged <=> proc[p].at \in {"fetch", "promote", "install", "rollback"}
            /\ proc[p].kept # None => proc[p].at \in {"install", "rollback", "mark"}
      BY <1>2 DEF Sound
    <2>3. /\ source \in Sources /\ {config, cli, registry} \subseteq Versions /\ tree \in Trees
          /\ {files, running} \subseteq Rendered \cup {None}
          /\ active \in Checkouts \cup {None} /\ marked \in BOOLEAN
      BY <1>1, Constants DEF Init
    <2>4. litter \in 0..2 * MaxFaults /\ edits \in 0..MaxEdits /\ faults \in 0..MaxFaults
      BY <2>1 DEF Init
    <2> QED BY <1>1, <1>3, <2>2, <2>3, <2>4 DEF TypeOK
  <1>5. Main \in Procs
    BY DEF Procs
  <1>6. RecordedIsLocked
    BY DEF Init, RecordedIsLocked
  <1> QED BY <1>2, <1>4, <1>5, <1>6 DEF IInv, AllSound, Littered, Init

\* More faults leave room for as much litter.
LEMMA MoreFaults ==
    ASSUME NEW a \in Nat, NEW b \in Nat, NEW c \in Nat, a <= 2 * b, b <= c
    PROVE  a <= 2 * c
  OBVIOUS

\* Each step keeps the invariant.
LEMMA Stays == ASSUME IInv, [Next]_vars PROVE IInv'
  <1> USE DEF At
  <1>0. /\ TypeOK /\ AllSound /\ Littered /\ Working(proc[Main]) /\ RecordedIsLocked
        /\ Main \in Procs
    BY DEF IInv, Procs
  <1>a. /\ {MaxEdits, MaxFaults, MaxTree} \subseteq Nat
        /\ litter \in 0..2 * MaxFaults /\ faults \in 0..MaxFaults /\ edits \in 0..MaxEdits
    BY <1>0, Names DEF TypeOK
  <1>b. Edit => edits' \in 0..MaxEdits
    BY <1>a DEF Edit
  <1>c. Fault => faults' \in 0..MaxFaults /\ faults' = faults + 1
    BY <1>a DEF Fault
  <1>1. ASSUME NEW p \in Procs, Keeps(p), UNCHANGED <<source, config, cli, registry, tree>>,
               UNCHANGED <<lock, recorded, files>>, running' \in Rendered \cup {None},
               active' \in Checkouts \cup {None}, marked' \in BOOLEAN, litter' = litter,
               edits' \in 0..MaxEdits, faults' \in 0..MaxFaults, faults <= faults'
        PROVE  IInv'
    <2>1. /\ proc' \in [Procs -> Processes] /\ AllSound'
          /\ Working(proc[Main])' /\ RecordedIsLocked'
          /\ \A q \in Procs :
                /\ proc'[q].staged <=> proc'[q].at \in {"fetch", "promote", "install", "rollback"}
                /\ proc'[q].kept # None => proc'[q].at \in {"install", "rollback", "mark"}
      BY <1>1, KeepsAll
    <2>2. TypeOK'
      BY <1>0, <1>1, <2>1 DEF TypeOK
    <2>3. Littered'
      <3>1. litter \in Nat /\ faults \in Nat /\ faults' \in Nat
              /\ litter <= 2 * faults /\ faults <= faults'
        BY <1>0, <1>1, <1>a DEF Littered
      <3>2. litter <= 2 * faults'
        BY <3>1, MoreFaults
      <3> QED BY <1>1, <3>2 DEF Littered
    <2> QED BY <2>1, <2>2, <2>3 DEF IInv
  <1>2. ASSUME NEW p \in Procs, NEW c \in Commands, NEW l \in BOOLEAN, newProjectContext(p, c, l)
        PROVE  IInv'
    <2> DEFINE r == [proc[p] EXCEPT !.at = "run", !.todo = Script[c], !.src = source,
                                    !.cfg = config, !.old = lock, !.lax = l, !.fresh = marked]
    <2>1. proc' = [proc EXCEPT ![p] = r] /\ proc[p].at = "idle" /\ (p = Main \/ c = "update")
      BY <1>2 DEF newProjectContext
    <2>2. Sound(p, proc[p]) /\ proc[p] \in Processes
      BY <1>0 DEF AllSound, Sound
    <2>3. Whole(Script[c])
      BY Scripts
    <2>4. /\ r \in Processes /\ r.todo = Script[c] /\ r.old = lock /\ r.at = "run"
          /\ r.staged = proc[p].staged /\ r.kept = proc[p].kept
      BY <1>0, <2>2, <2>3 DEF TypeOK, Processes, Points, Whole
    <2>5. p # Main => \A i \in 1..Len(r.todo) : r.todo[i] = "refresh"
      <3> HAVE p # Main
      <3>1. r.todo = <<"refresh">>
        BY <2>1, <2>4 DEF Script, runSourceUpdate
      <3> QED BY <3>1
    <2>6. Sound(p, r)
      BY <1>0, <2>1, <2>2, <2>3, <2>4, <2>5 DEF Sound, TypeOK, Whole
    <2>7. Working(r)
      BY <2>3, <2>4 DEF Working, Whole, Pinned
    <2>8. Keeps(p)
      BY <2>1, <2>6, <2>7 DEF Keeps
    <2>9. edits' \in 0..MaxEdits /\ faults' = faults
      BY <1>2, <1>a, <1>b DEF newProjectContext
    <2> QED BY <1>0, <1>1, <1>2, <1>a, <2>8, <2>9
            DEF newProjectContext, TypeOK, project, written, cache
  <1>3. ASSUME NEW p \in Procs, SourceStep(p) PROVE IInv'
    BY <1>0, <1>1, <1>3, <1>a, SourceKeeps DEF TypeOK, project, written
  <1>4. ASSUME NEW p \in Procs, LockStep(p), ~GenerateProjectTransactional(p) PROVE IInv'
    <2>1. Keeps(p)
      BY <1>4, LockKeeps DEF LockStep
    <2>2. /\ UNCHANGED <<source, config, cli, registry, tree, lock, recorded, files,
                         active, marked, litter, edits>>
          /\ running' \in {running, files} /\ (faults' = faults \/ Fault)
      BY <1>4 DEF LockStep, DraftLock, ResolveFails, DiffLockFiles, AlterConfig,
                  writeResolvedFiles, ValidateGeneratedFiles, Up, project, written, cache
    <2>3. running' \in Rendered \cup {None} /\ faults' \in 0..MaxFaults /\ faults <= faults'
      BY <1>0, <1>a, <1>c, <2>2 DEF TypeOK
    <2> QED BY <1>0, <1>1, <1>a, <2>1, <2>2, <2>3 DEF TypeOK
  <1>5. ASSUME NEW p \in Procs, GenerateProjectTransactional(p) PROVE IInv'
    <2>1. /\ proc' \in [Procs -> Processes] /\ AllSound' /\ Working(proc[Main])'
          /\ RecordedIsLocked'
          /\ \A q \in Procs :
                /\ proc'[q].staged <=> proc'[q].at \in {"fetch", "promote", "install", "rollback"}
                /\ proc'[q].kept # None => proc'[q].at \in {"install", "rollback", "mark"}
          /\ lock' \in Identity /\ recorded' \in Rendered /\ files' \in Rendered
          /\ config' \in Versions
      BY <1>5, CommitKeeps
    <2>2. UNCHANGED <<source, cli, registry, tree, running, active, litter, marked, edits, faults>>
      BY <1>5 DEF GenerateProjectTransactional, cache
    <2>3. TypeOK'
      BY <1>0, <2>1, <2>2 DEF TypeOK
    <2> QED BY <1>0, <2>1, <2>2, <2>3 DEF IInv, Littered
  <1>6. ASSUME NEW p \in Procs, Finish(p) PROVE IInv'
    <2>1. Keeps(p)
      BY <1>6, ReturnsKeeps DEF Finish
    <2> QED BY <1>0, <1>1, <1>6, <1>a, <2>1 DEF Finish, TypeOK, project, written, cache
  <1>7. ASSUME NEW p \in Procs, Crash(p) PROVE IInv'
    <2>1. Keeps(p)
      BY <1>7, ReturnsKeeps DEF Crash
    <2>2. UNCHANGED <<project, written, active, edits>> /\ Fault
      BY <1>7 DEF Crash
    <2>3. /\ proc' \in [Procs -> Processes] /\ AllSound'
          /\ Working(proc[Main])' /\ RecordedIsLocked'
          /\ \A q \in Procs :
                /\ proc'[q].staged <=> proc'[q].at \in {"fetch", "promote", "install", "rollback"}
                /\ proc'[q].kept # None => proc'[q].at \in {"install", "rollback", "mark"}
      BY <2>1, <2>2, KeepsAll DEF written
    <2>4. litter' \in {litter, litter + 1, litter + 2}
      BY <1>7, <1>a DEF Crash
    <2>5. Littered' /\ litter' \in 0..2 * MaxFaults
      BY <1>0, <1>a, <1>c, <2>2, <2>4 DEF Littered
    <2>6. marked' \in BOOLEAN
      BY <1>0, <1>7 DEF Crash, TypeOK
    <2>7. TypeOK'
      BY <1>0, <1>c, <2>2, <2>3, <2>5, <2>6 DEF TypeOK, project, written
    <2> QED BY <2>3, <2>5, <2>7 DEF IInv
  <1>8. ASSUME Outside, ~EditFiles PROVE IInv'
    <2>1. UNCHANGED <<written, litter, proc, faults>> /\ edits' \in 0..MaxEdits
      BY <1>8, <1>b DEF Outside, runSourceAdd, EditConfig, Upgrade, TagMoves, EditTree,
                        EditCheckout, Expire, cache
    <2>2. source' \in Sources /\ {config', cli', registry'} \subseteq Versions
      <3>1. 1 - config \in Versions
        BY <1>0 DEF TypeOK, Versions
      <3> QED BY <1>0, <1>8, <3>1, Constants
          DEF Outside, runSourceAdd, EditConfig, Upgrade, TagMoves, EditTree,
              EditCheckout, Expire, project, TypeOK
    <2>3. tree' \in Trees
      <3>1. tree \in Trees /\ (tree < MaxTree => tree + 1 \in Trees)
        BY <1>0, <1>a DEF TypeOK, Trees
      <3> QED BY <1>8, <3>1
          DEF Outside, runSourceAdd, EditConfig, Upgrade, TagMoves, EditTree,
              EditCheckout, Expire, project
    <2>4. active' \in Checkouts \cup {None} /\ marked' \in BOOLEAN
      <3>1. active \in Checkouts => [active EXCEPT !.clean = FALSE] \in Checkouts
        BY DEF Checkouts
      <3> QED BY <1>0, <1>8, <3>1
          DEF Outside, runSourceAdd, EditConfig, Upgrade, TagMoves, EditTree,
              EditCheckout, Expire, cache, TypeOK
    <2>5. TypeOK'
      BY <1>0, <2>1, <2>2, <2>3, <2>4 DEF TypeOK, written
    <2>6. AllSound' /\ Littered' /\ RecordedIsLocked' /\ Working(proc[Main])'
      BY <1>0, <2>1 DEF AllSound, Sound, Littered, RecordedIsLocked, Working, Pinned, written
    <2> QED BY <2>5, <2>6 DEF IInv
  <1>9. CASE EditFiles
    <2>1. /\ UNCHANGED <<project, lock, recorded, running, cache, proc, faults>>
          /\ files' = None /\ edits' \in 0..MaxEdits
      BY <1>9, <1>b DEF EditFiles
    <2>2. proc[Main].todo = <<>>
      BY <1>0, <1>9 DEF EditFiles, Quiet, AllSound, Sound
    <2>3. TypeOK'
      BY <1>0, <2>1 DEF TypeOK, project, cache
    <2>4. Working(proc[Main])'
      BY <1>0, <2>1, <2>2 DEF Working, Pinned
    <2>5. AllSound' /\ Littered' /\ RecordedIsLocked'
      BY <1>0, <2>1 DEF AllSound, Sound, Littered, RecordedIsLocked, cache
    <2> QED BY <2>3, <2>4, <2>5 DEF IInv
  <1>10. CASE UNCHANGED vars
    <2>1. TypeOK'
      BY <1>0, <1>10 DEF vars, project, written, cache, TypeOK
    <2>2. AllSound' /\ Littered' /\ RecordedIsLocked' /\ Working(proc[Main])'
      BY <1>0, <1>10
      DEF vars, written, cache, AllSound, Sound, Littered, RecordedIsLocked, Working, Pinned
    <2> QED BY <2>1, <2>2 DEF IInv
  <1> QED BY <1>2, <1>3, <1>4, <1>5, <1>6, <1>7, <1>8, <1>9, <1>10 DEF Next, Step

\* The invariant is inductive, for any sources, processes and bounds.
THEOREM Inductive == Spec => []IInv
  BY Begins, Stays, PTL DEF Spec

\* Cache, lock, files and processes keep their types: no step of a command or
\* of a refresh that was overtaken, failed or killed leaves half a checkout
\* active or writes a lock that is none.
THEOREM TypeCorrect == Spec => []TypeOK
  BY Inductive, PTL DEF IInv

\* `sdbx up` starts what has the image, the digest and the configuration of the
\* lock on disk, for any sources, any definitions that share images, and any
\* number of processes that refresh the cache beside it.
THEOREM StartsWhatIsLocked == Spec => RunsWhatIsLocked
  <1> DEFINE Starts ==
        running' # running =>
          \E d \in Definitions :
            /\ ImageOf[d] = ImageOf[lock.from]
            /\ running' = [from |-> d, config |-> lock.config, digest |-> lock.digest]
  <1>1. ASSUME IInv, [Next]_vars PROVE Starts
    <2> SUFFICES ASSUME running' # running PROVE Starts
      OBVIOUS
    <2>1. PICK p \in Procs : Up(p)
      <3>1. \A p \in Procs : SourceStep(p) => running' = running
        BY <1>1, SourceKeeps DEF written
      <3> QED BY <1>1, <3>1
          DEF Next, newProjectContext, Step, LockStep, DraftLock, ResolveFails, DiffLockFiles,
              AlterConfig, writeResolvedFiles, GenerateProjectTransactional,
              ValidateGeneratedFiles, Finish, Crash, Outside, runSourceAdd, EditConfig, Upgrade,
              TagMoves, EditTree, EditCheckout, EditFiles, Expire, written, vars
    <2>2. p = Main /\ Doing(p, {"start"}) /\ running' = files
      BY <1>1, <2>1, OnlyMain DEF Up, IInv
    <2>3. files = recorded
      BY <1>1, <2>2 DEF IInv, Working, Doing
    <2>4. recorded \in Rendered
      BY <1>1 DEF IInv, TypeOK
    <2>5. recorded = [from |-> recorded.from, config |-> lock.config, digest |-> lock.digest]
          /\ recorded.from \in Definitions /\ ImageOf[recorded.from] = ImageOf[lock.from]
      BY <1>1, <2>4 DEF IInv, RecordedIsLocked, Rendered
    <2> QED BY <2>2, <2>3, <2>5
  <1>2. RunsWhatIsLocked <=> [][Starts]_vars
    BY DEF RunsWhatIsLocked
  <1> QED BY <1>1, <1>2, Inductive, PTL DEF Spec

\* No command of these changes the digest the lock has for an image:
\* GenerateLockFile takes it from the lock the command started with, and no
\* other command writes one meanwhile.
THEOREM DigestsArePinned == Spec => PinsKept
  <1> DEFINE Pins ==
        lock' # lock /\ ImageOf[lock'.from] = ImageOf[lock.from] => lock'.digest = lock.digest
  <1>1. ASSUME IInv, [Next]_vars PROVE Pins
    <2> SUFFICES ASSUME lock' # lock PROVE Pins
      OBVIOUS
    <2>1. PICK p \in Procs : GenerateProjectTransactional(p)
      <3>1. \A p \in Procs : SourceStep(p) => lock' = lock
        BY <1>1, SourceKeeps DEF written
      <3> QED BY <1>1, <3>1
          DEF Next, newProjectContext, Step, LockStep, DraftLock, ResolveFails, DiffLockFiles,
              AlterConfig, writeResolvedFiles, Up, ValidateGeneratedFiles, Finish, Crash, Outside,
              runSourceAdd, EditConfig, Upgrade, TagMoves, EditTree, EditCheckout, EditFiles,
              Expire, written, vars
    <2>2. Pinned(lock')
      BY <1>1, <2>1, CommitKeeps
    <2> QED BY <2>2 DEF Pinned
  <1>2. PinsKept <=> [][Pins]_vars
    BY DEF PinsKept
  <1> QED BY <1>1, <1>2, Inductive, PTL DEF Spec
-----------------------------------------------------------------------------
(* What a step of a command comes right after.                               *)

\* A definition is loaded after it was listed; what is compared or drafted was
\* loaded just before.
Follows(x, y) ==
    /\ y = "load" => x = "get"
    /\ y \in {"compare", "draft"} => x = "load"
Paired(s) == \A i \in 2..Len(s) : Follows(s[i - 1], s[i])

\* A paired list from one step to another.
Chain(s, a, z) ==
    /\ s \in Seq(Steps) /\ s # <<>> /\ Paired(s)
    /\ Head(s) = a /\ s[Len(s)] = z

\* Two lists of which the second may follow the first.
LEMMA ChainConcat ==
    ASSUME NEW s, NEW t, NEW a, NEW b, NEW c, NEW z,
           Chain(s, a, b), Chain(t, c, z), Follows(b, c)
    PROVE  Chain(s \o t, a, z)
  <1> DEFINE u == s \o t
  <1> DEFINE n == Len(s)
  <1> DEFINE m == Len(t)
  <1>0. s \in Seq(Steps) /\ t \in Seq(Steps) /\ s # <<>> /\ t # <<>>
    BY DEF Chain
  <1>1. /\ Len(u) = n + m /\ n \in Nat /\ m \in Nat /\ m # 0 /\ n # 0
        /\ \A i \in 1..n + m : u[i] = IF i <= n THEN s[i] ELSE t[i - n]
    <2>1. /\ Len(s \o t) = Len(s) + Len(t)
          /\ \A i \in 1..Len(s) + Len(t) :
                (s \o t)[i] = IF i <= Len(s) THEN s[i] ELSE t[i - Len(s)]
      BY <1>0, ConcatProperties
    <2>2. n \in Nat /\ m \in Nat /\ m # 0 /\ n # 0
      BY <1>0, LenProperties, EmptySeq
    <2> QED BY <2>1, <2>2
  <1>2. u \in Seq(Steps) /\ u # <<>> /\ Head(u) = a
    BY <1>0, HeadConcat DEF Chain
  <1>3. t[1] = c /\ s[n] = b /\ t[m] = z
    BY <1>0 DEF Chain
  <1>a. /\ \A i \in 2..n : Follows(s[i - 1], s[i])
        /\ \A i \in 2..m : Follows(t[i - 1], t[i])
    BY DEF Chain, Paired
  <1> HIDE DEF u, n, m
  <1>4. ASSUME NEW i \in 2..n + m PROVE Follows(u[i - 1], u[i])
    <2>1. i \in 1..n + m /\ i - 1 \in 1..n + m
      BY <1>1
    <2>2. CASE i <= n
      <3>1. i \in 2..n /\ i - 1 <= n
        BY <1>1, <2>2
      <3>2. u[i] = s[i] /\ u[i - 1] = s[i - 1]
        BY <1>1, <2>1, <2>2, <3>1
      <3> QED BY <1>a, <3>1, <3>2
    <2>3. CASE i = n + 1
      <3>1. i - 1 = n /\ i - n = 1 /\ ~(i <= n)
        BY <1>1, <2>3
      <3>2. u[i] = t[1] /\ u[i - 1] = s[n]
        BY <1>1, <2>1, <3>1
      <3> QED BY <1>3, <3>2
    <2>4. CASE i > n + 1
      <3>1. i - n \in 2..m /\ ~(i <= n) /\ ~(i - 1 <= n) /\ (i - 1) - n = (i - n) - 1
        BY <1>1, <2>4
      <3>2. u[i] = t[i - n] /\ u[i - 1] = t[(i - n) - 1]
        BY <1>1, <2>1, <3>1
      <3> QED BY <1>a, <3>1, <3>2
    <2> QED BY <1>1, <2>2, <2>3, <2>4
  <1>5. u[n + m] = z
    <2>1. n + m \in 1..n + m /\ ~(n + m <= n) /\ (n + m) - n = m
      BY <1>1
    <2> QED BY <1>1, <1>3, <2>1
  <1>6. Paired(u)
    BY <1>1, <1>4 DEF Paired
  <1>7. Chain(u, a, z)
    BY <1>1, <1>2, <1>5, <1>6 DEF Chain
  <1> QED BY <1>7 DEF u

\* A list of one step.
LEMMA ChainOne == ASSUME NEW x \in Steps PROVE Chain(<<x>>, x, x)
  <1>1. <<x>> \in Seq(Steps) /\ <<x>> # <<>> /\ Head(<<x>>) = x /\ Len(<<x>>) = 1 /\ <<x>>[1] = x
    OBVIOUS
  <1> QED BY <1>1 DEF Chain, Paired

\* A list of two.
LEMMA ChainTwo ==
    ASSUME NEW x \in Steps, NEW y \in Steps, Follows(x, y)
    PROVE  Chain(<<x, y>>, x, y)
  <1> DEFINE t == <<x, y>>
  <1>1. /\ t \in Seq(Steps) /\ t # <<>> /\ Head(t) = x /\ Len(t) = 2
        /\ t[1] = x /\ t[2] = y
    OBVIOUS
  <1> HIDE DEF t
  <1>2. \A i \in 2..2 : i = 2 /\ i - 1 = 1
    OBVIOUS
  <1>3. Chain(t, x, y)
    BY <1>1, <1>2 DEF Chain, Paired
  <1> QED BY <1>3 DEF t

\* A list that may come first: it does not load, compare or draft at once.
Begun(s) == Paired(s) /\ Head(s) \notin {"load", "compare", "draft"}

\* Every command pairs its steps.
LEMMA PairedScripts == ASSUME NEW c \in Commands PROVE Begun(Script[c])
  <1>s. {"get", "load", "refresh", "compare", "draft", "alter", "render", "commit",
         "check", "start"} \subseteq Steps
    BY DEF Steps, Reads
  <1>f. /\ Follows("get", "load") /\ Follows("load", "compare") /\ Follows("load", "draft")
        /\ \A x : \A y \in {"get", "alter", "render", "commit", "check", "start"} : Follows(x, y)
    BY DEF Follows
  <1>1. Chain(Resolve, "get", "get")
    BY <1>s, ChainOne DEF Resolve
  <1>2. Chain(GenerateLock, "get", "load")
    <2>1. Chain(<<"load">>, "load", "load")
      BY <1>s, ChainOne
    <2> QED BY <1>1, <1>f, <2>1, ChainConcat DEF GenerateLock
  <1>3. Chain(ValidateProjectLock, "get", "compare")
    <2>1. Chain(<<"compare">>, "compare", "compare")
      BY <1>s, ChainOne
    <2> QED BY <1>2, <1>f, <2>1, ChainConcat DEF ValidateProjectLock
  <1>4. Chain(Plan, "get", "get") /\ Chain(Verify, "get", "get")
    BY <1>1, <1>3, <1>f, ChainConcat DEF Plan, Verify
  <1>5. Chain(GenerateRuntimeFiles, "get", "render")
    <2>1. Chain(<<"render">>, "render", "render")
      BY <1>s, ChainOne
    <2> QED BY <1>4, <1>f, <2>1, ChainConcat DEF GenerateRuntimeFiles
  <1>6. Chain(Transaction, "get", "commit")
    <2>1. Chain(<<"commit">>, "commit", "commit")
      BY <1>s, ChainOne
    <2>2. Chain(GenerateRuntimeFiles \o Plan, "get", "get")
      BY <1>4, <1>5, <1>f, ChainConcat
    <2>3. Chain((GenerateRuntimeFiles \o Plan) \o <<"commit">>, "get", "commit")
      BY <1>f, <2>1, <2>2, ChainConcat
    <2> QED BY <2>3 DEF Transaction
  <1>7. Chain(runLockGenerate, "get", "commit")
    <2>1. Chain(<<"draft">>, "draft", "draft")
      BY <1>s, ChainOne
    <2>2. Chain(GenerateLock \o <<"draft">>, "get", "draft")
      BY <1>2, <1>f, <2>1, ChainConcat
    <2>3. Chain((GenerateLock \o <<"draft">>) \o Transaction, "get", "commit")
      BY <1>6, <1>f, <2>2, ChainConcat
    <2> QED BY <2>3 DEF runLockGenerate
  <1>8. RegenerateRuntimeWithUpdatedLock = runLockGenerate
    BY DEF RegenerateRuntimeWithUpdatedLock, runLockGenerate
  <1>9. Chain(runConfigSet, "get", "commit")
    <2>1. Chain(<<"alter">>, "alter", "alter")
      BY <1>s, ChainOne
    <2>2. Chain(Set, "alter", "commit")
      BY <1>7, <1>8, <1>f, <2>1, ChainConcat DEF Set
    <2> QED BY <1>4, <1>f, <2>2, ChainConcat DEF runConfigSet
  <1>10. Chain(runAddonEnable, "get", "commit")
    <2>1. Chain(<<"get", "alter">>, "get", "alter")
      BY <1>s, <1>f, ChainTwo
    <2>2. Chain(Enable, "get", "commit")
      BY <1>7, <1>8, <1>f, <2>1, ChainConcat DEF Enable
    <2> QED BY <1>4, <1>f, <2>2, ChainConcat DEF runAddonEnable
  <1>11. Chain(runGenerate, "get", "commit")
    BY <1>4, <1>6, <1>f, ChainConcat DEF runGenerate
  <1>12. Chain(runUp, "get", "start")
    <2>1. Chain(<<"check", "start">>, "check", "start")
      BY <1>s, <1>f, ChainTwo
    <2> QED BY <1>4, <1>f, <2>1, ChainConcat DEF runUp
  <1>13. Chain(runSourceUpdate, "refresh", "refresh")
    BY <1>s, ChainOne DEF runSourceUpdate
  <1> QED BY <1>7, <1>9, <1>10, <1>11, <1>12, <1>13 DEF Commands, Script, Chain, Begun

\* Taking the first step off the list leaves pairs, and what may follow it.
LEMMA PairedTail ==
    ASSUME NEW s \in Seq(Steps), s # <<>>, Paired(s)
    PROVE  /\ Paired(Tail(s))
           /\ Tail(s) # <<>> => Follows(Head(s), Head(Tail(s)))
  <1> DEFINE t == Tail(s)
  <1> DEFINE m == Len(t)
  <1>1. /\ m \in Nat /\ Len(s) = m + 1 /\ Head(s) = s[1]
        /\ \A i \in 1..m : t[i] = s[i + 1]
        /\ t # <<>> => m # 0 /\ Head(t) = t[1]
    <2>1. t \in Seq(Steps) /\ m = Len(s) - 1 /\ \A i \in 1..m : t[i] = s[i + 1]
      BY HeadTailProperties
    <2>2. Len(s) \in Nat \ {0} /\ m \in Nat
      BY <2>1, LenProperties, EmptySeq
    <2>3. t # <<>> => m # 0
      BY <2>1, EmptySeq
    <2> HIDE DEF t
    <2>4. t # <<>> => Head(t) = t[1]
      BY <2>1 DEF t
    <2> QED BY <2>1, <2>2, <2>3, <2>4
  <1> HIDE DEF t, m
  <1>2. ASSUME NEW i \in 2..m PROVE Follows(t[i - 1], t[i])
    <2>1. /\ i \in 1..m /\ i - 1 \in 1..m /\ (i - 1) + 1 = i
          /\ i + 1 \in 2..Len(s) /\ (i + 1) - 1 = i
      BY <1>1
    <2>2. t[i] = s[i + 1] /\ t[i - 1] = s[i]
      BY <1>1, <2>1
    <2> QED BY <2>1, <2>2 DEF Paired
  <1>3. t # <<>> => Follows(Head(s), Head(t))
    <2> HAVE t # <<>>
    <2>1. 2 \in 2..Len(s) /\ 2 - 1 = 1 /\ t[1] = s[1 + 1] /\ 1 + 1 = 2
      BY <1>1
    <2> QED BY <1>1, <2>1 DEF Paired
  <1>4. Paired(t)
    BY <1>2 DEF Paired, m
  <1> QED BY <1>3, <1>4 DEF t
-----------------------------------------------------------------------------
(* Where a definition comes from: the second inductive invariant.  A refresh *)
(* beside the command has moved the active checkout away or has not; it does *)
(* so once.                                                                  *)

\* A process that has not moved the active checkout away, and may.
Pending(r) ==
    \/ r.at \in {"idle", "fetch", "promote"}
    \/ r.at = "run" /\ r.todo # <<>>

\* What the cache holds, and what is on its way into it, is acceptable.
Cached ==
    /\ active # None => active.ref \in Acceptable
    /\ \A p \in Procs :
         /\ proc[p].kept # None => proc[p].kept.ref \in Acceptable
         /\ proc[p].at \in {"promote", "install"} => proc[p].src.ref \in Acceptable
    /\ \A o \in Others : Len(proc[o].todo) <= 1

\* What a step of a process makes of it and of the active checkout.
Turns(p, r) ==
    /\ proc' = [proc EXCEPT ![p] = r]
    /\ r.at \in {"promote", "install"} => r.src.ref \in Acceptable
    /\ p # Main => Len(r.todo) <= 1 /\ (~Pending(proc[p]) => ~Pending(r))
    /\ \/ active' = active /\ r.kept \in {proc[p].kept, None}
       \/ /\ Pending(proc[p]) /\ ~Pending(r)
          /\ active' = None /\ r.kept = active
       \/ /\ ~Pending(proc[p]) /\ active = None /\ proc[p].src.ref \in Acceptable
          /\ active' = [url |-> proc[p].src.url, ref |-> proc[p].src.ref, clean |-> TRUE]
          /\ r.kept = proc[p].kept
       \/ /\ ~Pending(proc[p]) /\ active = None
          /\ active' = proc[p].kept /\ r.kept = None

\* A process returns.
LEMMA TurnsBack ==
    ASSUME NEW p \in Procs, Returns(p), active' = active
    PROVE  \E r : Turns(p, r)
  <1> DEFINE r == Resting(IF p = Main THEN "idle" ELSE "done")
  <1>1. proc' = [proc EXCEPT ![p] = r]
    BY DEF Returns
  <1>2. /\ r.at \in {"idle", "done"} /\ (p # Main => r.at = "done") /\ r.kept = None
        /\ r.todo = <<>> /\ Len(r.todo) = 0
    BY DEF Resting
  <1> HIDE DEF r
  <1>3. Turns(p, r)
    BY <1>1, <1>2 DEF Turns, Pending
  <1> QED BY <1>3

\* A process takes the first step off its list.
LEMMA TurnsOn ==
    ASSUME IInv, Cached, NEW p \in Procs, NEW s \in Processes, Goes(p, s), active' = active,
           s.todo = proc[p].todo, s.todo # <<>>, s.kept = None
    PROVE  \E r : Turns(p, r)
  <1> DEFINE r == [s EXCEPT !.todo = Tail(@), !.at = "run"]
  <1>1. proc' = [proc EXCEPT ![p] = r]
    BY DEF Goes
  <1>2. r.at = "run" /\ r.todo = Tail(s.todo) /\ r.kept = None
    BY DEF Processes
  <1>3. p # Main => r.todo = <<>> /\ Len(r.todo) = 0
    <2> HAVE p # Main
    <2>1. Len(s.todo) <= 1 /\ s.todo \in Seq(Steps)
      BY DEF Cached, Procs, Processes
    <2>2. Len(Tail(s.todo)) = Len(s.todo) - 1 /\ Len(s.todo) \in Nat \ {0}
          /\ Tail(s.todo) \in Seq(Steps)
      BY <2>1, HeadTailProperties, LenProperties, EmptySeq
    <2>3. Len(Tail(s.todo)) = 0
      <3> DEFINE n == Len(s.todo)
      <3> DEFINE m == Len(Tail(s.todo))
      <3>1. n \in Nat \ {0} /\ n <= 1 /\ m = n - 1
        BY <2>1, <2>2
      <3> HIDE DEF n, m
      <3>2. m = 0
        BY <3>1
      <3> QED BY <3>2 DEF m
    <2> QED BY <1>2, <2>2, <2>3, EmptySeq
  <1> HIDE DEF r
  <1>4. p # Main => ~Pending(r) /\ Len(r.todo) <= 1
    BY <1>2, <1>3 DEF Pending
  <1>5. Turns(p, r)
    BY <1>1, <1>2, <1>4 DEF Turns
  <1> QED BY <1>5

\* Each step of a source.
LEMMA SourceTurns ==
    ASSUME IInv, Cached, NEW p \in Procs, SourceStep(p)
    PROVE  \E r : Turns(p, r)
  <1> USE DEF At
  <1>0. /\ TypeOK /\ AllSound /\ Sound(p, proc[p]) /\ proc[p] \in Processes
    BY DEF IInv, AllSound, Sound
  <1>t. p # Main => Len(proc[p].todo) <= 1
    BY DEF Cached, Procs
  <1>1. CASE Returns(p) /\ active' = active
    BY <1>1, TurnsBack
  <1>2. CASE UpdateNothing(p)
    <2>1. Doing(p, {"refresh"}) /\ Goes(p, proc[p]) /\ active' = active
      BY <1>2 DEF UpdateNothing, cache
    <2> QED BY <1>0, <2>1, AtRun, TurnsOn
  <1>3. CASE ensureCloned(p) /\ ~Returns(p)
    <2> DEFINE r == [proc[p] EXCEPT !.at = "read"]
    <2>1. proc' = [proc EXCEPT ![p] = r] /\ active' = active /\ Doing(p, Reads)
      BY <1>3 DEF ensureCloned, ReadsGit, cache
    <2>2. r.at = "read" /\ r.kept = proc[p].kept /\ r.todo = proc[p].todo
      BY <1>0 DEF Processes
    <2> HIDE DEF r
    <2>3. Turns(p, r)
      BY <1>t, <2>1, <2>2 DEF Turns, Pending
    <2> QED BY <2>3
  <1>4. CASE CreateStagingDir(p) /\ ~Returns(p)
    <2> DEFINE r == [proc[p] EXCEPT !.at = "fetch", !.staged = TRUE]
    <2>1. proc' = [proc EXCEPT ![p] = r] /\ active' = active /\ Doing(p, Reads \cup {"refresh"})
      BY <1>0, <1>4 DEF CreateStagingDir, ReadsGit, Refreshes, Doing, cache, TypeOK
    <2>2. r.at = "fetch" /\ r.kept = proc[p].kept /\ r.todo = proc[p].todo
      BY <1>0 DEF Processes
    <2>3. Pending(proc[p])
      BY <1>0, <2>1, AtRun DEF Pending
    <2> HIDE DEF r
    <2>4. Turns(p, r)
      BY <1>t, <2>1, <2>2, <2>3 DEF Turns
    <2> QED BY <2>4
  <1>5. CASE fetchCheckoutAndVerify(p) /\ ~Returns(p)
    <2> DEFINE r == [proc[p] EXCEPT !.at = "promote"]
    <2>1. /\ proc' = [proc EXCEPT ![p] = r] /\ active' = active /\ proc[p].at = "fetch"
          /\ proc[p].src.ref \in Acceptable
      BY <1>5 DEF fetchCheckoutAndVerify, verifyRevisionSignature, cache
    <2>2. r.at = "promote" /\ r.kept = proc[p].kept /\ r.todo = proc[p].todo /\ r.src = proc[p].src
      BY <1>0 DEF Processes
    <2> HIDE DEF r
    <2>3. Turns(p, r)
      BY <1>t, <2>1, <2>2 DEF Turns, Pending
    <2> QED BY <2>3
  <1>6. CASE FetchFails(p)
    BY <1>6, TurnsBack DEF FetchFails, cache
  <1>7. CASE PromoteRepo(p) /\ ~Returns(p)
    <2> DEFINE r == [proc[p] EXCEPT !.at = "install", !.kept = active]
    <2>1. /\ proc' = [proc EXCEPT ![p] = r] /\ active' = None /\ proc[p].at = "promote"
          /\ proc[p].src.ref \in Acceptable
      BY <1>0, <1>7 DEF PromoteRepo, TypeOK, Cached
    <2>2. r.at = "install" /\ r.kept = active /\ r.todo = proc[p].todo /\ r.src = proc[p].src
      BY <1>0 DEF Processes
    <2> HIDE DEF r
    <2>3. Turns(p, r)
      BY <1>t, <2>1, <2>2 DEF Turns, Pending
    <2> QED BY <2>3
  <1>8. CASE Install(p)
    <2> DEFINE r == [proc[p] EXCEPT !.at = "mark", !.staged = FALSE]
    <2>1. /\ proc' = [proc EXCEPT ![p] = r] /\ proc[p].at = "install" /\ active = None
          /\ active' = [url |-> proc[p].src.url, ref |-> proc[p].src.ref, clean |-> TRUE]
          /\ proc[p].src.ref \in Acceptable
      BY <1>0, <1>8 DEF Install, TypeOK, Cached
    <2>2. r.at = "mark" /\ r.kept = proc[p].kept /\ r.todo = proc[p].todo
      BY <1>0 DEF Processes
    <2> HIDE DEF r
    <2>3. Turns(p, r)
      BY <1>t, <2>1, <2>2 DEF Turns, Pending
    <2> QED BY <2>3
  <1>9. CASE InstallFails(p)
    <2> DEFINE r == [proc[p] EXCEPT !.at = "rollback"]
    <2>1. proc' = [proc EXCEPT ![p] = r] /\ proc[p].at = "install" /\ active' = active
      BY <1>9 DEF InstallFails, cache
    <2>2. r.at = "rollback" /\ r.kept = proc[p].kept /\ r.todo = proc[p].todo
      BY <1>0 DEF Processes
    <2> HIDE DEF r
    <2>3. Turns(p, r)
      BY <1>t, <2>1, <2>2 DEF Turns, Pending
    <2> QED BY <2>3
  <1>10. CASE RollbackPromotion(p) /\ active = None
    <2> DEFINE r == Resting(IF p = Main THEN "idle" ELSE "done")
    <2>1. /\ proc' = [proc EXCEPT ![p] = r] /\ active' = proc[p].kept /\ proc[p].at = "rollback"
      BY <1>10 DEF RollbackPromotion, Returns
    <2>2. /\ r.at \in {"idle", "done"} /\ (p # Main => r.at = "done") /\ r.kept = None
          /\ r.todo = <<>> /\ Len(r.todo) = 0
      BY DEF Resting
    <2> HIDE DEF r
    <2>3. Turns(p, r)
      BY <1>10, <2>1, <2>2 DEF Turns, Pending
    <2> QED BY <2>3
  <1>11. CASE RollbackPromotion(p) /\ active # None
    BY <1>11, TurnsBack DEF RollbackPromotion
  <1>12. CASE MarkUpdated(p)
    <2> DEFINE done == [proc[p] EXCEPT !.kept = None, !.fresh = TRUE]
    <2>1. /\ done \in Processes /\ done.kept = None /\ done.todo = proc[p].todo
      BY <1>0 DEF Processes
    <2>2. proc[p].at = "mark" /\ done.todo # <<>> /\ active' = active
      BY <1>0, <1>12, <2>1 DEF MarkUpdated, Sound
    <2>3. CASE Head(done.todo) = "refresh"
      <3>1. Goes(p, done)
        BY <1>12, <2>3 DEF MarkUpdated
      <3> QED BY <2>1, <2>2, <3>1, TurnsOn
    <2>4. CASE Head(done.todo) # "refresh"
      <3> DEFINE r == [done EXCEPT !.at = "read"]
      <3>1. proc' = [proc EXCEPT ![p] = r]
        BY <1>12, <2>4 DEF MarkUpdated
      <3>2. r.at = "read" /\ r.kept = None /\ r.todo = proc[p].todo
        BY <2>1 DEF Processes
      <3> HIDE DEF done, r
      <3>3. Turns(p, r)
        BY <1>t, <2>2, <3>1, <3>2 DEF Turns, Pending
      <3> QED BY <3>3
    <2> QED BY <2>3, <2>4
  <1>13. CASE (ReadSource(p) \/ ReadLocal(p)) /\ ~Returns(p)
    <2>1. active' = active /\ proc[p].todo # <<>> /\ proc[p].kept = None
      BY <1>0, <1>13, AtRun DEF ReadSource, ReadLocal, Sound, cache, Doing
    <2>2. PICK d \in Definitions : \/ Goes(p, [proc[p] EXCEPT !.got = d])
                                   \/ Goes(p, [proc[p] EXCEPT !.content = d])
      <3>1. active # None => LoadServiceDefinition(active) \in Definitions
        BY <1>0, Constants DEF LoadServiceDefinition, Checkouts, TypeOK
      <3>2. tree \in Definitions /\ Embedded \in Definitions
        BY <1>0, Constants DEF TypeOK
      <3>3. \E d \in Definitions : \/ Takes(p, Head(proc[p].todo), d)
                                   \/ Goes(p, [proc[p] EXCEPT !.got = d])
        BY <1>13, <3>1, <3>2 DEF ReadSource, ReadLocal
      <3>4. Head(proc[p].todo) \in {"get", "load"}
        BY <1>0, <1>13, AtRun DEF ReadSource, ReadLocal, Sound, Reads
      <3> QED BY <1>13, <3>3, <3>4 DEF Takes
    <2>3. PICK s \in {[proc[p] EXCEPT !.got = d], [proc[p] EXCEPT !.content = d]} : Goes(p, s)
      BY <2>2
    <2>4. s \in Processes /\ s.todo = proc[p].todo /\ s.kept = None
      BY <1>0, <2>1 DEF Processes
    <2> QED BY <2>1, <2>3, <2>4, TurnsOn
  <1>14. (ensureCloned(p) \/ CreateStagingDir(p) \/ fetchCheckoutAndVerify(p)
           \/ ReadSource(p) \/ ReadLocal(p)) => active' = active
    BY DEF ensureCloned, CreateStagingDir, fetchCheckoutAndVerify, ReadSource, ReadLocal, cache
  <1>15. PromoteRepo(p) /\ Returns(p) => active' = active \/ \E r : Turns(p, r)
    <2> HAVE PromoteRepo(p) /\ Returns(p)
    <2>1. CASE ~ValidatePromotionBudget
      BY <2>1 DEF PromoteRepo
    <2>2. CASE ValidatePromotionBudget
      <3>1. proc' = [proc EXCEPT ![p].at = "install", ![p].kept = active]
        BY <2>2 DEF PromoteRepo
      <3>2. proc'[p].at = "install"
        BY <1>0, <3>1 DEF TypeOK, Processes
      <3>3. proc'[p].at \in {"idle", "done"}
        BY <1>0 DEF Returns, Resting, TypeOK
      <3> QED BY <3>2, <3>3
    <2> QED BY <2>1, <2>2
  <1> QED
    BY <1>1, <1>2, <1>3, <1>4, <1>5, <1>6, <1>7, <1>8, <1>9, <1>10, <1>11, <1>12, <1>13, <1>14,
       <1>15 DEF SourceStep

\* Any step of a process.
Acts(p) ==
    \/ \E c \in Commands, l \in BOOLEAN : newProjectContext(p, c, l)
    \/ Step(p) \/ Crash(p)

\* A step of the lock leaves the cache alone.
LEMMA LockTurns ==
    ASSUME IInv, Cached, NEW p \in Procs, LockStep(p)
    PROVE  \E r : Turns(p, r)
  <1>0. active' = active /\ TypeOK /\ AllSound
    BY DEF LockStep, DraftLock, ResolveFails, DiffLockFiles, AlterConfig, writeResolvedFiles,
           GenerateProjectTransactional, ValidateGeneratedFiles, Up, cache, IInv
  <1>1. CASE Returns(p)
    BY <1>0, <1>1, TurnsBack
  <1>2. CASE ~Returns(p)
    <2>1. PICK x \in {"draft", "compare", "alter", "render", "commit", "check", "start"} :
            Doing(p, {x})
      BY <1>2 DEF LockStep, DraftLock, ResolveFails, DiffLockFiles, AlterConfig,
                  writeResolvedFiles, GenerateProjectTransactional, ValidateGeneratedFiles, Up
    <2>2. /\ proc[p] \in Processes /\ proc[p].todo # <<>> /\ proc[p].kept = None
          /\ proc[p].old \in Identity
      BY <1>0, <2>1, AtRun
    <2>3. GenerateLockFile(p) \in Identity /\ 1 - proc[p].cfg \in Versions
      BY <1>0, <2>2, LockType DEF Processes, Versions
    <2>4. PICK s : /\ Goes(p, s) /\ s \in Processes /\ s.todo = proc[p].todo
                   /\ s.kept = proc[p].kept
      <3> DEFINE o == proc[p]
      <3>1. CASE DraftLock(p)
        <4> DEFINE s == [o EXCEPT !.old = GenerateLockFile(p), !.got = Embedded,
                                  !.content = Embedded]
        <4>1. Goes(p, s) /\ s \in Processes /\ s.todo = o.todo /\ s.kept = o.kept
          BY <2>2, <2>3, <3>1, Constants DEF DraftLock, Processes
        <4> QED BY <4>1
      <3>2. CASE DiffLockFiles(p)
        <4> DEFINE s == [o EXCEPT !.got = Embedded, !.content = Embedded]
        <4>1. Goes(p, s) /\ s \in Processes /\ s.todo = o.todo /\ s.kept = o.kept
          BY <1>2, <2>2, <3>2, Constants DEF DiffLockFiles, Processes
        <4> QED BY <4>1
      <3>3. CASE AlterConfig(p)
        <4> DEFINE s == [o EXCEPT !.cfg = 1 - @]
        <4>1. Goes(p, s) /\ s \in Processes /\ s.todo = o.todo /\ s.kept = o.kept
          BY <2>2, <2>3, <3>3 DEF AlterConfig, Processes
        <4> QED BY <4>1
      <3>4. CASE writeResolvedFiles(p)
        <4> DEFINE s == [o EXCEPT !.made = o.got, !.got = Embedded, !.content = Embedded]
        <4>1. Goes(p, s) /\ s \in Processes /\ s.todo = o.todo /\ s.kept = o.kept
          BY <1>2, <2>2, <3>4, Constants DEF writeResolvedFiles, Processes
        <4> QED BY <4>1
      <3>5. CASE \/ ResolveFails(p) \/ GenerateProjectTransactional(p)
                 \/ ValidateGeneratedFiles(p) \/ Up(p)
        BY <1>2, <2>2, <3>5 DEF ResolveFails, GenerateProjectTransactional,
                                ValidateGeneratedFiles, Up
      <3> QED BY <3>1, <3>2, <3>3, <3>4, <3>5 DEF LockStep
    <2> QED BY <1>0, <2>2, <2>4, TurnsOn
  <1> QED BY <1>1, <1>2

\* Any step of a process is one of the four changes of the cache, or none.
LEMMA ActsTurn ==
    ASSUME IInv, Cached, NEW p \in Procs, Acts(p)
    PROVE  \E r : Turns(p, r)
  <1>1. ASSUME NEW c \in Commands, NEW l \in BOOLEAN, newProjectContext(p, c, l)
        PROVE  \E r : Turns(p, r)
    <2> DEFINE r == [proc[p] EXCEPT !.at = "run", !.todo = Script[c], !.src = source,
                                    !.cfg = config, !.old = lock, !.lax = l, !.fresh = marked]
    <2>1. /\ proc' = [proc EXCEPT ![p] = r] /\ proc[p].at = "idle" /\ active' = active
          /\ (p = Main \/ c = "update")
      BY <1>1 DEF newProjectContext, At, cache
    <2>2. r.at = "run" /\ r.todo = Script[c] /\ r.kept = proc[p].kept
      BY DEF IInv, TypeOK, Processes
    <2> HIDE DEF r
    <2>3. p # Main => Len(r.todo) <= 1
      <3> HAVE p # Main
      <3>1. r.todo = <<"refresh">>
        BY <2>1, <2>2 DEF Script, runSourceUpdate
      <3>2. Len(r.todo) = 1
        BY <3>1
      <3> QED BY <3>2
    <2>4. Pending(proc[p])
      BY <2>1 DEF Pending
    <2>5. Turns(p, r)
      BY <2>1, <2>2, <2>3, <2>4 DEF Turns
    <2> QED BY <2>5
  <1>2. CASE Finish(p) \/ Crash(p)
    BY <1>2, TurnsBack DEF Finish, Crash, cache
  <1> QED BY <1>1, <1>2, SourceTurns, LockTurns DEF Acts, Step

\* The cache stays acceptable.
LEMMA TurnsCached ==
    ASSUME IInv, Cached, NEW p \in Procs, NEW r, Turns(p, r)
    PROVE  Cached'
  <1>0. proc \in [Procs -> Processes] /\ Main \in Procs /\ Others \subseteq Procs
    BY DEF IInv, TypeOK, Procs
  <1>1. \A q \in Procs : proc'[q] = IF q = p THEN r ELSE proc[q]
    BY <1>0 DEF Turns
  <1>2. active' # None => active'.ref \in Acceptable
    BY DEF Turns, Cached
  <1>3. r.kept # None => r.kept.ref \in Acceptable
    BY DEF Turns, Cached
  <1>4. \A q \in Procs : /\ proc'[q].kept # None => proc'[q].kept.ref \in Acceptable
                         /\ proc'[q].at \in {"promote", "install"} => proc'[q].src.ref \in Acceptable
    BY <1>1, <1>3 DEF Turns, Cached
  <1>5. \A o \in Others : Len(proc'[o].todo) <= 1
    <2> TAKE o \in Others
    <2>1. o # Main
      BY Names
    <2> QED BY <1>0, <1>1, <2>1 DEF Turns, Cached
  <1> QED BY <1>2, <1>4, <1>5 DEF Cached

\* A refresh beside the command writes nothing, and leaves the command as it is.
LEMMA OthersOnly ==
    ASSUME IInv, NEW o \in Others, Acts(o)
    PROVE  UNCHANGED <<project, written>> /\ proc'[Main] = proc[Main]
  <1>0. o \in Procs /\ Main \in Procs /\ o # Main /\ TypeOK /\ AllSound
    BY Names DEF Procs, IInv
  <1>1. ~LockStep(o)
    <2>1. \A x \in {"draft", "compare", "alter", "render", "commit", "check", "start"} :
            ~Doing(o, {x})
      BY <1>0, OnlyMain
    <2> QED BY <2>1 DEF LockStep, DraftLock, ResolveFails, DiffLockFiles, AlterConfig,
                  writeResolvedFiles, GenerateProjectTransactional, ValidateGeneratedFiles, Up
  <1>2. UNCHANGED <<project, written>>
    BY <1>0, <1>1, SourceKeeps DEF Acts, newProjectContext, Step, Finish, Crash
  <1>3. \E r : proc' = [proc EXCEPT ![o] = r]
    <2>1. CASE SourceStep(o)
      BY <1>0, <2>1, SourceKeeps DEF Keeps
    <2>2. CASE Finish(o) \/ Crash(o)
      BY <2>2 DEF Finish, Crash, Returns
    <2>3. ASSUME NEW c \in Commands, NEW l \in BOOLEAN, newProjectContext(o, c, l)
          PROVE  \E r : proc' = [proc EXCEPT ![o] = r]
      BY <2>3 DEF newProjectContext
    <2> QED BY <1>1, <2>1, <2>2, <2>3 DEF Acts, Step
  <1> QED BY <1>0, <1>2, <1>3 DEF TypeOK

\* What a step of the command keeps.
Same(r, s) ==
    /\ s.src = r.src /\ s.old = r.old
    /\ s.got = r.got /\ s.content = r.content /\ s.made = r.made

\* A step in the middle of a read or a refresh: a checkout is read that was
\* just verified, or just installed.
Midway(r, s) ==
    /\ Same(r, s) /\ s.todo = r.todo
    /\ r.at \notin {"idle", "done"} /\ s.at \notin {"idle", "done"}
    /\ s.at \in {"mark", "read"} =>
         \/ active' # None /\ active'.clean /\ active'.ref = s.src.ref
         \/ r.at = "mark" /\ active' = active

\* The definition that is found where the source is read.
Found(r, d) ==
    \/ r.at = "read" /\ active # None /\ d = LoadServiceDefinition(active)
    \/ r.at = "read" /\ active = None /\ Head(r.todo) = "get" /\ d = Embedded
    \/ r.at = "run" /\ ~IsGit(r.src) /\ d = IF r.src = None THEN Embedded ELSE tree

\* A read has found a definition.
Finds(r, s) ==
    /\ s.src = r.src /\ s.old = r.old /\ s.made = r.made
    /\ r.todo # <<>> /\ s.todo = Tail(r.todo) /\ s.at = "run"
    /\ \E d \in Definitions :
         /\ Found(r, d)
         /\ \/ Head(r.todo) = "get" /\ s.got = d /\ s.content = r.content
            \/ Head(r.todo) = "load" /\ s.content = d /\ s.got = r.got /\ Granted(r.src)

\* A step has been taken that neither reads nor writes.
Passed(r, s) ==
    /\ Same(r, s)
    /\ r.todo # <<>> /\ s.todo = Tail(r.todo) /\ s.at = "run"
    /\ Head(r.todo) \notin Reads /\ Head(r.todo) # "compare"

\* What a process that goes on is.
LEMMA Gone ==
    ASSUME TypeOK, NEW p \in Procs, NEW s \in Processes, Goes(p, s)
    PROVE  /\ proc'[p].todo = Tail(s.todo) /\ proc'[p].at = "run" /\ proc'[p].kept = s.kept
           /\ Same(s, proc'[p])
  BY DEF Goes, TypeOK, Processes, Same

\* Each step of the command's source.
LEMMA MainSource ==
    ASSUME IInv, SourceStep(Main), proc'[Main] # Resting("idle")
    PROVE  /\ ~Returns(Main)
           /\ proc[Main].at \notin {"idle", "done"}
           /\ \/ Midway(proc[Main], proc'[Main])
              \/ Finds(proc[Main], proc'[Main])
              \/ Passed(proc[Main], proc'[Main])
  <1> USE DEF At
  <1> DEFINE o == proc[Main]
  <1>0. /\ TypeOK /\ AllSound /\ Sound(Main, o) /\ o \in Processes /\ Main \in Procs
    BY DEF IInv, AllSound, Sound, Procs
  <1>1. ~Returns(Main)
    BY <1>0 DEF Returns, TypeOK
  <1>2. ASSUME NEW r \in Processes, proc' = [proc EXCEPT ![Main] = r], Same(o, r), r.todo = o.todo,
               o.at \notin {"idle", "done"}, r.at \notin {"idle", "done"},
               r.at \in {"mark", "read"} =>
                 \/ active' # None /\ active'.clean /\ active'.ref = r.src.ref
                 \/ o.at = "mark" /\ active' = active
        PROVE  Midway(o, proc'[Main])
    BY <1>0, <1>2 DEF Midway, TypeOK
  <1>3. CASE UpdateNothing(Main)
    <2>1. /\ Doing(Main, {"refresh"}) /\ Goes(Main, o)
      BY <1>3 DEF UpdateNothing
    <2>2. Passed(o, proc'[Main]) /\ o.at = "run"
      BY <1>0, <2>1, Gone, AtRun DEF Passed, Reads
    <2> QED BY <1>1, <2>2
  <1>4. CASE ensureCloned(Main)
    <2> DEFINE r == [o EXCEPT !.at = "read"]
    <2>1. /\ proc' = [proc EXCEPT ![Main] = r] /\ active' = active /\ Doing(Main, Reads)
          /\ active # None /\ active.clean /\ active.ref = o.src.ref
      BY <1>1, <1>4 DEF ensureCloned, ReadsGit, verifyCheckout, cache
    <2>2. r \in Processes /\ r.at = "read" /\ r.todo = o.todo /\ Same(o, r) /\ r.src = o.src
      BY <1>0 DEF Processes, Points, Same
    <2> HIDE DEF r
    <2>3. o.at = "run"
      BY <2>1 DEF Doing
    <2> QED BY <1>1, <1>2, <2>1, <2>2, <2>3
  <1>5. CASE CreateStagingDir(Main)
    <2> DEFINE r == [o EXCEPT !.at = "fetch", !.staged = TRUE]
    <2>1. proc' = [proc EXCEPT ![Main] = r] /\ Doing(Main, Reads \cup {"refresh"})
      BY <1>0, <1>1, <1>5 DEF CreateStagingDir, ReadsGit, Refreshes, Doing, TypeOK
    <2>2. r \in Processes /\ r.at = "fetch" /\ r.todo = o.todo /\ Same(o, r)
      BY <1>0 DEF Processes, Points, Same
    <2> HIDE DEF r
    <2>3. o.at = "run"
      BY <2>1 DEF Doing
    <2> QED BY <1>1, <1>2, <2>1, <2>2, <2>3
  <1>6. CASE fetchCheckoutAndVerify(Main)
    <2> DEFINE r == [o EXCEPT !.at = "promote"]
    <2>1. proc' = [proc EXCEPT ![Main] = r] /\ o.at = "fetch"
      BY <1>1, <1>6 DEF fetchCheckoutAndVerify
    <2>2. r \in Processes /\ r.at = "promote" /\ r.todo = o.todo /\ Same(o, r)
      BY <1>0 DEF Processes, Points, Same
    <2> HIDE DEF r
    <2> QED BY <1>1, <1>2, <2>1, <2>2
  <1>7. CASE PromoteRepo(Main)
    <2> DEFINE r == [o EXCEPT !.at = "install", !.kept = active]
    <2>1. proc' = [proc EXCEPT ![Main] = r] /\ o.at = "promote"
      BY <1>0, <1>1, <1>7 DEF PromoteRepo, TypeOK
    <2>2. r \in Processes /\ r.at = "install" /\ r.todo = o.todo /\ Same(o, r)
      BY <1>0 DEF Processes, Points, Same, TypeOK
    <2> HIDE DEF r
    <2> QED BY <1>1, <1>2, <2>1, <2>2
  <1>8. CASE Install(Main)
    <2> DEFINE r == [o EXCEPT !.at = "mark", !.staged = FALSE]
    <2>1. /\ proc' = [proc EXCEPT ![Main] = r] /\ o.at = "install"
          /\ active' = [url |-> o.src.url, ref |-> o.src.ref, clean |-> TRUE]
          /\ IsGit(o.src) /\ o.src \in Sources
      BY <1>0, <1>8 DEF Install, TypeOK, Sound, Processes
    <2>2. r \in Processes /\ r.at = "mark" /\ r.todo = o.todo /\ Same(o, r) /\ r.src = o.src
      BY <1>0 DEF Processes, Points, Same
    <2> HIDE DEF r
    <2>3. active'.clean /\ active'.ref = r.src.ref
      BY <2>1, <2>2
    <2>4. active' # None
      <3>1. o.src.url \in Urls /\ o.src.ref \in Refs
        BY <2>1, GitType
      <3>2. active' \in [url : Urls, ref : Refs, clean : BOOLEAN]
        BY <2>1, <3>1
      <3> QED BY <3>2, Names
    <2> QED BY <1>1, <1>2, <2>1, <2>2, <2>3, <2>4
  <1>9. CASE InstallFails(Main)
    <2> DEFINE r == [o EXCEPT !.at = "rollback"]
    <2>1. proc' = [proc EXCEPT ![Main] = r] /\ o.at = "install"
      BY <1>9 DEF InstallFails
    <2>2. r \in Processes /\ r.at = "rollback" /\ r.todo = o.todo /\ Same(o, r)
      BY <1>0 DEF Processes, Points, Same
    <2> HIDE DEF r
    <2> QED BY <1>1, <1>2, <2>1, <2>2
  <1>10. CASE RollbackPromotion(Main)
    BY <1>1, <1>10 DEF RollbackPromotion
  <1>11. CASE MarkUpdated(Main)
    <2> DEFINE done == [o EXCEPT !.kept = None, !.fresh = TRUE]
    <2>1. done \in Processes /\ done.todo = o.todo /\ Same(o, done)
      BY <1>0 DEF Processes, Same
    <2>2. o.at = "mark" /\ done.todo # <<>> /\ active' = active
      BY <1>0, <1>11, <2>1 DEF MarkUpdated, Sound
    <2>3. CASE Head(done.todo) = "refresh"
      <3>1. Goes(Main, done)
        BY <1>11, <2>3 DEF MarkUpdated
      <3> HIDE DEF done
      <3>2. proc'[Main].todo = Tail(done.todo) /\ proc'[Main].at = "run" /\ Same(done, proc'[Main])
        BY <1>0, <2>1, <3>1, Gone
      <3>3. Passed(o, proc'[Main])
        BY <2>1, <2>2, <2>3, <3>2 DEF Passed, Reads, Same
      <3> QED BY <1>1, <2>2, <3>3
    <2>4. CASE Head(done.todo) # "refresh"
      <3> DEFINE r == [done EXCEPT !.at = "read"]
      <3>1. proc' = [proc EXCEPT ![Main] = r]
        BY <1>11, <2>4 DEF MarkUpdated
      <3>2. r \in Processes /\ r.at = "read" /\ r.todo = o.todo /\ Same(o, r)
        BY <2>1 DEF Processes, Points, Same
      <3> HIDE DEF done, r
      <3> QED BY <1>1, <1>2, <2>2, <3>1, <3>2
    <2> QED BY <2>3, <2>4
  <1>12. ASSUME NEW d \in Definitions, Found(o, d), o.todo # <<>>, o.at \notin {"idle", "done"},
                \/ Takes(Main, Head(o.todo), d)
                \/ Head(o.todo) = "get" /\ Goes(Main, [o EXCEPT !.got = d]),
                Head(o.todo) \in Reads
         PROVE  Finds(o, proc'[Main])
    <2>1. CASE Goes(Main, [o EXCEPT !.got = d]) /\ Head(o.todo) = "get"
      <3> DEFINE s == [o EXCEPT !.got = d]
      <3>1. /\ s \in Processes /\ s.todo = o.todo /\ s.got = d /\ s.src = o.src /\ s.old = o.old
            /\ s.content = o.content /\ s.made = o.made
        BY <1>0 DEF Processes
      <3>2. Goes(Main, s)
        BY <2>1
      <3> HIDE DEF s
      <3>3. proc'[Main].todo = Tail(s.todo) /\ proc'[Main].at = "run" /\ Same(s, proc'[Main])
        BY <1>0, <3>1, <3>2, Gone
      <3> QED BY <1>12, <2>1, <3>1, <3>3 DEF Finds, Same
    <2>2. CASE Goes(Main, [o EXCEPT !.content = d]) /\ Head(o.todo) = "load" /\ Granted(o.src)
      <3> DEFINE s == [o EXCEPT !.content = d]
      <3>1. /\ s \in Processes /\ s.todo = o.todo /\ s.got = o.got /\ s.src = o.src /\ s.old = o.old
            /\ s.content = d /\ s.made = o.made
        BY <1>0 DEF Processes
      <3>2. Goes(Main, s)
        BY <2>2
      <3> HIDE DEF s
      <3>3. proc'[Main].todo = Tail(s.todo) /\ proc'[Main].at = "run" /\ Same(s, proc'[Main])
        BY <1>0, <3>1, <3>2, Gone
      <3> QED BY <1>12, <2>2, <3>1, <3>3 DEF Finds, Same
    <2> QED BY <1>1, <1>12, <2>1, <2>2 DEF Takes, Reads
  <1>13. CASE ReadSource(Main)
    <2>1. o.at = "read" /\ o.todo # <<>> /\ Head(o.todo) \in Reads
      BY <1>0, <1>13 DEF ReadSource, Sound
    <2>2. CASE active # None
      <3> DEFINE d == LoadServiceDefinition(active)
      <3>1. d \in Definitions
        BY <1>0, <2>2, Constants DEF LoadServiceDefinition, Checkouts, TypeOK
      <3>2. Takes(Main, Head(o.todo), d) /\ Found(o, d)
        BY <1>13, <2>1, <2>2 DEF ReadSource, Found
      <3> HIDE DEF d
      <3> QED BY <1>1, <1>12, <2>1, <3>1, <3>2
    <2>3. CASE active = None
      <3>1. Head(o.todo) = "get" /\ Goes(Main, [o EXCEPT !.got = Embedded])
        BY <1>1, <1>13, <2>3 DEF ReadSource
      <3>2. Found(o, Embedded) /\ Embedded \in Definitions
        BY <2>1, <2>3, <3>1, Constants DEF Found
      <3> QED BY <1>1, <1>12, <2>1, <3>1, <3>2
    <2> QED BY <2>2, <2>3
  <1>14. CASE ReadLocal(Main)
    <2> DEFINE d == IF o.src = None THEN Embedded ELSE tree
    <2>1. Doing(Main, Reads) /\ ~IsGit(o.src) /\ Takes(Main, Head(o.todo), d)
      BY <1>14 DEF ReadLocal
    <2>2. o.at = "run" /\ o.todo # <<>> /\ Head(o.todo) \in Reads
      BY <1>0, <2>1, AtRun
    <2>3. d \in Definitions /\ Found(o, d)
      BY <1>0, <2>1, <2>2, Constants DEF TypeOK, Found
    <2> HIDE DEF d
    <2> QED BY <1>1, <1>12, <2>1, <2>2, <2>3
  <1>15. CASE FetchFails(Main)
    BY <1>1, <1>15 DEF FetchFails
  <1> QED
    BY <1>3, <1>4, <1>5, <1>6, <1>7, <1>8, <1>9, <1>10, <1>11, <1>13, <1>14, <1>15 DEF SourceStep

\* The lock that is made now, and nothing read for it any more.
Forgotten(r, s) == s.got = Embedded /\ s.content = Embedded /\ s.src = r.src

\* What a step of the lock makes of the command, of the lock and of the files.
Drafted(r, s) ==
    /\ Head(r.todo) = "draft"
    /\ Forgotten(r, s) /\ s.made = r.made /\ s.old = GenerateLockFile(Main)
    /\ UNCHANGED written
Compared(r, s) ==
    /\ Head(r.todo) = "compare"
    /\ Forgotten(r, s) /\ s.made = r.made /\ s.old = r.old /\ r.old = GenerateLockFile(Main)
    /\ UNCHANGED written
Written(r, s) ==
    /\ Head(r.todo) = "render"
    /\ Forgotten(r, s) /\ s.made = r.got /\ s.old = r.old
    /\ UNCHANGED written
Committed(r, s) ==
    /\ Head(r.todo) = "commit"
    /\ Same(r, s)
    /\ lock' = r.old /\ recorded'.from = r.made /\ files' = recorded' /\ running' = running
Started(r, s) ==
    /\ Passed(r, s)
    /\ lock' = lock /\ recorded' = recorded /\ files' = files /\ running' = files

\* Each step of the lock, but for those that refuse.
LEMMA MainLock ==
    ASSUME IInv, LockStep(Main), proc'[Main] # Resting("idle")
    PROVE  /\ proc[Main].todo # <<>> /\ proc[Main].at = "run"
           /\ proc'[Main].todo = Tail(proc[Main].todo) /\ proc'[Main].at = "run"
           /\ \/ Drafted(proc[Main], proc'[Main])
              \/ Compared(proc[Main], proc'[Main])
              \/ Written(proc[Main], proc'[Main])
              \/ Committed(proc[Main], proc'[Main])
              \/ Started(proc[Main], proc'[Main])
              \/ Passed(proc[Main], proc'[Main]) /\ UNCHANGED written
  <1> DEFINE o == proc[Main]
  <1>0. TypeOK /\ AllSound /\ Main \in Procs
    BY DEF IInv, Procs
  <1>1. ~Returns(Main)
    BY <1>0 DEF Returns, TypeOK
  <1>2. ASSUME NEW s \in Processes, Goes(Main, s)
        PROVE  /\ proc'[Main].todo = Tail(s.todo) /\ proc'[Main].at = "run"
               /\ Same(s, proc'[Main])
    BY <1>0, <1>2, Gone
  <1>3. ASSUME NEW x \in Steps, Doing(Main, {x})
        PROVE  /\ o \in Processes /\ o.todo # <<>> /\ Head(o.todo) = x /\ o.at = "run"
               /\ o.old \in Identity
    BY <1>0, <1>3, AtRun
  <1>s. {"draft", "compare", "alter", "render", "commit", "check", "start"} \subseteq Steps
    BY DEF Steps
  <1>4. CASE DraftLock(Main)
    <2> DEFINE s == [o EXCEPT !.old = GenerateLockFile(Main), !.got = Embedded, !.content = Embedded]
    <2>1. Doing(Main, {"draft"}) /\ Goes(Main, s) /\ UNCHANGED written
      BY <1>4 DEF DraftLock
    <2>2. o \in Processes /\ o.todo # <<>> /\ Head(o.todo) = "draft" /\ o.at = "run" /\ o.old \in Identity
      BY <1>3, <1>s, <2>1
    <2>3. /\ s \in Processes /\ s.todo = o.todo /\ s.src = o.src /\ s.got = Embedded
          /\ s.content = Embedded /\ s.made = o.made /\ s.old = GenerateLockFile(Main)
      BY <1>0, <2>2, LockType, Constants DEF Processes
    <2> HIDE DEF s
    <2> QED BY <1>2, <2>1, <2>2, <2>3 DEF Same, Drafted, Forgotten
  <1>5. CASE DiffLockFiles(Main)
    <2> DEFINE s == [o EXCEPT !.got = Embedded, !.content = Embedded]
    <2>1. Doing(Main, {"compare"}) /\ Goes(Main, s) /\ UNCHANGED written
          /\ o.old = GenerateLockFile(Main)
      BY <1>1, <1>5 DEF DiffLockFiles
    <2>2. o \in Processes /\ o.todo # <<>> /\ Head(o.todo) = "compare" /\ o.at = "run"
      BY <1>3, <1>s, <2>1
    <2>3. /\ s \in Processes /\ s.todo = o.todo /\ s.src = o.src /\ s.got = Embedded
          /\ s.content = Embedded /\ s.made = o.made /\ s.old = o.old
      BY <2>2, Constants DEF Processes
    <2> HIDE DEF s
    <2> QED BY <1>2, <2>1, <2>2, <2>3 DEF Same, Compared, Forgotten
  <1>6. CASE AlterConfig(Main)
    <2> DEFINE s == [o EXCEPT !.cfg = 1 - @]
    <2>1. Doing(Main, {"alter"}) /\ Goes(Main, s) /\ UNCHANGED written
      BY <1>6 DEF AlterConfig
    <2>2. o \in Processes /\ o.todo # <<>> /\ Head(o.todo) = "alter" /\ o.at = "run"
      BY <1>3, <1>s, <2>1
    <2>3. /\ s \in Processes /\ s.todo = o.todo /\ Same(o, s)
      <3>1. 1 - o.cfg \in Versions
        BY <2>2 DEF Processes, Versions
      <3> QED BY <2>2, <3>1 DEF Processes, Same
    <2> HIDE DEF s
    <2> QED BY <1>2, <2>1, <2>2, <2>3 DEF Same, Passed, Reads
  <1>7. CASE writeResolvedFiles(Main)
    <2> DEFINE s == [o EXCEPT !.made = o.got, !.got = Embedded, !.content = Embedded]
    <2>1. Doing(Main, {"render"}) /\ Goes(Main, s) /\ UNCHANGED written
      BY <1>1, <1>7 DEF writeResolvedFiles
    <2>2. o \in Processes /\ o.todo # <<>> /\ Head(o.todo) = "render" /\ o.at = "run"
      BY <1>3, <1>s, <2>1
    <2>3. /\ s \in Processes /\ s.todo = o.todo /\ s.src = o.src /\ s.got = Embedded
          /\ s.content = Embedded /\ s.made = o.got /\ s.old = o.old
      BY <2>2, Constants DEF Processes
    <2> HIDE DEF s
    <2> QED BY <1>2, <2>1, <2>2, <2>3 DEF Same, Written, Forgotten
  <1>8. CASE GenerateProjectTransactional(Main)
    <2>1. Doing(Main, {"commit"}) /\ Goes(Main, o) /\ lock' = o.old /\ running' = running
          /\ recorded' = [from |-> o.made, config |-> o.cfg, digest |-> o.old.digest]
          /\ files' = recorded'
      BY <1>8 DEF GenerateProjectTransactional
    <2>2. o \in Processes /\ o.todo # <<>> /\ Head(o.todo) = "commit" /\ o.at = "run"
      BY <1>3, <1>s, <2>1
    <2>3. recorded'.from = o.made
      BY <2>1
    <2> QED BY <1>2, <2>1, <2>2, <2>3 DEF Committed
  <1>9. CASE ValidateGeneratedFiles(Main)
    <2>1. Doing(Main, {"check"}) /\ Goes(Main, o) /\ UNCHANGED written
      BY <1>1, <1>9 DEF ValidateGeneratedFiles
    <2>2. o \in Processes /\ o.todo # <<>> /\ Head(o.todo) = "check" /\ o.at = "run"
      BY <1>3, <1>s, <2>1
    <2> QED BY <1>2, <2>1, <2>2 DEF Passed, Reads
  <1>10. CASE Up(Main)
    <2>1. Doing(Main, {"start"}) /\ Goes(Main, o) /\ running' = files
          /\ lock' = lock /\ recorded' = recorded /\ files' = files
      BY <1>10 DEF Up
    <2>2. o \in Processes /\ o.todo # <<>> /\ Head(o.todo) = "start" /\ o.at = "run"
      BY <1>3, <1>s, <2>1
    <2> QED BY <1>2, <2>1, <2>2 DEF Passed, Reads, Started
  <1>11. CASE ResolveFails(Main)
    BY <1>1, <1>11 DEF ResolveFails
  <1> QED BY <1>4, <1>5, <1>6, <1>7, <1>8, <1>9, <1>10, <1>11 DEF LockStep

-----------------------------------------------------------------------------
(* Only what was verified.                                                   *)

Verified == {Embedded} \cup Acceptable \cup Trees

\* What a command has read, rendered and drafted.
Known(r) ==
    /\ {r.got, r.content, r.made} \subseteq Verified
    /\ r.at \notin {"idle", "done"} => {r.old.from, r.old.catalog} \subseteq Verified

\* While the command is about to read a checkout, no edited one is active, and
\* none is kept that a rollback would put back.
Clean ==
    proc[Main].at \in {"mark", "read"} =>
        /\ active # None => active.clean
        /\ active = None => \A o \in Others : proc[o].kept # None => proc[o].kept.clean

FromVerified ==
    /\ {lock.from, lock.catalog, recorded.from} \subseteq Verified
    /\ files # None => files.from \in Verified
    /\ running # None => running.from \in Verified

Trusted ==
    /\ Cached
    /\ FromVerified
    /\ Known(proc[Main])
    /\ Clean

\* Beside the command, the cache is refreshed once.
OneRefresh == \A o1, o2 \in Others : o1 = o2

\* A refresh beside the command.
LEMMA OthersTrust ==
    ASSUME IInv, Trusted, OneRefresh, NEW o \in Others, Acts(o)
    PROVE  Trusted'
  <1>0. o \in Procs /\ Main \in Procs /\ o # Main /\ proc \in [Procs -> Processes]
    BY Names DEF Procs, IInv, TypeOK
  <1>1. PICK r : Turns(o, r)
    BY <1>0, ActsTurn DEF Trusted
  <1>2. Cached'
    BY <1>0, <1>1, TurnsCached DEF Trusted
  <1>3. UNCHANGED written /\ proc'[Main] = proc[Main]
    BY OthersOnly
  <1>4. \A q \in Others : q = o
    BY DEF OneRefresh
  <1>5. proc'[o] = r
    BY <1>0, <1>1 DEF Turns
  <1>6. ASSUME proc[Main].at \in {"mark", "read"}
        PROVE  /\ active' # None => active'.clean
               /\ active' = None => (r.kept # None => r.kept.clean)
    <2>1. /\ active # None => active.clean
          /\ active = None => (proc[o].kept # None => proc[o].kept.clean)
      BY <1>6 DEF Trusted, Clean
    <2> QED BY <1>1, <2>1 DEF Turns
  <1>7. Clean'
    BY <1>3, <1>4, <1>5, <1>6 DEF Clean
  <1>8. FromVerified' /\ Known(proc[Main])'
    BY <1>3 DEF Trusted, FromVerified, Known, written
  <1> QED BY <1>2, <1>7, <1>8 DEF Trusted

\* What is found where the command reads was verified.
LEMMA FoundVerified ==
    ASSUME IInv, Trusted, NEW d, Found(proc[Main], d)
    PROVE  d \in Verified
  <1>1. tree \in Trees
    BY DEF IInv, TypeOK
  <1>2. proc[Main].at = "read" /\ active # None => active.clean /\ active.ref \in Acceptable
    BY DEF Trusted, Clean, Cached
  <1> QED BY <1>1, <1>2 DEF Found, Verified, LoadServiceDefinition

\* The command itself.
LEMMA MainTrusts ==
    ASSUME IInv, Trusted, Acts(Main)
    PROVE  Trusted'
  <1> DEFINE o == proc[Main]
  <1> DEFINE s == proc'[Main]
  <1>0. Main \in Procs /\ proc \in [Procs -> Processes] /\ Main \notin Others
        /\ FromVerified /\ Known(o) /\ Clean
    BY Names DEF Procs, IInv, TypeOK, Trusted
  <1>1. PICK r : Turns(Main, r)
    BY <1>0, ActsTurn DEF Trusted
  <1>2. Cached'
    BY <1>0, <1>1, TurnsCached DEF Trusted
  <1>3. \A q \in Others : proc'[q] = proc[q]
    BY <1>0, <1>1 DEF Turns, Procs
  <1>4. ASSUME Known(s), s.at \notin {"mark", "read"}, FromVerified' PROVE Trusted'
    BY <1>2, <1>4 DEF Trusted, Known, Clean
  <1>5. s = Resting("idle") => Known(s) /\ s.at = "idle"
    BY DEF Resting, Known, Verified
  <1>6. UNCHANGED written => FromVerified'
    BY <1>0 DEF FromVerified, written
  <1>7. ASSUME NEW c \in Commands, NEW l \in BOOLEAN, newProjectContext(Main, c, l)
        PROVE  Trusted'
    <2>1. /\ proc' = [proc EXCEPT ![Main] =
                        [@ EXCEPT !.at = "run", !.todo = Script[c], !.src = source,
                                  !.cfg = config, !.old = lock, !.lax = l, !.fresh = marked]]
          /\ UNCHANGED written
      BY <1>7 DEF newProjectContext
    <2>2. /\ s.at = "run" /\ s.old = lock /\ s.got = o.got /\ s.content = o.content
          /\ s.made = o.made
      BY <1>0, <2>1 DEF Processes
    <2>3. Known(s)
      BY <1>0, <2>2 DEF Known, FromVerified
    <2> QED BY <1>4, <1>6, <2>1, <2>2, <2>3
  <1>8. CASE Finish(Main) \/ Crash(Main)
    <2>1. s = Resting("idle") /\ UNCHANGED written
      BY <1>0, <1>8 DEF Finish, Crash, Returns
    <2> QED BY <1>4, <1>5, <1>6, <2>1
  <1>9. CASE SourceStep(Main)
    <2>1. UNCHANGED written
      BY <1>0, <1>9, SourceKeeps
    <2>2. CASE s = Resting("idle")
      BY <1>4, <1>5, <1>6, <2>1, <2>2
    <2>3. CASE s # Resting("idle")
      <3>1. o.at \notin {"idle", "done"} /\ (Midway(o, s) \/ Finds(o, s) \/ Passed(o, s))
        BY <1>9, <2>3, MainSource
      <3>2. CASE Midway(o, s)
        <4>1. Known(s)
          BY <1>0, <3>1, <3>2 DEF Known, Midway, Same
        <4>2. Clean'
          BY <1>0, <1>3, <3>2 DEF Clean, Midway
        <4> QED BY <1>2, <1>6, <2>1, <4>1, <4>2 DEF Trusted, Known
      <3>3. CASE Finds(o, s)
        <4>1. PICK d \in Verified : s.got \in {o.got, d} /\ s.content \in {o.content, d}
          BY <3>3, FoundVerified DEF Finds
        <4>2. Known(s) /\ s.at = "run"
          BY <1>0, <3>1, <3>3, <4>1 DEF Known, Finds
        <4> QED BY <1>4, <1>6, <2>1, <4>2
      <3>4. CASE Passed(o, s)
        <4>1. Known(s) /\ s.at = "run"
          BY <1>0, <3>1, <3>4 DEF Known, Passed, Same
        <4> QED BY <1>4, <1>6, <2>1, <4>1
      <3> QED BY <3>1, <3>2, <3>3, <3>4
    <2> QED BY <2>2, <2>3
  <1>10. CASE LockStep(Main)
    <2>1. CASE s = Resting("idle")
      <3>1. ~GenerateProjectTransactional(Main) /\ ~Up(Main)
        <4>1. ASSUME Goes(Main, o) PROVE FALSE
          <5>1. s.at = "run"
            BY <1>0, <4>1, Gone DEF IInv
          <5> QED BY <1>5, <2>1, <5>1
        <4> QED BY <4>1 DEF GenerateProjectTransactional, Up
      <3>2. UNCHANGED written
        BY <1>10, <3>1 DEF LockStep, DraftLock, ResolveFails, DiffLockFiles, AlterConfig,
                  writeResolvedFiles, ValidateGeneratedFiles
      <3> QED BY <1>4, <1>5, <1>6, <2>1, <3>2
    <2>2. CASE s # Resting("idle")
      <3>1. /\ o.at = "run" /\ s.at = "run"
            /\ \/ Drafted(o, s)
               \/ Compared(o, s)
               \/ Written(o, s)
               \/ Committed(o, s)
               \/ Started(o, s)
               \/ Passed(o, s) /\ UNCHANGED written
        BY <1>10, <2>2, MainLock
      <3>2. CASE Drafted(o, s)
        <4>1. s.old.from = o.got /\ s.old.catalog = o.content
          BY <3>2 DEF Drafted, GenerateLockFile
        <4>2. Known(s) /\ UNCHANGED written
          BY <1>0, <3>1, <3>2, <4>1 DEF Known, Drafted, Forgotten, Verified
        <4> QED BY <1>4, <1>6, <3>1, <4>2
      <3>3. CASE Compared(o, s) \/ Written(o, s)
        <4>1. Known(s) /\ UNCHANGED written
          BY <1>0, <3>1, <3>3 DEF Known, Compared, Written, Forgotten, Verified
        <4> QED BY <1>4, <1>6, <3>1, <4>1
      <3>4. CASE Committed(o, s)
        <4>1. Known(s) /\ FromVerified'
          BY <1>0, <3>1, <3>4 DEF Known, Committed, Same, FromVerified
        <4> QED BY <1>4, <3>1, <4>1
      <3>5. CASE Started(o, s)
        <4>1. Known(s) /\ FromVerified'
          BY <1>0, <3>1, <3>5 DEF Known, Started, Passed, Same, FromVerified
        <4> QED BY <1>4, <3>1, <4>1
      <3>6. CASE Passed(o, s) /\ UNCHANGED written
        <4>1. Known(s)
          BY <1>0, <3>1, <3>6 DEF Known, Passed, Same
        <4> QED BY <1>4, <1>6, <3>1, <3>6, <4>1
      <3> QED BY <3>1, <3>2, <3>3, <3>4, <3>5, <3>6
    <2> QED BY <2>1, <2>2
  <1> QED BY <1>7, <1>8, <1>9, <1>10 DEF Acts, Step

\* Each step keeps what was verified.
LEMMA TrustStays ==
    ASSUME IInv, Trusted, OneRefresh, [Next]_vars
    PROVE  Trusted'
  <1>1. ASSUME NEW p \in Procs, Acts(p) PROVE Trusted'
    BY <1>1, OthersTrust, MainTrusts DEF Procs
  <1>2. CASE Outside
    <2>1. /\ UNCHANGED proc
          /\ lock' = lock /\ recorded' = recorded /\ running' = running
          /\ files' \in {files, None}
      BY <1>2 DEF Outside, runSourceAdd, EditConfig, Upgrade, TagMoves, EditTree, EditCheckout,
                  EditFiles, Expire, written
    <2>2. \/ active' = active
          \/ /\ active # None /\ active' = [active EXCEPT !.clean = FALSE]
             /\ proc[Main].at \in {"idle", "done"}
      BY <1>2 DEF Outside, runSourceAdd, EditConfig, Upgrade, TagMoves, EditTree, EditCheckout,
                  EditFiles, Expire, cache, Quiet, Procs
    <2>3. active' # None => active # None /\ active'.ref = active.ref
      BY <2>2 DEF IInv, TypeOK, Checkouts
    <2>4. Cached'
      BY <2>1, <2>3 DEF Trusted, Cached
    <2>5. Clean'
      BY <2>1, <2>2 DEF Trusted, Clean
    <2>6. FromVerified' /\ Known(proc[Main])'
      BY <2>1 DEF Trusted, FromVerified, Known
    <2> QED BY <2>4, <2>5, <2>6 DEF Trusted
  <1>3. CASE UNCHANGED vars
    BY <1>3 DEF vars, written, cache, Trusted, Cached, FromVerified, Known, Clean
  <1> QED BY <1>1, <1>2, <1>3 DEF Next, Acts

\* A project that has just been made.
LEMMA TrustBegins == Init => Trusted
  <1> SUFFICES ASSUME Init PROVE Trusted
    OBVIOUS
  <1>1. \A p \in Procs : proc[p] = Resting("idle")
    BY DEF Init
  <1>2. Len(<<>>) = 0
    OBVIOUS
  <1>3. \A p \in Procs : /\ proc[p].kept = None /\ proc[p].at = "idle" /\ Len(proc[p].todo) <= 1
                         /\ proc[p].got = Embedded /\ proc[p].content = Embedded
                         /\ proc[p].made = Embedded
    BY <1>1, <1>2 DEF Resting
  <1>4. Cached
    BY <1>3 DEF Cached, Init, Procs
  <1>5. FromVerified
    BY DEF Init, FromVerified, Verified
  <1>6. Known(proc[Main]) /\ Clean
    BY <1>3 DEF Known, Clean, Verified, Procs
  <1> QED BY <1>4, <1>5, <1>6 DEF Trusted

\* Nothing unsigned, over a limit or edited in the cache becomes an active
\* checkout, a lock, a rendered file or a container, for any sources,
\* definitions and edits and with one refresh of the cache beside the command.
THEOREM OnlyVerifiedIsUsed == OneRefresh /\ Spec => []OnlyVerified
  <1>1. IInv /\ Trusted /\ OneRefresh /\ [Next]_vars => Trusted'
    BY TrustStays
  <1>2. Trusted => OnlyVerified
    BY DEF Trusted, Cached, FromVerified, OnlyVerified, Verified
  <1>3. OneRefresh => OneRefresh'
    BY DEF OneRefresh
  <1> QED BY <1>1, <1>2, <1>3, TrustBegins, Inductive, PTL DEF Spec
-----------------------------------------------------------------------------
(* A lock is of its source.                                                  *)

\* What the lock says of its service is what its source says.
Sourced(l) ==
    /\ l.from = l.catalog
    /\ l.source = None => l.from = Embedded
    /\ IsGit(l.source) => l.from = l.source.ref
    /\ l.source # None => l.source.granted

\* The refresh beside the command has moved the active checkout away, or is over.
Moved == \E o \in Others : ~Pending(proc[o])

\* The next step of a command is one of these.
Upcoming(r, S) == r.todo # <<>> /\ Head(r.todo) \in S

\* What was got, and then loaded, is the commit the source names.
Faithful(r) ==
    /\ Upcoming(r, {"load", "compare", "draft"}) => r.got = r.src.ref
    /\ Upcoming(r, {"compare", "draft"}) => r.content = r.src.ref

\* What was got, and then loaded, are states the directory has had, in this order.
InTree(r) ==
    /\ Upcoming(r, {"load", "compare", "draft"}) => r.got \in Trees /\ r.got <= tree
    /\ Upcoming(r, {"compare", "draft"}) =>
         r.content \in Trees /\ r.got <= r.content /\ r.content <= tree

\* A draft that was made of two states of its source; what it is compared with
\* will be of one state, and it is refused.  Of a repository, the checkout was
\* moved away between the two reads, which happens once; of a directory, the
\* second state is the later one.
Unsettled(r) ==
    /\ Has(r.todo, "compare")
    /\ r.old.source = r.src /\ r.src # None /\ Granted(r.src)
    /\ IsGit(r.src) => Moved /\ Faithful(r)
    /\ ~IsGit(r.src) =>
         /\ r.old.from \in Trees /\ r.old.catalog \in Trees
         /\ r.old.from <= r.old.catalog /\ r.old.catalog <= tree
         /\ Upcoming(r, {"load", "compare"}) => r.old.catalog <= r.got

\* A command between its steps.
Honest(r) ==
    /\ Paired(r.todo)
    /\ r.at = "idle" => r.got = Embedded /\ r.content = Embedded
    /\ Upcoming(r, {"compare", "draft"}) => Granted(r.src)
    /\ r.src = None => r.got = Embedded /\ r.content = Embedded
    /\ r.src # None /\ ~IsGit(r.src) => InTree(r)
    /\ IsGit(r.src) /\ ~Moved => Faithful(r)
    /\ r.at \notin {"idle", "done"} => Sourced(r.old) \/ Unsettled(r)

\* The checkout that is active is the one the command has verified.
Intact(r) == active # None /\ active.clean /\ active.ref = r.src.ref

\* It reads that one, unless it was moved away before the read, which no draft
\* survives.
Reading(r) == r.at \in {"mark", "read"} => Intact(r) \/ (Moved /\ Sourced(r.old))

Honesty ==
    /\ Sourced(lock)
    /\ Honest(proc[Main])
    /\ Reading(proc[Main])

\* A refresh beside the command.
LEMMA OthersHonest ==
    ASSUME IInv, Trusted, Honesty, OneRefresh, NEW o \in Others, Acts(o)
    PROVE  Honesty'
  <1> DEFINE r == proc[Main]
  <1>0. /\ o \in Procs /\ Main \in Procs /\ proc \in [Procs -> Processes]
        /\ Sound(Main, r)
    BY Names DEF Procs, IInv, TypeOK, AllSound
  <1>1. PICK n : Turns(o, n)
    BY <1>0, ActsTurn DEF Trusted
  <1>2. UNCHANGED <<project, written>> /\ proc'[Main] = proc[Main]
    BY OthersOnly
  <1>3. /\ \A q \in Others : q = o
        /\ proc'[o] = n /\ o # Main
    BY <1>0, <1>1, Names DEF OneRefresh, Turns
  <1>4. (Moved <=> ~Pending(proc[o])) /\ (Moved' <=> ~Pending(n))
    <2>1. Moved <=> ~Pending(proc[o])
      BY <1>3 DEF Moved
    <2>2. Moved' <=> ~Pending(n)
      BY <1>3 DEF Moved, Pending
    <2> QED BY <2>1, <2>2
  <1>5. Moved => Moved'
    BY <1>1, <1>3, <1>4 DEF Turns
  <1>6. Sourced(lock)'
    BY <1>2 DEF Honesty, Sourced, written
  <1>7. Honest(proc[Main])'
    <2>1. tree' = tree
      BY <1>2 DEF project
    <2> QED BY <1>2, <1>5, <2>1 DEF Honesty, Honest, InTree, Faithful, Unsettled, Upcoming, Sourced
  <1>8. ASSUME r.at \in {"mark", "read"}
        PROVE  \/ active' # None /\ active'.clean /\ active'.ref = r.src.ref
               \/ Moved' /\ Sourced(r.old)
    <2>1. CASE Intact(r) /\ active' = active
      BY <2>1 DEF Intact
    <2>2. CASE Intact(r) /\ active' # active
      <3>1. Pending(proc[o]) /\ ~Pending(n)
        BY <1>1, <2>2 DEF Turns, Intact
      <3>2. ~Moved /\ Moved'
        BY <1>4, <3>1
      <3>3. IsGit(r.src)
        BY <1>0, <1>8 DEF Sound
      <3>4. Sourced(r.old)
        BY <1>8, <3>2, <3>3 DEF Honesty, Honest, Unsettled
      <3> QED BY <3>2, <3>4
    <2>3. CASE Moved /\ Sourced(r.old)
      BY <1>5, <2>3
    <2> QED BY <1>8, <2>1, <2>2, <2>3 DEF Honesty, Reading
  <1>9. Reading(proc[Main])'
    BY <1>2, <1>8 DEF Reading, Intact, Sourced
  <1> QED BY <1>6, <1>7, <1>9 DEF Honesty

\* What comes after the first step of the command.
LEMMA Ahead ==
    ASSUME IInv, Honesty, NEW r, r = proc[Main], r.todo # <<>>, NEW s, s.todo = Tail(r.todo)
    PROVE  /\ Paired(s.todo)
           /\ Upcoming(s, {"load"}) => Head(r.todo) = "get"
           /\ Upcoming(s, {"compare", "draft"}) => Head(r.todo) = "load"
           /\ Head(r.todo) # "compare" /\ Has(r.todo, "compare") => Has(s.todo, "compare")
           /\ Head(r.todo) = "draft" => Has(s.todo, "compare")
           /\ Head(r.todo) = "commit" => ~Has(r.todo, "compare")
  <1>1. r.todo \in Seq(Steps) /\ Ordered(r.todo) /\ Paired(r.todo)
    BY DEF IInv, AllSound, Sound, Procs, Processes, Honesty, Honest
  <1>2. /\ Paired(s.todo)
        /\ s.todo # <<>> => Follows(Head(r.todo), Head(s.todo))
    BY <1>1, PairedTail
  <1>3. /\ Head(r.todo) # "compare" /\ Has(r.todo, "compare") => Has(s.todo, "compare")
        /\ Head(r.todo) = "draft" => Has(s.todo, "compare")
        /\ Head(r.todo) = "commit" => s.todo = <<>>
    BY <1>1, OrderedTail
  <1>4. ~Has(<<>>, "compare")
    <2>1. Len(<<>>) = 0
      OBVIOUS
    <2> QED BY <2>1 DEF Has
  <1>5. Head(r.todo) = "commit" => ~Has(r.todo, "compare")
    BY <1>3, <1>4
  <1> QED BY <1>2, <1>3, <1>5 DEF Upcoming, Follows

\* A step that is no read leaves nothing read that is still to be used.
LEMMA HonestAfter ==
    ASSUME IInv, Honesty, NEW r, r = proc[Main], r.todo # <<>>, Head(r.todo) \notin Reads,
           NEW s, s.todo = Tail(r.todo), s.at = "run", s.src = r.src,
           s.src = None => s.got = Embedded /\ s.content = Embedded,
           \/ Sourced(s.old)
           \/ s.old = r.old /\ Head(r.todo) # "compare" /\ Unsettled(r)
           \/ Unsettled(s)
    PROVE  Honest(s)
  <1>1. /\ Paired(s.todo)
        /\ ~Upcoming(s, {"load"}) /\ ~Upcoming(s, {"compare", "draft"})
        /\ Head(r.todo) # "compare" /\ Has(r.todo, "compare") => Has(s.todo, "compare")
    BY Ahead DEF Reads
  <1>2. ~Upcoming(s, {"load", "compare", "draft"}) /\ ~Upcoming(s, {"load", "compare"})
    BY <1>1 DEF Upcoming
  <1>3. Faithful(s) /\ InTree(s)
    BY <1>1, <1>2 DEF Faithful, InTree
  <1>4. s.old = r.old /\ Head(r.todo) # "compare" /\ Unsettled(r) => Unsettled(s)
    BY <1>1, <1>2, <1>3 DEF Unsettled
  <1> QED BY <1>1, <1>3, <1>4 DEF Honest

\* A command that has read a definition.
LEMMA HonestFinds ==
    ASSUME IInv, Honesty, NEW r, r = proc[Main], r.at \notin {"idle", "done"},
           NEW s, Finds(r, s)
    PROVE  Honest(s)
  <1>0. Sound(Main, r) /\ tree \in Trees /\ Honest(r) /\ Reading(r)
    BY DEF IInv, AllSound, Procs, TypeOK, Honesty
  <1>t. Trees \subseteq Nat /\ tree \in Nat
    BY <1>0, Names DEF Trees
  <1>1. /\ s.src = r.src /\ s.old = r.old /\ s.at = "run"
        /\ r.todo # <<>> /\ s.todo = Tail(r.todo)
    BY DEF Finds
  <1>2. PICK d : /\ Found(r, d)
                 /\ \/ Head(r.todo) = "get" /\ s.got = d /\ s.content = r.content
                    \/ Head(r.todo) = "load" /\ s.content = d /\ s.got = r.got /\ Granted(r.src)
    BY DEF Finds
  <1>3. /\ Paired(s.todo)
        /\ Upcoming(s, {"load"}) => Head(r.todo) = "get"
        /\ Upcoming(s, {"compare", "draft"}) => Head(r.todo) = "load"
        /\ Head(r.todo) # "compare" /\ Has(r.todo, "compare") => Has(s.todo, "compare")
    BY <1>1, Ahead
  <1>4. /\ r.src = None => d = Embedded
        /\ r.src # None /\ ~IsGit(r.src) => d = tree
        /\ Intact(r) /\ IsGit(r.src) => d = r.src.ref
        /\ IsGit(r.src) => r.at = "read"
    BY <1>0, <1>2 DEF Found, Sound, Intact, LoadServiceDefinition, IsGit
  <1>5. /\ IsGit(r.src) /\ ~Moved => d = r.src.ref /\ Faithful(r)
        /\ IsGit(r.src) /\ ~Sourced(r.old) => d = r.src.ref /\ Moved /\ Faithful(r)
    BY <1>0, <1>4 DEF Reading, Honest, Unsettled
  <1>6. s.src = None => s.got = Embedded /\ s.content = Embedded
    BY <1>0, <1>1, <1>2, <1>4 DEF Honest
  <1>7. ASSUME d = r.src.ref, Faithful(r) PROVE Faithful(s)
    <2>1. CASE Head(r.todo) = "get" /\ s.got = d
      BY <1>1, <1>3, <1>7, <2>1 DEF Faithful, Upcoming
    <2>2. CASE Head(r.todo) = "load" /\ s.content = d /\ s.got = r.got
      <3>1. r.got = r.src.ref
        BY <1>1, <1>7, <2>2 DEF Faithful, Upcoming
      <3> QED BY <1>1, <1>7, <2>2, <3>1 DEF Faithful
    <2> QED BY <1>2, <2>1, <2>2
  <1>8. ASSUME r.src # None, ~IsGit(r.src) PROVE InTree(s)
    <2>1. d = tree /\ tree <= tree
      BY <1>4, <1>8, <1>t
    <2>2. CASE Head(r.todo) = "get" /\ s.got = d
      <3>1. ~Upcoming(s, {"compare", "draft"})
        BY <1>3, <2>2
      <3> QED BY <1>0, <2>1, <2>2, <3>1 DEF InTree
    <2>3. CASE Head(r.todo) = "load" /\ s.content = d /\ s.got = r.got
      <3>1. r.got \in Trees /\ r.got <= tree
        BY <1>0, <1>1, <1>8, <2>3 DEF Honest, InTree, Upcoming
      <3> QED BY <1>0, <2>1, <2>3, <3>1 DEF InTree
    <2> QED BY <1>2, <2>2, <2>3
  <1>9. ASSUME ~Sourced(r.old) PROVE Unsettled(s)
    <2>1. Unsettled(r) /\ Head(r.todo) # "compare"
      BY <1>0, <1>2, <1>9 DEF Honest
    <2>2. Has(s.todo, "compare")
      BY <1>3, <2>1 DEF Unsettled
    <2>3. IsGit(r.src) => Moved /\ Faithful(s)
      BY <1>5, <1>7, <1>9
    <2>4. ASSUME ~IsGit(r.src), Upcoming(s, {"load", "compare"}) PROVE r.old.catalog <= s.got
      <3>1. r.old.catalog <= tree /\ r.src # None
            /\ (Upcoming(r, {"load", "compare"}) => r.old.catalog <= r.got)
        BY <2>1, <2>4 DEF Unsettled
      <3>2. CASE Head(r.todo) = "get" /\ s.got = d
        BY <1>4, <2>4, <3>1, <3>2
      <3>3. CASE Head(r.todo) = "load" /\ s.got = r.got
        BY <1>1, <3>1, <3>3 DEF Upcoming
      <3> QED BY <1>2, <3>2, <3>3
    <2> QED BY <1>1, <2>1, <2>2, <2>3, <2>4 DEF Unsettled
  <1>10. Upcoming(s, {"compare", "draft"}) => Granted(s.src)
    BY <1>1, <1>2, <1>3
  <1>11. IsGit(s.src) /\ ~Moved => Faithful(s)
    BY <1>1, <1>5, <1>7
  <1>12. Sourced(s.old) \/ Unsettled(s)
    BY <1>1, <1>9
  <1> QED BY <1>1, <1>3, <1>6, <1>8, <1>10, <1>11, <1>12 DEF Honest

\* A draft is of one state of the source, or will be refused.
LEMMA HonestDrafts ==
    ASSUME IInv, Honesty, NEW r, r = proc[Main], r.at \notin {"idle", "done"}, r.todo # <<>>,
           NEW s, Drafted(r, s), s.todo = Tail(r.todo)
    PROVE  Sourced(s.old) \/ Unsettled(s)
  <1>0. Honest(r) /\ Upcoming(r, {"compare", "draft"})
        /\ Upcoming(r, {"load", "compare", "draft"})
    BY DEF Honesty, Drafted, Upcoming
  <1>1. /\ s.old.from = r.got /\ s.old.catalog = r.content /\ s.old.source = r.src
        /\ s.src = r.src
    BY DEF Drafted, Forgotten, GenerateLockFile
  <1>2. /\ Has(s.todo, "compare")
        /\ ~Upcoming(s, {"load"}) /\ ~Upcoming(s, {"compare", "draft"})
    BY Ahead DEF Drafted
  <1>3. ~Upcoming(s, {"load", "compare", "draft"}) /\ ~Upcoming(s, {"load", "compare"})
    BY <1>2 DEF Upcoming
  <1>4. Faithful(s) /\ Granted(r.src)
    BY <1>0, <1>2, <1>3 DEF Faithful, Honest
  <1>5. CASE r.src = None
    BY <1>0, <1>1, <1>5 DEF Honest, Sourced, IsGit
  <1>6. CASE IsGit(r.src) /\ ~Moved
    <2>1. r.got = r.src.ref /\ r.content = r.src.ref
      BY <1>0, <1>6 DEF Honest, Faithful
    <2> QED BY <1>1, <1>4, <1>6, <2>1 DEF Sourced, Granted, IsGit
  <1>7. CASE IsGit(r.src) /\ Moved
    BY <1>1, <1>2, <1>4, <1>7 DEF Unsettled, IsGit
  <1>8. CASE r.src # None /\ ~IsGit(r.src)
    <2>1. /\ r.got \in Trees /\ r.content \in Trees /\ r.got <= r.content /\ r.content <= tree
      BY <1>0, <1>8 DEF Honest, InTree
    <2> QED BY <1>1, <1>2, <1>3, <1>4, <1>8, <2>1 DEF Unsettled
  <1> QED BY <1>5, <1>6, <1>7, <1>8

\* What passes the comparison is of one state of the source.
LEMMA HonestCompares ==
    ASSUME IInv, Honesty, NEW r, r = proc[Main], r.at \notin {"idle", "done"}, r.todo # <<>>,
           NEW s, Compared(r, s)
    PROVE  Sourced(r.old)
  <1>0. Honest(r) /\ Upcoming(r, {"compare", "draft"}) /\ Upcoming(r, {"load", "compare"})
        /\ Upcoming(r, {"load", "compare", "draft"})
    BY DEF Honesty, Compared, Upcoming
  <1>1. /\ r.old.from = r.got /\ r.old.catalog = r.content /\ r.old.source = r.src
    BY DEF Compared, GenerateLockFile
  <1>2. ASSUME Unsettled(r) PROVE Sourced(r.old)
    <2>1. r.src # None /\ Granted(r.src)
      BY <1>2 DEF Unsettled
    <2>2. CASE IsGit(r.src)
      <3>1. r.got = r.src.ref /\ r.content = r.src.ref
        BY <1>0, <1>2, <2>2 DEF Unsettled, Faithful
      <3> QED BY <1>1, <2>1, <3>1 DEF Sourced, Granted
    <2>3. CASE ~IsGit(r.src)
      <3>1. /\ r.old.from \in Trees /\ r.old.catalog \in Trees
            /\ r.old.from <= r.old.catalog /\ r.old.catalog <= r.got
        BY <1>0, <1>2, <2>3 DEF Unsettled
      <3>2. Trees \subseteq Nat
        BY Names DEF Trees
      <3>3. r.old.from = r.old.catalog
        <4>1. ASSUME NEW a \in Nat, NEW b \in Nat, a <= b, b <= a PROVE a = b
          BY <4>1
        <4>2. r.old.from \in Nat /\ r.old.catalog \in Nat /\ r.old.catalog <= r.old.from
          BY <1>1, <3>1, <3>2
        <4> QED BY <3>1, <4>1, <4>2
      <3> QED BY <1>1, <2>1, <2>3, <3>3 DEF Sourced, Granted
    <2> QED BY <2>2, <2>3
  <1> QED BY <1>0, <1>2 DEF Honest

\* A command that is at rest.
LEMMA HonestResting ==
    ASSUME NEW s, s = Resting("idle")
    PROVE  Honest(s) /\ Reading(s)
  <1>1. s.todo = <<>> /\ s.at = "idle" /\ s.got = Embedded /\ s.content = Embedded /\ s.src = None
    BY DEF Resting
  <1>2. Paired(<<>>)
    <2>1. Len(<<>>) = 0
      OBVIOUS
    <2>2. 2..0 = {}
      OBVIOUS
    <2> QED BY <2>1, <2>2 DEF Paired
  <1> QED BY <1>1, <1>2 DEF Honest, Reading, Upcoming, IsGit

\* The command itself.
LEMMA MainHonest ==
    ASSUME IInv, Trusted, Honesty, Acts(Main)
    PROVE  Honesty'
  <1> DEFINE r == proc[Main]
  <1> DEFINE s == proc'[Main]
  <1>0. /\ Main \in Procs /\ proc \in [Procs -> Processes] /\ Main \notin Others
        /\ Sound(Main, r) /\ Sourced(lock) /\ Honest(r) /\ Reading(r)
    BY Names DEF Procs, IInv, TypeOK, AllSound, Honesty
  <1>1. PICK n : Turns(Main, n)
    BY <1>0, ActsTurn DEF Trusted
  <1>2. \A q \in Others : proc'[q] = proc[q]
    BY <1>0, <1>1 DEF Turns, Procs
  <1>3. Moved' <=> Moved
    BY <1>2 DEF Moved, Pending
  <1>4. tree' = tree
    <2>1. SourceStep(Main) => tree' = tree
      BY <1>0, SourceKeeps DEF project
    <2> QED BY <2>1 DEF Acts, Step, newProjectContext, Finish, Crash, LockStep, DraftLock,
                  ResolveFails, DiffLockFiles, AlterConfig, writeResolvedFiles,
                  GenerateProjectTransactional, ValidateGeneratedFiles, Up, project
  <1>5. ASSUME Honest(s), s.at \notin {"mark", "read"}, Sourced(lock)' PROVE Honesty'
    <2>1. Honest(proc[Main])'
      BY <1>3, <1>4, <1>5
      DEF Honest, InTree, Faithful, Unsettled, Upcoming, Sourced
    <2>2. Reading(proc[Main])'
      BY <1>5 DEF Reading
    <2> QED BY <1>5, <2>1, <2>2 DEF Honesty
  <1>6. UNCHANGED written => Sourced(lock)'
    BY <1>0 DEF Sourced, written
  <1>7. ASSUME s = Resting("idle"), UNCHANGED written PROVE Honesty'
    <2>1. s.at = "idle"
      BY <1>7 DEF Resting
    <2> QED BY <1>5, <1>6, <1>7, <2>1, HonestResting
  <1>8. ASSUME NEW c \in Commands, NEW l \in BOOLEAN, newProjectContext(Main, c, l)
        PROVE  Honesty'
    <2>1. /\ proc' = [proc EXCEPT ![Main] =
                        [@ EXCEPT !.at = "run", !.todo = Script[c], !.src = source,
                                  !.cfg = config, !.old = lock, !.lax = l, !.fresh = marked]]
          /\ UNCHANGED written /\ r.at = "idle"
      BY <1>8 DEF newProjectContext, At
    <2>2. /\ s.at = "run" /\ s.old = lock /\ s.got = r.got /\ s.content = r.content
          /\ s.todo = Script[c]
      BY <1>0, <2>1 DEF Processes
    <2>3. s.got = Embedded /\ s.content = Embedded
      BY <1>0, <2>1, <2>2 DEF Honest
    <2>4. /\ Paired(s.todo) /\ ~Upcoming(s, {"load", "compare", "draft"})
          /\ ~Upcoming(s, {"compare", "draft"})
      BY <2>2, PairedScripts DEF Begun, Upcoming
    <2>5. Faithful(s) /\ InTree(s)
      BY <2>4 DEF Faithful, InTree
    <2>6. Honest(s)
      BY <1>0, <2>2, <2>3, <2>4, <2>5 DEF Honest
    <2> QED BY <1>5, <1>6, <2>1, <2>2, <2>6
  <1>9. CASE Finish(Main) \/ Crash(Main)
    <2>1. s = Resting("idle") /\ UNCHANGED written
      BY <1>0, <1>9 DEF Finish, Crash, Returns
    <2> QED BY <1>7, <2>1
  <1>10. CASE SourceStep(Main)
    <2>1. UNCHANGED written
      BY <1>0, <1>10, SourceKeeps
    <2>2. CASE s = Resting("idle")
      BY <1>7, <2>1, <2>2
    <2>3. CASE s # Resting("idle")
      <3>1. r.at \notin {"idle", "done"} /\ (Midway(r, s) \/ Finds(r, s) \/ Passed(r, s))
        BY <1>10, <2>3, MainSource
      <3>2. CASE Midway(r, s)
        <4>1. Honest(proc[Main])'
          BY <1>0, <1>3, <1>4, <3>1, <3>2
          DEF Midway, Same, Honest, InTree, Faithful, Unsettled, Upcoming, Sourced
        <4>2. ASSUME s.at \in {"mark", "read"}
              PROVE  \/ active' # None /\ active'.clean /\ active'.ref = s.src.ref
                     \/ Moved' /\ Sourced(s.old)
          <5>1. CASE r.at = "mark" /\ active' = active
            <6>1. Intact(r) \/ (Moved /\ Sourced(r.old))
              BY <1>0, <5>1 DEF Reading
            <6>2. s.src = r.src /\ s.old = r.old
              BY <3>2 DEF Midway, Same
            <6> QED BY <1>3, <5>1, <6>1, <6>2 DEF Intact
          <5> QED BY <3>2, <4>2, <5>1 DEF Midway
        <4>3. Reading(proc[Main])'
          BY <4>2 DEF Reading, Intact, Sourced
        <4> QED BY <1>6, <2>1, <4>1, <4>3 DEF Honesty
      <3>3. CASE Finds(r, s)
        <4>1. Honest(s)
          BY <3>1, <3>3, HonestFinds
        <4>2. s.at = "run"
          BY <3>3 DEF Finds
        <4> QED BY <1>5, <1>6, <2>1, <4>1, <4>2
      <3>4. CASE Passed(r, s)
        <4>1. Honest(s)
          <5>1. /\ r.todo # <<>> /\ Head(r.todo) \notin Reads /\ s.todo = Tail(r.todo)
                /\ s.at = "run" /\ s.src = r.src /\ s.old = r.old
                /\ s.got = r.got /\ s.content = r.content
            BY <3>4 DEF Passed, Same
          <5>2. Head(r.todo) # "compare"
            BY <3>4 DEF Passed
          <5>3. Sourced(r.old) \/ Unsettled(r)
            BY <1>0, <3>1 DEF Honest
          <5> QED BY <1>0, <5>1, <5>2, <5>3, HonestAfter DEF Honest
        <4>2. s.at = "run"
          BY <3>4 DEF Passed
        <4> QED BY <1>5, <1>6, <2>1, <4>1, <4>2
      <3> QED BY <3>1, <3>2, <3>3, <3>4
    <2> QED BY <2>2, <2>3
  <1>11. CASE LockStep(Main)
    <2>1. CASE s = Resting("idle")
      <3>1. ~GenerateProjectTransactional(Main) /\ ~Up(Main)
        <4>1. ASSUME Goes(Main, r) PROVE FALSE
          <5>1. s.at = "run"
            BY <1>0, <4>1, Gone DEF IInv
          <5> QED BY <2>1, <5>1 DEF Resting
        <4> QED BY <4>1 DEF GenerateProjectTransactional, Up
      <3>2. UNCHANGED written
        BY <1>11, <3>1 DEF LockStep, DraftLock, ResolveFails, DiffLockFiles, AlterConfig,
                  writeResolvedFiles, ValidateGeneratedFiles
      <3> QED BY <1>7, <2>1, <3>2
    <2>2. CASE s # Resting("idle")
      <3>1. /\ r.todo # <<>> /\ r.at = "run" /\ s.todo = Tail(r.todo) /\ s.at = "run"
            /\ \/ Drafted(r, s)
               \/ Compared(r, s)
               \/ Written(r, s)
               \/ Committed(r, s)
               \/ Started(r, s)
               \/ Passed(r, s) /\ UNCHANGED written
        BY <1>11, <2>2, MainLock
      <3>2. Sourced(r.old) \/ Unsettled(r)
        BY <1>0, <3>1 DEF Honest
      <3>3. CASE Drafted(r, s)
        <4>1. Sourced(s.old) \/ Unsettled(s)
          BY <3>1, <3>3, HonestDrafts
        <4>2. /\ Head(r.todo) \notin Reads /\ s.src = r.src /\ s.got = Embedded
              /\ s.content = Embedded /\ UNCHANGED written
          BY <3>3 DEF Drafted, Forgotten, Reads
        <4>3. Honest(s)
          BY <3>1, <4>1, <4>2, HonestAfter
        <4> QED BY <1>5, <1>6, <3>1, <4>2, <4>3
      <3>4. CASE Compared(r, s)
        <4>1. Sourced(s.old)
          BY <3>1, <3>4, HonestCompares DEF Compared
        <4>2. /\ Head(r.todo) \notin Reads /\ s.src = r.src /\ s.got = Embedded
              /\ s.content = Embedded /\ UNCHANGED written
          BY <3>4 DEF Compared, Forgotten, Reads
        <4>3. Honest(s)
          BY <3>1, <4>1, <4>2, HonestAfter
        <4> QED BY <1>5, <1>6, <3>1, <4>2, <4>3
      <3>5. CASE Written(r, s)
        <4>1. /\ Head(r.todo) \notin Reads /\ Head(r.todo) # "compare" /\ s.src = r.src
              /\ s.got = Embedded /\ s.content = Embedded /\ s.old = r.old /\ UNCHANGED written
          BY <3>5 DEF Written, Forgotten, Reads
        <4>2. Honest(s)
          BY <3>1, <3>2, <4>1, HonestAfter
        <4> QED BY <1>5, <1>6, <3>1, <4>1, <4>2
      <3>6. CASE Committed(r, s)
        <4>1. /\ Head(r.todo) \notin Reads /\ Head(r.todo) = "commit" /\ s.src = r.src
              /\ s.got = r.got /\ s.content = r.content /\ s.old = r.old /\ lock' = r.old
          BY <3>6 DEF Committed, Same, Reads
        <4>2. Sourced(r.old)
          <5>1. ~Has(r.todo, "compare")
            BY <3>1, <4>1, Ahead
          <5> QED BY <3>2, <5>1 DEF Unsettled
        <4>3. Honest(s)
          BY <1>0, <3>1, <4>1, <4>2, HonestAfter DEF Honest
        <4>4. Sourced(lock)'
          BY <4>1, <4>2 DEF Sourced
        <4> QED BY <1>5, <3>1, <4>3, <4>4
      <3>7. CASE Started(r, s) \/ (Passed(r, s) /\ UNCHANGED written)
        <4>1. Passed(r, s) /\ lock' = lock
          BY <3>7 DEF Started, written
        <4>2. /\ Head(r.todo) \notin Reads /\ s.src = r.src /\ s.old = r.old
              /\ s.got = r.got /\ s.content = r.content
          BY <4>1 DEF Passed, Same
        <4>3. Head(r.todo) # "compare"
          BY <4>1 DEF Passed
        <4>4. Honest(s)
          BY <1>0, <3>1, <3>2, <4>2, <4>3, HonestAfter DEF Honest
        <4>5. Sourced(lock)'
          BY <1>0, <4>1 DEF Sourced
        <4> QED BY <1>5, <3>1, <4>4, <4>5
      <3> QED BY <3>1, <3>3, <3>4, <3>5, <3>6, <3>7
    <2> QED BY <2>1, <2>2
  <1> QED BY <1>8, <1>9, <1>10, <1>11 DEF Acts, Step

\* Each step keeps the lock what its source says.
LEMMA HonestStays ==
    ASSUME IInv, Trusted, Honesty, OneRefresh, [Next]_vars
    PROVE  Honesty'
  <1> DEFINE r == proc[Main]
  <1>1. ASSUME NEW p \in Procs, Acts(p) PROVE Honesty'
    BY <1>1, OthersHonest, MainHonest DEF Procs
  <1>2. CASE Outside
    <2>1. UNCHANGED proc /\ lock' = lock /\ tree' \in {tree, tree + 1}
      BY <1>2 DEF Outside, runSourceAdd, EditConfig, Upgrade, TagMoves, EditTree, EditCheckout,
                  EditFiles, Expire, written, project
    <2>2. active' = active \/ r.at \in {"idle", "done"}
      BY <1>2 DEF Outside, runSourceAdd, EditConfig, Upgrade, TagMoves, EditTree, EditCheckout,
                  EditFiles, Expire, cache, Quiet, Procs
    <2>3. tree \in Nat /\ tree' \in Nat /\ tree <= tree' /\ Trees \subseteq Nat
      BY <2>1, Names DEF IInv, TypeOK, Trees
    <2>4. Moved' <=> Moved
      BY <2>1 DEF Moved, Pending
    <2>5. \A x \in Trees : x <= tree => x <= tree'
      BY <2>3
    <2>6. Honest(proc[Main])'
      <3>1. InTree(r) => InTree(proc[Main])'
        BY <2>1, <2>5 DEF InTree, Upcoming
      <3>2. Unsettled(r) => Unsettled(proc[Main])'
        BY <2>1, <2>4, <2>5 DEF Unsettled, Faithful, Upcoming, Granted, IsGit
      <3> QED BY <2>1, <2>4, <3>1, <3>2
          DEF Honesty, Honest, Faithful, Upcoming, Sourced, Granted, IsGit
    <2>7. Reading(proc[Main])'
      BY <2>1, <2>2, <2>4 DEF Honesty, Reading, Intact, Sourced
    <2>8. Sourced(lock)'
      BY <2>1 DEF Honesty, Sourced
    <2> QED BY <2>6, <2>7, <2>8 DEF Honesty
  <1>3. CASE UNCHANGED vars
    <2>1. UNCHANGED <<proc, lock, tree, active>>
      BY <1>3 DEF vars, written, project, cache
    <2>2. Moved' <=> Moved
      BY <2>1 DEF Moved, Pending
    <2> QED BY <2>1, <2>2 DEF Honesty, Honest, Reading, Sourced, InTree, Faithful, Unsettled,
                  Upcoming, Intact
  <1> QED BY <1>1, <1>2, <1>3 DEF Next, Acts

\* A project that has just been made.
LEMMA HonestBegins == Init => Honesty
  <1> SUFFICES ASSUME Init PROVE Honesty
    OBVIOUS
  <1>1. proc[Main] = Resting("idle")
    BY DEF Init, Procs
  <1>2. Sourced(lock)
    BY DEF Init, Sourced, IsGit
  <1> QED BY <1>1, <1>2, HonestResting DEF Honesty

\* The lock on disk was made of one state of its source, whose grant was given,
\* and of the commit it names: a directory that changes while it is read, or a
\* checkout that a refresh beside the command moves away, ends in a refusal, for
\* any sources, definitions and edits and with one such refresh.
THEOREM LockHasOneSource == OneRefresh /\ Spec => []LockIsOfItsSource
  <1>1. IInv /\ Trusted /\ OneRefresh /\ [Next]_vars => Trusted'
    BY TrustStays
  <1>2. IInv /\ Trusted /\ Honesty /\ OneRefresh /\ [Next]_vars => Honesty'
    BY HonestStays
  <1>3. Honesty => LockIsOfItsSource
    BY DEF Honesty, Sourced, LockIsOfItsSource
  <1>4. OneRefresh => OneRefresh'
    BY DEF OneRefresh
  <1> QED BY <1>1, <1>2, <1>3, <1>4, TrustBegins, HonestBegins, Inductive, PTL DEF Spec
=============================================================================
