------------------------- MODULE QueryBuilderProofs -------------------------
(***************************************************************************)
(* For any columns, values and filters, nested however deep, what the      *)
(* query builder makes of plain filters selects the rows they mean, and    *)
(* what it makes of any filters has its type.                              *)
(*                                                                         *)
(* Conditions, what of them holds and what is built of them are recursive  *)
(* functions of the depth: of each the equation is proved that defines it  *)
(* (ConditionDefined, HoldingDefined, HandleKeysDefined), and Induction,   *)
(* which is that every non-empty set of numbers has a least one, takes     *)
(* what holds of a depth to the next.  Along a sequence the same is done   *)
(* with the number of items built so far (ChainFits).                      *)
(*                                                                         *)
(* What is proved of every thing built is Fits: it was built of the items  *)
(* given, its values were counted on from n, and in every list that has    *)
(* those values after the first n it says what the items say.  So the      *)
(* values of other models, of other clauses and the text searched for can  *)
(* come before and after them.                                             *)
(***************************************************************************)
EXTENDS QueryBuilder, FiniteSetTheorems, FunctionTheorems, WellFoundedInduction, TLAPS

-----------------------------------------------------------------------------
(* Induction, and the equations of the recursive definitions.                *)

\* What is true of 0, and of n + 1 when it is of n, is true of every natural number.
LEMMA Induction ==
  ASSUME NEW S \in SUBSET Nat, 0 \in S, \A n \in S : n + 1 \in S
  PROVE  S = Nat
<1> SUFFICES ASSUME Nat \ S # {} PROVE FALSE
  OBVIOUS
<1>1. PICK n \in Nat \ S : \A m \in Nat \ S : ~(<<m, n>> \in OpToRel(<, Nat))
  BY WFMin, NatLessThanWellFounded
<1>2. n # 0 /\ n - 1 \in Nat
  OBVIOUS
<1>3. n - 1 \in S
  <2> SUFFICES ASSUME n - 1 \notin S PROVE FALSE
    OBVIOUS
  <2>1. ~(<<n - 1, n>> \in OpToRel(<, Nat))
    BY <1>1, <1>2
  <2> QED BY <1>2, <2>1 DEF OpToRel
<1> QED BY <1>2, <1>3

\* One thing after the other is built from what is built so far.
StepsOf(done, build, items, n) ==
  /\ Chain(build, items, n) = done[Len(items)]
  /\ done[0] = Nothing(n)
  /\ \A k \in 1 .. Len(items) :
       done[k] = Then(done[k - 1], build[items[k]][done[k - 1].n])

LEMMA ChainDefined ==
  ASSUME NEW build, NEW items, Len(items) \in Nat, NEW n
  PROVE  \E done : StepsOf(done, build, items, n)
<1> DEFINE Next(so, k) == Then(so, build[items[k]][so.n])
           Builds(g, m) == g = [k \in 0 .. m |->
                                  IF k = 0 THEN Nothing(n) ELSE Next(g[k - 1], k)]
           S == {m \in Nat : \E g : Builds(g, m)}
<1>1. 0 \in S
  <2> DEFINE g == [k \in 0 .. 0 |-> Nothing(n)]
  <2>1. Builds(g, 0)
    OBVIOUS
  <2> QED BY <2>1
<1>2. ASSUME NEW m \in S PROVE m + 1 \in S
  <2>1. PICK g : Builds(g, m)
    OBVIOUS
  <2> DEFINE h == [k \in 0 .. m + 1 |-> IF k <= m THEN g[k] ELSE Next(g[m], m + 1)]
  <2> HIDE DEF Next
  <2>2. ASSUME NEW k \in 0 .. m + 1
        PROVE  h[k] = IF k = 0 THEN Nothing(n) ELSE Next(h[k - 1], k)
    <3>1. CASE k = 0
      BY <2>1, <3>1
    <3>2. CASE k \in 1 .. m
      <4>1. g[k] = Next(g[k - 1], k)
        BY <2>1, <3>2
      <4> QED BY <3>2, <4>1
    <3>3. CASE k = m + 1
      BY <3>3
    <3> QED BY <3>1, <3>2, <3>3
  <2>3. Builds(h, m + 1)
    BY <2>2
  <2> HIDE DEF h, Builds
  <2> QED BY <2>3
<1>3. S = Nat
  <2> HIDE DEF S
  <2>1. S \in SUBSET Nat
    BY DEF S
  <2> QED BY <1>1, <1>2, <2>1, Induction
<1>4. \E g : Builds(g, Len(items))
  BY <1>3
<1> DEFINE done == CHOOSE g : Builds(g, Len(items))
<1>5. Builds(done, Len(items))
  <2> HIDE DEF Builds
  <2> QED BY <1>4
<1>6. Chain(build, items, n) = done[Len(items)]
  BY DEF Chain
<1>7. /\ done[0] = Nothing(n)
      /\ \A k \in 1 .. Len(items) : done[k] = Next(done[k - 1], k)
  <2> HIDE DEF done, Next
  <2> QED BY <1>5
<1> HIDE DEF done
<1>8. StepsOf(done, build, items, n)
  BY <1>6, <1>7 DEF StepsOf
<1> QED BY <1>8

-----------------------------------------------------------------------------
(* Sequences.                                                                *)

\* The elements of a sequence are what it is a sequence of.
LEMMA ElementIs ==
  ASSUME NEW T, NEW s \in Seq(T)
  PROVE  Len(s) \in Nat /\ DOMAIN s = 1 .. Len(s) /\ \A i \in 1 .. Len(s) : s[i] \in T
OBVIOUS

\* One sequence after another.
Joined(r, p, q) ==
  /\ Len(p) \in Nat /\ Len(q) \in Nat /\ Len(r) = Len(p) + Len(q)
  /\ \A i \in 1 .. Len(p) : r[i] = p[i]
  /\ \A i \in 1 .. Len(q) : r[Len(p) + i] = q[i]

\* The elements of one sequence come before those of the other.
LEMMA ConcatIs ==
  ASSUME NEW T, NEW p \in Seq(T), NEW q \in Seq(T)
  PROVE  p \o q \in Seq(T) /\ Joined(p \o q, p, q)
<1>1. Len(p) \in Nat /\ Len(q) \in Nat
  OBVIOUS
<1>2. p \o q \in Seq(T) /\ Len(p \o q) = Len(p) + Len(q)
  OBVIOUS
<1>3. \A i \in 1 .. Len(p) : (p \o q)[i] = p[i]
  OBVIOUS
<1>4. \A i \in 1 .. Len(q) : (p \o q)[Len(p) + i] = q[i]
  OBVIOUS
<1> QED BY <1>1, <1>2, <1>3, <1>4 DEF Joined

\* A sequence whose elements are all of another set is a sequence of that set.
LEMMA ElementsAre ==
  ASSUME NEW T, NEW s \in Seq(T), NEW S
  PROVE  s \in Seq(S) <=> \A i \in 1 .. Len(s) : s[i] \in S
OBVIOUS

\* Only the empty sequence has no elements.
LEMMA NotEmpty ==
  ASSUME NEW T, NEW s \in Seq(T)
  PROVE  s = <<>> <=> Len(s) = 0
OBVIOUS

\* Sequences of sequences are among those of a larger set.
LEMMA SequencesGrow ==
  ASSUME NEW A, NEW B, A \subseteq B, NEW bs \in Seq(Seq(A))
  PROVE  bs \in Seq(Seq(B))
<1>1. ASSUME NEW i \in 1 .. Len(bs) PROVE bs[i] \in Seq(B)
  <2>1. bs[i] \in Seq(A)
    BY ElementIs
  <2> QED BY <2>1, ElementIs, ElementsAre
<1> QED BY <1>1, ElementsAre

\* A function on the first numbers is a sequence.
LEMMA FunctionIsSequence ==
  ASSUME NEW T, NEW L \in Nat, NEW f \in [1 .. L -> T]
  PROVE  f \in Seq(T) /\ Len(f) = L
OBVIOUS

\* The "and" and "or" of clauses made of some conditions.
Nodes(conditions, banned) ==
  [is: {"and", "or"}, branches: Seq(Seq(conditions) \ banned) \ banned]

\* The conditions of each depth are those of the depth before with one level more.
LEMMA ConditionDefined ==
  ASSUME NEW leaves, NEW banned
  PROVE  /\ Condition(leaves, banned)[0] = {}
         /\ \A d \in Nat :
              Condition(leaves, banned)[d + 1] =
                leaves \union Nodes(Condition(leaves, banned)[d], banned)
<1> DEFINE Next(c) ==
             leaves \union [is: {"and", "or"}, branches: Seq(Seq(c) \ banned) \ banned]
           Builds(g, m) == g = [d \in 0 .. m |-> IF d = 0 THEN {} ELSE Next(g[d - 1])]
           S == {m \in Nat : \E g : Builds(g, m)}
<1> HIDE DEF Next
<1>0. ASSUME NEW g, NEW m \in Nat, Builds(g, m), NEW d \in 0 .. m
      PROVE  g[d] = IF d = 0 THEN {} ELSE Next(g[d - 1])
  BY <1>0
<1>1. 0 \in S
  <2> DEFINE g == [k \in 0 .. 0 |-> {}]
  <2>1. Builds(g, 0)
    OBVIOUS
  <2> QED BY <2>1
<1>2. ASSUME NEW m \in S PROVE m + 1 \in S
  <2>1. PICK g : Builds(g, m)
    OBVIOUS
  <2> DEFINE h == [d \in 0 .. m + 1 |-> IF d <= m THEN g[d] ELSE Next(g[m])]
  <2>2. ASSUME NEW d \in 0 .. m + 1
        PROVE  h[d] = IF d = 0 THEN {} ELSE Next(h[d - 1])
    <3>1. CASE d = 0
      BY <2>1, <3>1
    <3>2. CASE d \in 1 .. m
      <4>1. g[d] = Next(g[d - 1])
        BY <1>0, <2>1, <3>2
      <4> QED BY <3>2, <4>1
    <3>3. CASE d = m + 1
      BY <3>3
    <3> QED BY <3>1, <3>2, <3>3
  <2>3. Builds(h, m + 1)
    BY <2>2
  <2> HIDE DEF h, Builds
  <2> QED BY <2>3
<1>3. S = Nat
  <2> HIDE DEF S
  <2>1. S \in SUBSET Nat
    BY DEF S
  <2> QED BY <1>1, <1>2, <2>1, Induction
<1>4. ASSUME NEW m \in Nat, NEW g, Builds(g, m), NEW l \in Nat, NEW h, Builds(h, l)
      PROVE  \A d \in Nat : d <= m /\ d <= l => g[d] = h[d]
  <2> DEFINE T == {d \in Nat : d <= m /\ d <= l => g[d] = h[d]}
  <2>1. 0 \in T
    BY <1>4
  <2> HIDE DEF Builds
  <2>2. ASSUME NEW d \in T PROVE d + 1 \in T
    <3> SUFFICES ASSUME d + 1 <= m, d + 1 <= l PROVE g[d + 1] = h[d + 1]
      OBVIOUS
    <3>1. g[d] = h[d] /\ d \in Nat /\ d + 1 \in 0 .. m /\ d + 1 \in 0 .. l /\ d + 1 - 1 = d
      OBVIOUS
    <3>2. g[d + 1] = Next(g[d]) /\ h[d + 1] = Next(h[d])
      <4>1. g[d + 1] = IF d + 1 = 0 THEN {} ELSE Next(g[d + 1 - 1])
        BY <1>0, <1>4, <3>1
      <4>2. h[d + 1] = IF d + 1 = 0 THEN {} ELSE Next(h[d + 1 - 1])
        BY <1>0, <1>4, <3>1
      <4> HIDE DEF T
      <4> QED BY <3>1, <4>1, <4>2
    <3> HIDE DEF T
    <3> QED BY <3>1, <3>2
  <2>3. T = Nat
    <3> HIDE DEF T
    <3>1. T \in SUBSET Nat
      BY DEF T
    <3> QED BY <2>1, <2>2, <3>1, Induction
  <2> QED BY <2>3
<1> DEFINE G(m) == CHOOSE g : Builds(g, m)
           F == [d \in Nat |-> G(d)[d]]
<1>5. ASSUME NEW m \in Nat PROVE Builds(G(m), m)
  <2>1. \E g : Builds(g, m)
    BY <1>3
  <2> HIDE DEF Builds
  <2> QED BY <2>1
<1>6. ASSUME NEW d \in Nat PROVE F[d] = IF d = 0 THEN {} ELSE Next(F[d - 1])
  <2> HIDE DEF G, Builds
  <2>1. G(d)[d] = IF d = 0 THEN {} ELSE Next(G(d)[d - 1])
    BY <1>0, <1>5
  <2>2. ASSUME d # 0 PROVE G(d)[d - 1] = G(d - 1)[d - 1]
    <3>1. d - 1 \in Nat /\ Builds(G(d), d) /\ Builds(G(d - 1), d - 1)
      BY <1>5, <2>2
    <3> QED BY <1>4, <3>1
  <2> QED BY <2>1, <2>2
<1> DEFINE Is(f) == f = [d \in Nat |-> IF d = 0 THEN {} ELSE Next(f[d - 1])]
<1>7. Is(F)
  <2> HIDE DEF G
  <2> QED BY <1>6
<1>8. Is(Condition(leaves, banned))
  <2>1. \E f : Is(f)
    <3> HIDE DEF Is, F
    <3> QED BY <1>7
  <2>2. Condition(leaves, banned) = CHOOSE f : Is(f)
    BY DEF Condition, Next
  <2> HIDE DEF Is
  <2> QED BY <2>1, <2>2
<1> DEFINE C == Condition(leaves, banned)
<1>9. C[0] = {} /\ \A d \in Nat : C[d + 1] = Next(C[d])
  <2>1. C = [d \in Nat |-> IF d = 0 THEN {} ELSE Next(C[d - 1])]
    BY <1>8
  <2>2. \A d \in Nat : C[d] = IF d = 0 THEN {} ELSE Next(C[d - 1])
    <3> HIDE DEF C
    <3> QED BY <2>1
  <2> HIDE DEF C
  <2> QED BY <2>2
<1> QED BY <1>9 DEF Next, Nodes

\* The conditions of each depth that hold, in the same way.
LEMMA HoldingDefined ==
  ASSUME NEW leaves, NEW true
  PROVE  /\ Holding(leaves, true)[0] = {}
         /\ \A d \in Nat :
              Holding(leaves, true)[d + 1] =
                true
                \union [is: {"and"}, branches: Seq(Seq(Holding(leaves, true)[d]))]
                \union {c \in [is: {"or"}, branches: Seq(Seq(Condition(leaves, {})[d]))] :
                          \E j \in DOMAIN c.branches :
                            c.branches[j] \in Seq(Holding(leaves, true)[d])}
<1> DEFINE Next(h, d) ==
             true
             \union [is: {"and"}, branches: Seq(Seq(h))]
             \union {c \in [is: {"or"}, branches: Seq(Seq(Condition(leaves, {})[d]))] :
                       \E j \in DOMAIN c.branches : c.branches[j] \in Seq(h)}
           Builds(g, m) == g = [d \in 0 .. m |-> IF d = 0 THEN {} ELSE Next(g[d - 1], d - 1)]
           S == {m \in Nat : \E g : Builds(g, m)}
<1> HIDE DEF Next
<1>0. ASSUME NEW g, NEW m \in Nat, Builds(g, m), NEW d \in 0 .. m
      PROVE  g[d] = IF d = 0 THEN {} ELSE Next(g[d - 1], d - 1)
  BY <1>0
<1>1. 0 \in S
  <2> DEFINE g == [k \in 0 .. 0 |-> {}]
  <2>1. Builds(g, 0)
    OBVIOUS
  <2> QED BY <2>1
<1>2. ASSUME NEW m \in S PROVE m + 1 \in S
  <2>1. PICK g : Builds(g, m)
    OBVIOUS
  <2> DEFINE h == [d \in 0 .. m + 1 |-> IF d <= m THEN g[d] ELSE Next(g[m], m)]
  <2>2. ASSUME NEW d \in 0 .. m + 1
        PROVE  h[d] = IF d = 0 THEN {} ELSE Next(h[d - 1], d - 1)
    <3>1. CASE d = 0
      BY <2>1, <3>1
    <3>2. CASE d \in 1 .. m
      <4>1. g[d] = Next(g[d - 1], d - 1)
        BY <1>0, <2>1, <3>2
      <4> QED BY <3>2, <4>1
    <3>3. CASE d = m + 1
      BY <3>3
    <3> QED BY <3>1, <3>2, <3>3
  <2>3. Builds(h, m + 1)
    BY <2>2
  <2> HIDE DEF h, Builds
  <2> QED BY <2>3
<1>3. S = Nat
  <2> HIDE DEF S
  <2>1. S \in SUBSET Nat
    BY DEF S
  <2> QED BY <1>1, <1>2, <2>1, Induction
<1>4. ASSUME NEW m \in Nat, NEW g, Builds(g, m), NEW l \in Nat, NEW h, Builds(h, l)
      PROVE  \A d \in Nat : d <= m /\ d <= l => g[d] = h[d]
  <2> DEFINE T == {d \in Nat : d <= m /\ d <= l => g[d] = h[d]}
  <2>1. 0 \in T
    BY <1>4
  <2> HIDE DEF Builds
  <2>2. ASSUME NEW d \in T PROVE d + 1 \in T
    <3> SUFFICES ASSUME d + 1 <= m, d + 1 <= l PROVE g[d + 1] = h[d + 1]
      OBVIOUS
    <3>1. g[d] = h[d] /\ d \in Nat /\ d + 1 \in 0 .. m /\ d + 1 \in 0 .. l /\ d + 1 - 1 = d
      OBVIOUS
    <3>2. g[d + 1] = Next(g[d], d) /\ h[d + 1] = Next(h[d], d)
      <4>1. g[d + 1] = IF d + 1 = 0 THEN {} ELSE Next(g[d + 1 - 1], d + 1 - 1)
        BY <1>0, <1>4, <3>1
      <4>2. h[d + 1] = IF d + 1 = 0 THEN {} ELSE Next(h[d + 1 - 1], d + 1 - 1)
        BY <1>0, <1>4, <3>1
      <4> HIDE DEF T
      <4> QED BY <3>1, <4>1, <4>2
    <3> HIDE DEF T
    <3> QED BY <3>1, <3>2
  <2>3. T = Nat
    <3> HIDE DEF T
    <3>1. T \in SUBSET Nat
      BY DEF T
    <3> QED BY <2>1, <2>2, <3>1, Induction
  <2> QED BY <2>3
<1> DEFINE G(m) == CHOOSE g : Builds(g, m)
           F == [d \in Nat |-> G(d)[d]]
<1>5. ASSUME NEW m \in Nat PROVE Builds(G(m), m)
  <2>1. \E g : Builds(g, m)
    BY <1>3
  <2> HIDE DEF Builds
  <2> QED BY <2>1
<1>6. ASSUME NEW d \in Nat PROVE F[d] = IF d = 0 THEN {} ELSE Next(F[d - 1], d - 1)
  <2> HIDE DEF G, Builds
  <2>1. G(d)[d] = IF d = 0 THEN {} ELSE Next(G(d)[d - 1], d - 1)
    BY <1>0, <1>5
  <2>2. ASSUME d # 0 PROVE G(d)[d - 1] = G(d - 1)[d - 1]
    <3>1. d - 1 \in Nat /\ Builds(G(d), d) /\ Builds(G(d - 1), d - 1)
      BY <1>5, <2>2
    <3> QED BY <1>4, <3>1
  <2> QED BY <2>1, <2>2
<1> DEFINE Is(f) == f = [d \in Nat |-> IF d = 0 THEN {} ELSE Next(f[d - 1], d - 1)]
<1>7. Is(F)
  <2> HIDE DEF G
  <2> QED BY <1>6
<1>8. Is(Holding(leaves, true))
  <2>1. \E f : Is(f)
    <3> HIDE DEF Is, F
    <3> QED BY <1>7
  <2>2. Holding(leaves, true) = CHOOSE f : Is(f)
    BY DEF Holding, Next
  <2> HIDE DEF Is
  <2> QED BY <2>1, <2>2
<1> DEFINE C == Holding(leaves, true)
<1>9. C[0] = {} /\ \A d \in Nat : C[d + 1] = Next(C[d], d)
  <2>1. C = [d \in Nat |-> IF d = 0 THEN {} ELSE Next(C[d - 1], d - 1)]
    BY <1>8
  <2>2. \A d \in Nat : C[d] = IF d = 0 THEN {} ELSE Next(C[d - 1], d - 1)
    <3> HIDE DEF C
    <3> QED BY <2>1
  <2> HIDE DEF C
  <2> QED BY <2>2
<1> QED BY <1>9 DEF Next

\* What is built of a condition, nested clauses included.
LEMMA HandleKeysDefined ==
  \A d \in Nat : \A entry \in Condition(Entry, {})[d], n \in Nat :
    HandleKeys[d][entry][n] =
      CASE entry.is \in {"and", "or"} ->
             HandleAndOr(HandleKeys[d - 1], entry.is, entry.branches, n)
        [] entry.is \notin {"and", "or"} /\ entry.key \notin Column -> BadRequest(n)
        [] entry.is = "value" /\ entry.key \in Column ->
             HandleValue(entry.key, entry.value, n)
        [] entry.is = "object" /\ entry.key \in Column ->
             HandleObjectValue(entry.key, entry.ops, n)
<1> DEFINE Of(h, entry, n) ==
             CASE entry.is \in {"and", "or"} -> HandleAndOr(h, entry.is, entry.branches, n)
               [] entry.is \notin {"and", "or"} /\ entry.key \notin Column -> BadRequest(n)
               [] entry.is = "value" /\ entry.key \in Column ->
                    HandleValue(entry.key, entry.value, n)
               [] entry.is = "object" /\ entry.key \in Column ->
                    HandleObjectValue(entry.key, entry.ops, n)
           Next(h, d) == [entry \in Condition(Entry, {})[d] |-> [n \in Nat |-> Of(h, entry, n)]]
           Base == Next(0, 0)
           Builds(g, m) == g = [d \in 0 .. m |-> IF d = 0 THEN Base ELSE Next(g[d - 1], d)]
           S == {m \in Nat : \E g : Builds(g, m)}
<1> HIDE DEF Of, Next, Base
<1>0. ASSUME NEW g, NEW m \in Nat, Builds(g, m), NEW d \in 0 .. m
      PROVE  g[d] = IF d = 0 THEN Base ELSE Next(g[d - 1], d)
  BY <1>0
<1>1. 0 \in S
  <2> DEFINE g == [k \in 0 .. 0 |-> Base]
  <2>1. Builds(g, 0)
    OBVIOUS
  <2> QED BY <2>1
<1>2. ASSUME NEW m \in S PROVE m + 1 \in S
  <2>1. PICK g : Builds(g, m)
    OBVIOUS
  <2> DEFINE h == [d \in 0 .. m + 1 |-> IF d <= m THEN g[d] ELSE Next(g[m], m + 1)]
  <2>2. ASSUME NEW d \in 0 .. m + 1
        PROVE  h[d] = IF d = 0 THEN Base ELSE Next(h[d - 1], d)
    <3>1. CASE d = 0
      BY <2>1, <3>1
    <3>2. CASE d \in 1 .. m
      <4>1. g[d] = Next(g[d - 1], d)
        BY <1>0, <2>1, <3>2
      <4> QED BY <3>2, <4>1
    <3>3. CASE d = m + 1
      BY <3>3
    <3> QED BY <3>1, <3>2, <3>3
  <2>3. Builds(h, m + 1)
    BY <2>2
  <2> HIDE DEF h, Builds
  <2> QED BY <2>3
<1>3. S = Nat
  <2> HIDE DEF S
  <2>1. S \in SUBSET Nat
    BY DEF S
  <2> QED BY <1>1, <1>2, <2>1, Induction
<1>4. ASSUME NEW m \in Nat, NEW g, Builds(g, m), NEW l \in Nat, NEW h, Builds(h, l)
      PROVE  \A d \in Nat : d <= m /\ d <= l => g[d] = h[d]
  <2> DEFINE T == {d \in Nat : d <= m /\ d <= l => g[d] = h[d]}
  <2>1. 0 \in T
    BY <1>4
  <2> HIDE DEF Builds
  <2>2. ASSUME NEW d \in T PROVE d + 1 \in T
    <3> SUFFICES ASSUME d + 1 <= m, d + 1 <= l PROVE g[d + 1] = h[d + 1]
      OBVIOUS
    <3>1. g[d] = h[d] /\ d \in Nat /\ d + 1 \in 0 .. m /\ d + 1 \in 0 .. l /\ d + 1 - 1 = d
      OBVIOUS
    <3>2. g[d + 1] = Next(g[d], d + 1) /\ h[d + 1] = Next(h[d], d + 1)
      <4>1. g[d + 1] = IF d + 1 = 0 THEN Base ELSE Next(g[d + 1 - 1], d + 1)
        BY <1>0, <1>4, <3>1
      <4>2. h[d + 1] = IF d + 1 = 0 THEN Base ELSE Next(h[d + 1 - 1], d + 1)
        BY <1>0, <1>4, <3>1
      <4> HIDE DEF T
      <4> QED BY <3>1, <4>1, <4>2
    <3> HIDE DEF T
    <3> QED BY <3>1, <3>2
  <2>3. T = Nat
    <3> HIDE DEF T
    <3>1. T \in SUBSET Nat
      BY DEF T
    <3> QED BY <2>1, <2>2, <3>1, Induction
  <2> QED BY <2>3
<1> DEFINE G(m) == CHOOSE g : Builds(g, m)
           F == [d \in Nat |-> G(d)[d]]
<1>5. ASSUME NEW m \in Nat PROVE Builds(G(m), m)
  <2>1. \E g : Builds(g, m)
    BY <1>3
  <2> HIDE DEF Builds
  <2> QED BY <2>1
<1>6. ASSUME NEW d \in Nat PROVE F[d] = IF d = 0 THEN Base ELSE Next(F[d - 1], d)
  <2> HIDE DEF G, Builds
  <2>1. G(d)[d] = IF d = 0 THEN Base ELSE Next(G(d)[d - 1], d)
    BY <1>0, <1>5
  <2>2. ASSUME d # 0 PROVE G(d)[d - 1] = G(d - 1)[d - 1]
    <3>1. d - 1 \in Nat /\ Builds(G(d), d) /\ Builds(G(d - 1), d - 1)
      BY <1>5, <2>2
    <3> QED BY <1>4, <3>1
  <2> QED BY <2>1, <2>2
<1> DEFINE Is(f) == f = [d \in Nat |-> Next(f[d - 1], d)]
<1>7. \E f : Is(f)
  <2>1. ASSUME NEW h PROVE Next(h, 0) = Base
    <3>1. Condition(Entry, {})[0] = {}
      BY ConditionDefined
    <3>2. [entry \in {} |-> [n \in Nat |-> Of(h, entry, n)]]
            = [entry \in {} |-> [n \in Nat |-> Of(0, entry, n)]]
      <4> HIDE DEF Of
      <4> QED OBVIOUS
    <3> QED BY <3>1, <3>2 DEF Next, Base
  <2>2. ASSUME NEW d \in Nat PROVE F[d] = Next(F[d - 1], d)
    BY <1>6, <2>1
  <2>3. Is(F)
    <3> HIDE DEF G
    <3> QED BY <2>2
  <2> HIDE DEF Is, F
  <2> QED BY <2>3
<1>8. Is(HandleKeys)
  <2>1. HandleKeys = CHOOSE f : Is(f)
    BY DEF HandleKeys, Next, Of
  <2> HIDE DEF Is
  <2> QED BY <1>7, <2>1
<1>9. \A d \in Nat : HandleKeys[d] = Next(HandleKeys[d - 1], d)
  BY <1>8
<1> SUFFICES ASSUME NEW d \in Nat, NEW entry \in Condition(Entry, {})[d], NEW n \in Nat
             PROVE  HandleKeys[d][entry][n] = Of(HandleKeys[d - 1], entry, n)
  BY DEF Of
<1>10. HandleKeys[d] = 
         [e \in Condition(Entry, {})[d] |-> [m \in Nat |-> Of(HandleKeys[d - 1], e, m)]]
  BY <1>9 DEF Next
<1> HIDE DEF Of
<1> QED BY <1>10

-----------------------------------------------------------------------------
(* The placeholders of one condition.                                        *)

\* How many of a set of indices are not above one of them.
UpTo(S, i) == Cardinality({j \in S : j <= i})

\* Up to an index of the set there is at least one, and more up to a later one.
LEMMA UpToIs ==
  ASSUME NEW L \in Nat, NEW S \in SUBSET (1 .. L)
  PROVE  /\ IsFiniteSet(S) /\ Cardinality(S) \in Nat
         /\ \A i \in 1 .. L : UpTo(S, i) \in Nat /\ UpTo(S, i) <= Cardinality(S)
         /\ \A i \in S : UpTo(S, i) >= 1
         /\ \A i, k \in S : i < k => UpTo(S, i) < UpTo(S, k)
<1>1. IsFiniteSet(S) /\ Cardinality(S) \in Nat
  <2>1. IsFiniteSet(1 .. L)
    BY FS_Interval
  <2> QED BY <2>1, FS_Subset, FS_CardinalityType
<1>2. ASSUME NEW i \in 1 .. L
      PROVE  /\ IsFiniteSet({j \in S : j <= i}) /\ UpTo(S, i) \in Nat
             /\ UpTo(S, i) <= Cardinality(S)
  <2>1. {j \in S : j <= i} \in SUBSET S
    OBVIOUS
  <2> QED BY <1>1, <2>1, FS_Subset, FS_CardinalityType DEF UpTo
<1>3. ASSUME NEW i \in S PROVE UpTo(S, i) >= 1
  <2>1. i \in {j \in S : j <= i}
    OBVIOUS
  <2>2. UpTo(S, i) # 0
    BY <1>2, <2>1, FS_EmptySet DEF UpTo
  <2>3. UpTo(S, i) \in Nat
    BY <1>2
  <2> QED BY <2>2, <2>3
<1>4. ASSUME NEW i \in S, NEW k \in S, i < k PROVE UpTo(S, i) < UpTo(S, k)
  <2> DEFINE A == {j \in S : j <= i}
             B == {j \in S : j <= k}
  <2>1. A \in SUBSET B /\ k \in B /\ k \notin A
    <3>1. i \in Int /\ k \in Int /\ \A j \in S : j \in Int
      OBVIOUS
    <3>2. ASSUME NEW j \in A PROVE j \in B
      <4>1. j \in S /\ j \in Int /\ j <= i
        BY <3>1
      <4> QED BY <1>4, <3>1, <4>1
    <3>3. k \in B /\ k \notin A
      <4>1. k <= k /\ ~(k <= i)
        BY <1>4, <3>1
      <4> QED BY <4>1
    <3> HIDE DEF A, B
    <3> QED BY <3>2, <3>3
  <2>2. IsFiniteSet(B) /\ Cardinality(A) \in Nat /\ Cardinality(B) \in Nat
    BY <1>2 DEF UpTo
  <2>3. Cardinality(A) <= Cardinality(B) /\ Cardinality(A) # Cardinality(B)
    <3> HIDE DEF A, B
    <3> QED BY <2>1, <2>2, FS_Subset
  <2> QED BY <2>2, <2>3 DEF UpTo
<1> QED BY <1>1, <1>2, <1>3, <1>4

\* The values of a condition have the placeholders from n + 1 on, each its own; in
\* their order when they are all dates or none is.
Places(at, values, n, L) ==
  /\ at \in [1 .. L -> n + 1 .. n + L]
  /\ \A k \in n + 1 .. n + L : \E i \in 1 .. L : at[i] = k
  /\ (\A i, j \in 1 .. L : values[i].text = values[j].text) =>
       \A i \in 1 .. L : at[i] = n + i

\* Placeholders gives them so.
LEMMA PlaceholdersFit ==
  ASSUME NEW column, NEW values \in Seq(Value), NEW n \in Nat
  PROVE  Places(Placeholders(column, values, n), values, n, Len(values))
<1> SUFFICES ASSUME NEW L, L = Len(values), NEW at, at = Placeholders(column, values, n)
             PROVE  Places(at, values, n, L)
  OBVIOUS
<1> DEFINE D == {i \in 1 .. L : IsDate(column, values[i])}
           N == (1 .. L) \ D
<1>1. L \in Nat /\ DOMAIN values = 1 .. L
  OBVIOUS
<1>2. at = [i \in 1 .. L |-> IF i \in D THEN n + UpTo(D, i)
                             ELSE n + Cardinality(D) + UpTo(N, i)]
  BY <1>1 DEF Placeholders, UpTo
<1>3. D \in SUBSET (1 .. L) /\ N \in SUBSET (1 .. L)
  OBVIOUS
<1>4. Cardinality(D) + Cardinality(N) = L
  <2>1. Cardinality(1 .. L) = L /\ IsFiniteSet(1 .. L)
    <3>1. 1 \in Int /\ L \in Int
      BY <1>1
    <3>2. IsFiniteSet(1 .. L) /\ Cardinality(1 .. L) = IF 1 > L THEN 0 ELSE L - 1 + 1
      BY <3>1, FS_Interval
    <3> QED BY <1>1, <3>2
  <2>2. IsFiniteSet(D) /\ IsFiniteSet(N) /\ D \intersect N = {} /\ D \union N = 1 .. L
    BY <1>1, <1>3, UpToIs
  <2> HIDE DEF D, N
  <2>3. Cardinality(D \union N) = Cardinality(D) + Cardinality(N) - Cardinality(D \intersect N)
    BY <2>2, FS_Union
  <2>4. Cardinality(D) \in Nat /\ Cardinality(N) \in Nat
    BY <2>2, FS_CardinalityType
  <2>5. Cardinality(D \union N) = L /\ Cardinality(D \intersect N) = 0
    <3>1. Cardinality({}) = 0
      BY FS_EmptySet
    <3> QED BY <2>1, <2>2, <3>1, Zenon
  <2> QED BY <1>1, <2>3, <2>4, <2>5
<1> HIDE DEF D
<1>5. at \in [1 .. L -> n + 1 .. n + L]
  <2>1. ASSUME NEW i \in 1 .. L PROVE at[i] \in n + 1 .. n + L
    <3>1. /\ i \in D \/ i \in N
          /\ at[i] = IF i \in D THEN n + UpTo(D, i) ELSE n + Cardinality(D) + UpTo(N, i)
      BY <1>2
    <3>2. /\ UpTo(D, i) \in Nat /\ UpTo(D, i) <= Cardinality(D) /\ UpTo(N, i) \in Nat
          /\ UpTo(N, i) <= Cardinality(N)
          /\ Cardinality(D) \in Nat /\ Cardinality(N) \in Nat
          /\ i \in D => UpTo(D, i) >= 1
          /\ i \in N => UpTo(N, i) >= 1
      <4> HIDE DEF N
      <4> QED BY <1>1, <1>3, UpToIs
    <3> HIDE DEF N
    <3> QED BY <1>1, <1>4, <3>1, <3>2
  <2> QED BY <1>2, <2>1
<1>6. ASSUME NEW i \in 1 .. L, NEW k \in 1 .. L, i < k PROVE at[i] # at[k]
  <2>1. (i \in D \/ i \in N) /\ (k \in D \/ k \in N)
    OBVIOUS
  <2>2. /\ at[i] = IF i \in D THEN n + UpTo(D, i) ELSE n + Cardinality(D) + UpTo(N, i)
        /\ at[k] = IF k \in D THEN n + UpTo(D, k) ELSE n + Cardinality(D) + UpTo(N, k)
    BY <1>2
  <2>3. /\ UpTo(D, i) \in Nat /\ UpTo(D, i) <= Cardinality(D)
        /\ UpTo(D, k) \in Nat /\ UpTo(D, k) <= Cardinality(D)
        /\ UpTo(N, i) \in Nat /\ UpTo(N, k) \in Nat /\ Cardinality(D) \in Nat
        /\ i \in N => UpTo(N, i) >= 1
        /\ k \in N => UpTo(N, k) >= 1
        /\ i \in D /\ k \in D => UpTo(D, i) < UpTo(D, k)
        /\ i \in N /\ k \in N => UpTo(N, i) < UpTo(N, k)
    <3> HIDE DEF N
    <3> QED BY <1>1, <1>3, <1>6, UpToIs
  <2> QED BY <2>1, <2>2, <2>3
<1>7. ASSUME NEW k \in n + 1 .. n + L PROVE \E i \in 1 .. L : at[i] = k
  <2>1. at \in Injection(1 .. L, n + 1 .. n + L)
    <3>1. \A i, j \in 1 .. L : at[i] = at[j] => i = j
      BY <1>1, <1>6
    <3> QED BY <1>5, <3>1 DEF Injection, IsInjective
  <2>2. /\ IsFiniteSet(n + 1 .. n + L)
        /\ Cardinality(n + 1 .. n + L) = L /\ Cardinality(1 .. L) = L
    <3>1. /\ IsFiniteSet(n + 1 .. n + L)
          /\ Cardinality(n + 1 .. n + L)
               = IF n + 1 > n + L THEN 0 ELSE (n + L) - (n + 1) + 1
      <4>1. n + 1 \in Int /\ n + L \in Int
        BY <1>1
      <4> QED BY <4>1, FS_Interval
    <3>2. Cardinality(1 .. L) = IF 1 > L THEN 0 ELSE L - 1 + 1
      BY <1>1, FS_Interval
    <3> QED BY <1>1, <3>1, <3>2
  <2>3. at \in Surjection(1 .. L, n + 1 .. n + L)
    <3> QED BY <2>1, <2>2, FS_Injection
  <2> QED BY <2>3 DEF Surjection
<1>8. ASSUME \A i, j \in 1 .. L : values[i].text = values[j].text, NEW i \in 1 .. L
      PROVE  at[i] = n + i
  <2>1. UpTo(1 .. L, i) = i
    <3>1. {j \in 1 .. L : j <= i} = 1 .. i
      BY <1>1
    <3>2. Cardinality(1 .. i) = i
      BY <1>1, FS_Interval
    <3> QED BY <3>1, <3>2 DEF UpTo
  <2>2. CASE D = 1 .. L
    BY <1>2, <2>1, <2>2
  <2>3. CASE D = {}
    BY <1>2, <2>1, <2>3, FS_EmptySet
  <2>4. D = {} \/ D = 1 .. L
    <3> SUFFICES ASSUME NEW j \in D, NEW k \in 1 .. L PROVE k \in D
      BY <1>3
    <3>1. values[j].text = values[k].text
      BY <1>3, <1>8
    <3> QED BY <3>1 DEF D, IsDate
  <2> QED BY <2>2, <2>3, <2>4
<1> QED BY <1>5, <1>7, <1>8 DEF Places

-----------------------------------------------------------------------------
(* What a built condition says, read with the list of all values.            *)

\* The lists of values there can be.
ListsOf == Seq(Point \union {Null, AnObject})
\* A list that has the values ps after its first n.
Agrees(list, n, ps) ==
  \A k \in 1 .. Len(ps) : n + k \in 1 .. Len(list) /\ list[n + k] = ps[k]
\* Counting the values from n on ends at m.
Counted(n, ps, m) == m = n + Len(ps)
\* What the columns of a row can hold.
Row == [Column -> Point \union {Null}]

\* Of the first k items, what is built says what they say: fit has the triples of a
\* built thing, the item it says the same as, and the list it is read with.
Fits(b, things, items, k, n, fit) ==
  /\ ~b.error
  /\ b.sql \in Seq(things) /\ Len(b.sql) = k
  /\ b.params \in ListsOf /\ Counted(n, b.params, b.n)
  /\ \A list \in ListsOf :
       Agrees(list, n, b.params) => \A i \in 1 .. k : <<b.sql[i], items[i], list>> \in fit

LeafFit ==
  {t \in Comparison \X PlainEntry \X ListsOf :
     /\ HasValues(t[1], t[3])
     /\ \A row \in Row : IsTrue(t[1], t[3], row) <=> IsMeant(t[2], row)}

\* The parts of one statement.
LEMMA StatementIs ==
  ASSUME NEW s, NEW params, NEW n
  PROVE  /\ Statement(s, params, n).sql = <<s>> /\ Statement(s, params, n).params = params
         /\ Statement(s, params, n).n = n /\ ~Statement(s, params, n).error
BY DEF Statement, Nothing

\* One statement of one item.
LEMMA OneFits ==
  ASSUME NEW b, NEW c, NEW things, c \in things, NEW item, NEW n \in Nat, NEW fit,
         b.sql = <<c>>, ~b.error, b.params \in ListsOf, Counted(n, b.params, b.n),
         \A list \in ListsOf : Agrees(list, n, b.params) => <<c, item, list>> \in fit
  PROVE  Fits(b, things, <<item>>, 1, n, fit)
<1>1. b.sql \in Seq(things) /\ Len(b.sql) = 1 /\ b.sql[1] = c /\ <<item>>[1] = item
  OBVIOUS
<1>2. ASSUME NEW list \in ListsOf, Agrees(list, n, b.params), NEW i \in 1 .. 1
      PROVE  <<b.sql[i], <<item>>[i], list>> \in fit
  <2>1. i = 1 /\ <<c, item, list>> \in fit
    BY <1>2
  <2> QED BY <1>1, <2>1
<1> QED BY <1>1, <1>2 DEF Fits

\* Null, AnObject and what stands for a missing value are no values of a column.
LEMMA NotColumnValues ==
  /\ Null \notin Point /\ Unbound \notin Point /\ AnObject \notin Point
  /\ Null # Unbound /\ Null # AnObject
  /\ Point \subseteq Int
<1>1. {Null, Unbound, AnObject} \intersect Int = {} /\ Point \subseteq Int
  BY QueryBuilderAssumption
<1>2. ASSUME NEW a, NEW b, Null = a PROVE Cardinality({Null, a, b}) # 3
  <2>1. {Null, a, b} = {a} \union {b}
    BY <1>2
  <2>2. IsFiniteSet({a}) /\ Cardinality({a}) = 1
    BY FS_Singleton
  <2>3. Cardinality({a} \union {b}) = IF b \in {a} THEN Cardinality({a}) ELSE Cardinality({a}) + 1
    BY <2>2, FS_AddElement
  <2> QED BY <2>1, <2>2, <2>3
<1>3. Cardinality({Null, Unbound, AnObject}) = 3
  BY QueryBuilderAssumption
<1>4. {Null, Unbound, AnObject} = {Null, AnObject, Unbound}
  OBVIOUS
<1>5. Null # Unbound
  BY <1>2, <1>3
<1>6. Null # AnObject
  <2>1. Null = AnObject => Cardinality({Null, AnObject, Unbound}) # 3
    BY <1>2
  <2> QED BY <1>3, <1>4, <2>1, Zenon
<1> QED BY <1>1, <1>5, <1>6

\* A comparison with a value, shorthand for equality.
LEMMA ValueFits ==
  ASSUME NEW e \in PlainEntry, e.is = "value", NEW n \in Nat
  PROVE  Fits(HandleValue(e.key, e.value, n), Comparison, <<e>>, 1, n, LeafFit)
<1> DEFINE b == HandleValue(e.key, e.value, n)
<1>1. /\ e \in Entry /\ e.key \in Column /\ e.value \in Value
      /\ e.value.at = Null \/ ~IsDate(e.key, e.value)
  <2>1. e \in Entry /\ e.key \in Column /\ (~IsDate(e.key, e.value) \/ e.value.at = Null)
    BY DEF PlainEntry
  <2> QED BY <2>1 DEF Entry
<1>2. CASE e.value.at = Null
  <2> DEFINE c == [is |-> "null", column |-> e.key, at |-> <<>>]
  <2>1. b.sql = <<c>> /\ b.params = <<>> /\ b.n = n /\ ~b.error
    <3>1. b = Statement(c, <<>>, n)
      BY <1>2 DEF HandleValue
    <3> HIDE DEF b, c
    <3> QED BY <3>1, StatementIs
  <2>2. c \in Comparison /\ c.is = "null" /\ c.at = <<>> /\ c.column = e.key
    BY <1>1 DEF Comparison
  <2>3. ASSUME NEW list \in ListsOf PROVE <<c, e, list>> \in LeafFit
    <3>1. HasValues(c, list)
      BY <2>2 DEF HasValues
    <3>2. ASSUME NEW row \in Row PROVE IsTrue(c, list, row) <=> IsMeant(e, row)
      BY <1>2, <2>2 DEF IsTrue, IsMeant
    <3> HIDE DEF c
    <3> QED BY <2>2, <3>1, <3>2 DEF LeafFit
  <2> HIDE DEF c, b
  <2>4. b.params \in ListsOf /\ Counted(n, b.params, b.n)
    BY <2>1 DEF ListsOf, Counted
  <2>5. \A list \in ListsOf : Agrees(list, n, b.params) => <<c, e, list>> \in LeafFit
    BY <2>1, <2>3
  <2>6. c \in Comparison
    BY <2>2
  <2>7. Fits(b, Comparison, <<e>>, 1, n, LeafFit)
    BY <2>1, <2>4, <2>5, <2>6, OneFits
  <2> QED BY <2>7 DEF b
<1>3. CASE e.value.at # Null
  <2> DEFINE c == [is |-> "eq", column |-> e.key, at |-> <<n + 1>>]
             x == e.value.at
  <2>1. b.sql = <<c>> /\ b.params = <<x>> /\ b.n = n + 1 /\ ~b.error
    <3>1. b = Statement(c, <<x>>, n + 1)
      BY <1>1, <1>3 DEF HandleValue
    <3> HIDE DEF b, c, x
    <3> QED BY <3>1, StatementIs
  <2>2. /\ c \in Comparison /\ c.is = "eq" /\ c.at = <<n + 1>> /\ c.column = e.key
        /\ x \in Point
    BY <1>1, <1>3 DEF Comparison, Value
  <2>3. ASSUME NEW list \in ListsOf, Agrees(list, n, <<x>>) PROVE <<c, e, list>> \in LeafFit
    <3>1. DOMAIN list = 1 .. Len(list) /\ n + 1 \in 1 .. Len(list) /\ list[n + 1] = x
      BY <2>3 DEF Agrees, ListsOf
    <3>2. ValueAt(list, n + 1) = x
      BY <3>1 DEF ValueAt
    <3>3. HasValues(c, list)
      BY <2>2, <3>2, NotColumnValues DEF HasValues
    <3>4. Values(list, c.at)[1] = x
      BY <2>2, <3>2 DEF Values
    <3>5. ASSUME NEW row \in Row PROVE IsTrue(c, list, row) <=> IsMeant(e, row)
      <4>1. IsTrue(c, list, row) <=> Compared("eq", row[e.key], Values(list, c.at))
        BY <2>2 DEF IsTrue
      <4>2. Compared("eq", row[e.key], Values(list, c.at)) <=> row[e.key] = x
        BY <2>2, <3>4, NotColumnValues DEF Compared, Compares
      <4> QED BY <4>1, <4>2 DEF IsMeant
    <3> HIDE DEF c, x
    <3> QED BY <2>2, <3>3, <3>5 DEF LeafFit
  <2> HIDE DEF c, b, x
  <2>4. b.params \in ListsOf /\ Counted(n, b.params, b.n)
    BY <2>1, <2>2 DEF ListsOf, Counted
  <2>5. \A list \in ListsOf : Agrees(list, n, b.params) => <<c, e, list>> \in LeafFit
    BY <2>1, <2>3
  <2>6. c \in Comparison
    BY <2>2
  <2>7. Fits(b, Comparison, <<e>>, 1, n, LeafFit)
    BY <2>1, <2>4, <2>5, <2>6, OneFits
  <2> QED BY <2>7 DEF b
<1> QED BY <1>2, <1>3

\* What the placeholders of a condition stand for: its values, in another order when
\* some are dates and some are not.
Reordered(ys, xs, values, L) ==
  /\ DOMAIN ys = 1 .. L /\ DOMAIN xs = 1 .. L
  /\ \A i \in 1 .. L : xs[i] \in Point
  /\ \A i \in 1 .. L : \E k \in 1 .. L : ys[i] = xs[k]
  /\ \A k \in 1 .. L : \E i \in 1 .. L : ys[i] = xs[k]
  /\ (\A i, j \in 1 .. L : values[i].text = values[j].text) => ys = xs

\* The values of a condition are found where Placeholders says.
LEMMA ValuesAre ==
  ASSUME NEW column, NEW values \in Seq(Value), NEW n \in Nat, NEW list \in ListsOf,
         Agrees(list, n, Points(values)),
         \A i \in DOMAIN values : values[i].at # Null
  PROVE  Reordered(Values(list, Placeholders(column, values, n)), Points(values), values,
                   Len(values))
<1> SUFFICES ASSUME NEW L, L = Len(values), NEW at, at = Placeholders(column, values, n),
                    NEW ys, ys = Values(list, at), NEW xs, xs = Points(values)
             PROVE  Reordered(ys, xs, values, L)
  OBVIOUS
<1>1. L \in Nat /\ DOMAIN values = 1 .. L
  OBVIOUS
<1>2. /\ xs = [i \in 1 .. L |-> values[i].at] /\ DOMAIN xs = 1 .. L /\ Len(xs) = L
      /\ \A i \in 1 .. L : xs[i] \in Point
  <2>1. xs = [i \in 1 .. L |-> values[i].at]
    BY <1>1 DEF Points
  <2>2. \A i \in 1 .. L : values[i] \in Value /\ values[i].at # Null
    BY <1>1
  <2>3. \A i \in 1 .. L : xs[i] = values[i].at /\ xs[i] \in Point
    BY <2>1, <2>2 DEF Value
  <2>4. Len(xs) = L
    BY <1>1, <2>1
  <2> QED BY <1>1, <2>1, <2>3, <2>4
<1>3. /\ at \in [1 .. L -> n + 1 .. n + L]
      /\ \A k \in n + 1 .. n + L : \E i \in 1 .. L : at[i] = k
      /\ (\A i, j \in 1 .. L : values[i].text = values[j].text) =>
           \A i \in 1 .. L : at[i] = n + i
  <2>1. Places(at, values, n, L)
    BY PlaceholdersFit
  <2> QED BY <2>1 DEF Places
<1>4. /\ DOMAIN list = 1 .. Len(list)
      /\ \A k \in 1 .. L : n + k \in 1 .. Len(list) /\ list[n + k] = xs[k]
  <2>1. DOMAIN list = 1 .. Len(list)
    BY DEF ListsOf
  <2>2. \A k \in 1 .. L : n + k \in 1 .. Len(list) /\ list[n + k] = xs[k]
    BY <1>2 DEF Agrees
  <2> QED BY <2>1, <2>2
<1>5. /\ ys = [i \in 1 .. L |-> ValueAt(list, at[i])]
      /\ \A i \in 1 .. L : ys[i] = ValueAt(list, at[i])
  BY <1>3 DEF Values
<1>6. ASSUME NEW i \in 1 .. L, NEW k \in 1 .. L, at[i] = n + k PROVE ys[i] = xs[k]
  <2>1. at[i] \in DOMAIN list /\ list[at[i]] = xs[k]
    BY <1>4, <1>6
  <2> QED BY <1>5, <2>1 DEF ValueAt
<1>7. ASSUME NEW i \in 1 .. L PROVE \E k \in 1 .. L : ys[i] = xs[k]
  <2>1. at[i] \in n + 1 .. n + L
    BY <1>3
  <2>2. at[i] - n \in 1 .. L /\ at[i] = n + (at[i] - n)
    BY <1>1, <2>1
  <2> QED BY <1>6, <2>2
<1>8. ASSUME NEW k \in 1 .. L PROVE \E i \in 1 .. L : ys[i] = xs[k]
  <2>1. n + k \in n + 1 .. n + L
    BY <1>1
  <2> QED BY <1>3, <1>6, <2>1
<1>9. ASSUME \A i, j \in 1 .. L : values[i].text = values[j].text PROVE ys = xs
  <2>1. \A i \in 1 .. L : ys[i] = xs[i]
    BY <1>3, <1>6, <1>9
  <2>2. ys = [i \in 1 .. L |-> ys[i]] /\ xs = [i \in 1 .. L |-> xs[i]]
    BY <1>2, <1>5
  <2> QED BY <2>1, <2>2
<1>10. DOMAIN ys = 1 .. L
  BY <1>5
<1> QED BY <1>2, <1>7, <1>8, <1>9, <1>10 DEF Reordered

\* A list is compared with as a set.
LEMMA ListCompared ==
  ASSUME NEW ys, NEW xs, NEW values, NEW L, Reordered(ys, xs, values, L),
         NEW x, NEW op \in {"inq", "nin"}
  PROVE  Compared(op, x, ys) <=> Compared(op, x, xs)
<1>1. /\ DOMAIN ys = 1 .. L /\ DOMAIN xs = 1 .. L
      /\ \A i \in 1 .. L : xs[i] \in Point
      /\ \A i \in 1 .. L : \E k \in 1 .. L : ys[i] = xs[k]
      /\ \A k \in 1 .. L : \E i \in 1 .. L : ys[i] = xs[k]
  BY DEF Reordered
<1>2. \A i \in 1 .. L : xs[i] # Null /\ ys[i] # Null
  BY <1>1, NotColumnValues
<1>3. (\E i \in 1 .. L : ys[i] = x) <=> (\E i \in 1 .. L : xs[i] = x)
  <2>1. ASSUME NEW i \in 1 .. L PROVE \E k \in 1 .. L : ys[i] = xs[k]
    BY <1>1
  <2>2. ASSUME NEW k \in 1 .. L PROVE \E i \in 1 .. L : ys[i] = xs[k]
    BY <1>1
  <2> QED BY <2>1, <2>2
<1> QED BY <1>1, <1>2, <1>3 DEF Compared

\* A comparison by an operator.
LEMMA ObjectFits ==
  ASSUME NEW e \in PlainEntry, e.is = "object", NEW n \in Nat
  PROVE  Fits(HandleObjectValue(e.key, e.ops, n), Comparison, <<e>>, 1, n, LeafFit)
<1>1. /\ e.key \in Column /\ DOMAIN e.ops = {1} /\ e.ops # <<>>
      /\ e.ops[1].values \in Seq(Value) /\ PlainOp(e.ops[1])
  <2>1. e \in Entry /\ e.key \in Column /\ Len(e.ops) = 1 /\ PlainOp(e.ops[1])
    BY DEF PlainEntry
  <2>2. e.ops \in Seq([op: STRING, values: Seq(Value)])
    BY <2>1 DEF Entry
  <2>3. e.ops[1] \in [op: STRING, values: Seq(Value)] /\ DOMAIN e.ops = {1} /\ e.ops # <<>>
    <3>1. DOMAIN e.ops = 1 .. 1
      BY <2>1, <2>2
    <3>2. 1 .. 1 = {1}
      OBVIOUS
    <3>3. 1 \in DOMAIN e.ops
      BY <3>1
    <3>4. e.ops[1] \in [op: STRING, values: Seq(Value)]
      <4> DEFINE T == [op: STRING, values: Seq(Value)]
      <4>1. e.ops \in Seq(T) /\ 1 \in 1 .. Len(e.ops)
        BY <2>1, <2>2
      <4> HIDE DEF T
      <4>2. e.ops[1] \in T
        BY <4>1, ElementIs
      <4> QED BY <4>2 DEF T
    <3>5. e.ops # <<>>
      <4>1. Len(e.ops) # 0
        BY <2>1
      <4> QED BY <4>1
    <3> QED BY <3>1, <3>2, <3>4, <3>5
  <2>4. e.ops[1].values \in Seq(Value)
    BY <2>3
  <2> QED BY <2>1, <2>3, <2>4
<1> SUFFICES ASSUME NEW op, op = e.ops[1].op, NEW values \in Seq(Value), values = e.ops[1].values,
                    NEW L, L = Len(values),
                    NEW at, at = Placeholders(e.key, values, n),
                    NEW xs, xs = Points(values)
             PROVE  Fits(HandleObjectValue(e.key, e.ops, n), Comparison, <<e>>, 1, n, LeafFit)
  BY <1>1
<1>2. /\ op \in Operators /\ values # <<>>
      /\ \A i \in DOMAIN values : values[i].at # Null
      /\ op = "between" => L = 2 /\ values[1].text = values[2].text
      /\ op \notin {"between", "inq", "nin"} => L = 1
  BY <1>1 DEF PlainOp
<1>3. L \in Nat /\ DOMAIN values = 1 .. L /\ \A i \in 1 .. L : values[i].at \in Point
  <2>1. L \in Nat /\ DOMAIN values = 1 .. L /\ \A i \in 1 .. L : values[i] \in Value
    OBVIOUS
  <2> QED BY <1>2, <2>1 DEF Value
<1> DEFINE b == HandleObjectValue(e.key, e.ops, n)
           c == [is |-> op, column |-> e.key, at |-> at]
<1>4. b.sql = <<c>> /\ b.params = xs /\ b.n = n + L /\ ~b.error
  <2>1. b = Statement(c, xs, n + L)
    BY <1>1, <1>2 DEF HandleObjectValue
  <2> HIDE DEF b, c
  <2> QED BY <2>1, StatementIs
<1>5. at \in [1 .. L -> n + 1 .. n + L]
  <2>1. Places(at, values, n, L)
    BY PlaceholdersFit
  <2> QED BY <2>1 DEF Places
<1>6. c \in Comparison /\ c.is = op /\ c.column = e.key /\ c.at = at /\ op # "null"
  <2>1. at \in Seq(Nat)
    <3>1. at \in [1 .. L -> Nat]
      BY <1>3, <1>5
    <3> QED BY <1>3, <3>1
  <2> QED BY <1>1, <1>2, <2>1 DEF Comparison, Operators
<1>7. xs \in ListsOf /\ Len(xs) = L
  <2>1. xs = [i \in 1 .. L |-> values[i].at]
    BY <1>3 DEF Points
  <2>2. xs \in [1 .. L -> Point \union {Null, AnObject}]
    BY <1>3, <2>1
  <2> QED BY <1>3, <2>2 DEF ListsOf
<1>8. ASSUME NEW list \in ListsOf, Agrees(list, n, xs) PROVE <<c, e, list>> \in LeafFit
  <2> SUFFICES ASSUME NEW ys, ys = Values(list, at) PROVE <<c, e, list>> \in LeafFit
    OBVIOUS
  <2>0. Reordered(ys, xs, values, L)
    <3>1. \A i \in DOMAIN values : values[i].at # Null
      BY <1>2
    <3> HIDE DEF c
    <3> QED BY <1>8, <3>1, ValuesAre
  <2>1. /\ DOMAIN ys = 1 .. L /\ DOMAIN xs = 1 .. L
        /\ \A i \in 1 .. L : xs[i] \in Point
        /\ \A i \in 1 .. L : \E k \in 1 .. L : ys[i] = xs[k]
        /\ (\A i, j \in 1 .. L : values[i].text = values[j].text) => ys = xs
    BY <2>0 DEF Reordered
  <2>2. HasValues(c, list)
    <3>1. ASSUME NEW k \in 1 .. L PROVE ValueAt(list, at[k]) \notin {Unbound, AnObject}
      <4>1. ys[k] = ValueAt(list, at[k])
        BY <1>5 DEF Values
      <4>2. ys[k] \in Point
        <5> HIDE DEF c
        <5>1. PICK l \in 1 .. L : ys[k] = xs[l]
          BY <2>1
        <5> QED BY <2>1, <5>1
      <4> QED BY <4>1, <4>2, NotColumnValues
    <3>2. DOMAIN at = 1 .. L
      BY <1>5
    <3> HIDE DEF c
    <3> QED BY <1>6, <3>1, <3>2 DEF HasValues
  <2>3. ASSUME NEW x PROVE Compared(op, x, ys) <=> Compared(op, x, xs)
    <3>1. CASE op \notin {"inq", "nin"}
      <4>1. \A i, j \in 1 .. L : values[i].text = values[j].text
        <5>1. L = 1 \/ (L = 2 /\ values[1].text = values[2].text)
          BY <1>2, <3>1
        <5> QED BY <5>1
      <4>2. ys = xs
        BY <2>1, <4>1
      <4> QED BY <4>2
    <3>2. CASE op \in {"inq", "nin"}
      BY <2>0, <3>2, ListCompared
    <3> QED BY <3>1, <3>2
  <2>4. ASSUME NEW row \in Row PROVE IsTrue(c, list, row) <=> IsMeant(e, row)
    <3>1. IsTrue(c, list, row) <=> Compared(op, row[e.key], ys)
      BY <1>6 DEF IsTrue
    <3>2. IsMeant(e, row) <=> Compared(op, row[e.key], xs)
      BY <1>1 DEF IsMeant
    <3> QED BY <2>3, <3>1, <3>2
  <2> HIDE DEF c
  <2> QED BY <1>6, <2>2, <2>4 DEF LeafFit
<1>9. /\ b.params \in ListsOf /\ Counted(n, b.params, b.n) /\ c \in Comparison
      /\ \A list \in ListsOf : Agrees(list, n, b.params) => <<c, e, list>> \in LeafFit
  <2> HIDE DEF b, c
  <2> QED BY <1>4, <1>6, <1>7, <1>8 DEF Counted
<1> HIDE DEF b, c
<1>10. Fits(b, Comparison, <<e>>, 1, n, LeafFit)
  BY <1>4, <1>9, OneFits
<1> QED BY <1>10 DEF b

-----------------------------------------------------------------------------
(* What is built of items one after the other.                               *)

\* The parts of what is built one after the other.
LEMMA ThenIs ==
  ASSUME NEW a, NEW b
  PROVE  /\ Then(a, b).sql = a.sql \o b.sql /\ Then(a, b).params = a.params \o b.params
         /\ Then(a, b).n = b.n /\ Then(a, b).error = (a.error \/ b.error)
BY DEF Then

\* The parts of what is built of nothing.
LEMMA NothingIs ==
  ASSUME NEW n
  PROVE  /\ Nothing(n).sql = <<>> /\ Nothing(n).params = <<>> /\ Nothing(n).n = n
         /\ ~Nothing(n).error
BY DEF Nothing

\* Who has the values of both has those of each where it counts them.
LEMMA JoinedCount ==
  ASSUME NEW r, NEW p, NEW q, Joined(r, p, q), NEW n \in Nat, NEW m, Counted(n, p, m),
         NEW l, Counted(m, q, l)
  PROVE  Counted(n, r, l)
BY DEF Joined, Counted

\* In the list the values of each come where they are counted.
LEMMA JoinedAgrees ==
  ASSUME NEW r, NEW p, NEW q, Joined(r, p, q), NEW n \in Nat, NEW m, Counted(n, p, m),
         NEW list, Agrees(list, n, r)
  PROVE  Agrees(list, n, p) /\ Agrees(list, m, q)
<1> USE DEF Counted
<1>1. Len(p) \in Nat /\ Len(q) \in Nat /\ Len(r) = Len(p) + Len(q)
  BY DEF Joined
<1>2. Agrees(list, n, p)
  <2>1. \A l \in 1 .. Len(p) : l \in 1 .. Len(r) /\ r[l] = p[l]
    BY <1>1 DEF Joined
  <2> QED BY <2>1 DEF Agrees
<1>3. Agrees(list, m, q)
  <2>1. \A l \in 1 .. Len(q) :
          /\ m + l = n + (Len(p) + l) /\ Len(p) + l \in 1 .. Len(r)
          /\ r[Len(p) + l] = q[l]
    BY <1>1 DEF Joined
  <2> QED BY <2>1 DEF Agrees
<1> QED BY <1>2, <1>3

\* When each item fits on its own, they fit together: the placeholders of each are
\* numbered where its values come in the list.
LEMMA ThenFits ==
  ASSUME NEW things, NEW items, NEW n \in Nat, NEW fit, NEW k \in Nat,
         NEW a, Fits(a, things, items, k, n, fit),
         NEW b, Fits(b, things, <<items[k + 1]>>, 1, a.n, fit)
  PROVE  Fits(Then(a, b), things, items, k + 1, n, fit)
<1> SUFFICES ASSUME NEW c, c = Then(a, b)
             PROVE  Fits(c, things, items, k + 1, n, fit)
  OBVIOUS
<1>1. /\ ~a.error /\ a.sql \in Seq(things) /\ Len(a.sql) = k /\ a.params \in ListsOf
      /\ Counted(n, a.params, a.n)
      /\ \A list \in ListsOf :
           Agrees(list, n, a.params) => \A i \in 1 .. k : <<a.sql[i], items[i], list>> \in fit
  BY DEF Fits
<1>2. /\ ~b.error /\ b.sql \in Seq(things) /\ Len(b.sql) = 1 /\ b.params \in ListsOf
      /\ Counted(a.n, b.params, b.n)
      /\ \A list \in ListsOf :
           Agrees(list, a.n, b.params) => <<b.sql[1], items[k + 1], list>> \in fit
  <2>1. <<items[k + 1]>>[1] = items[k + 1] /\ 1 \in 1 .. 1
    OBVIOUS
  <2> QED BY <2>1 DEF Fits
<1>3. c.sql = a.sql \o b.sql /\ c.params = a.params \o b.params /\ c.n = b.n /\ ~c.error
  <2>1. c.error = (a.error \/ b.error)
    BY ThenIs
  <2> QED BY <1>1, <1>2, <2>1, ThenIs
<1>4. /\ c.sql \in Seq(things) /\ Len(c.sql) = k + 1
      /\ \A i \in 1 .. k : c.sql[i] = a.sql[i]
      /\ c.sql[k + 1] = b.sql[1]
  <2>1. c.sql \in Seq(things) /\ Joined(c.sql, a.sql, b.sql)
    <3>1. a.sql \in Seq(things) /\ b.sql \in Seq(things)
      BY <1>1, <1>2
    <3>2. a.sql \o b.sql \in Seq(things) /\ Joined(a.sql \o b.sql, a.sql, b.sql)
      BY <3>1, ConcatIs
    <3> QED BY <1>3, <3>2, Zenon
  <2>2. Len(a.sql) = k /\ Len(b.sql) = 1
    BY <1>1, <1>2
  <2> QED BY <2>1, <2>2 DEF Joined
<1>5. c.params \in ListsOf /\ Joined(c.params, a.params, b.params) /\ Counted(n, c.params, c.n)
  <2>1. c.params \in ListsOf /\ Joined(c.params, a.params, b.params)
    <3>1. /\ a.params \o b.params \in ListsOf
          /\ Joined(a.params \o b.params, a.params, b.params)
      BY <1>1, <1>2, ConcatIs DEF ListsOf
    <3> QED BY <1>3, <3>1, Zenon
  <2>2. Counted(n, c.params, b.n)
    BY <1>1, <1>2, <2>1, JoinedCount
  <2> QED BY <1>3, <2>1, <2>2
<1>6. ASSUME NEW list \in ListsOf, Agrees(list, n, c.params), NEW i \in 1 .. k + 1
      PROVE  <<c.sql[i], items[i], list>> \in fit
  <2>1. Agrees(list, n, a.params) /\ Agrees(list, a.n, b.params)
    <3>1. Counted(n, a.params, a.n) /\ Joined(c.params, a.params, b.params)
      BY <1>1, <1>5
    <3> QED BY <1>6, <3>1, JoinedAgrees
  <2>2. CASE i \in 1 .. k
    <3>1. c.sql[i] = a.sql[i]
      BY <1>4, <2>2
    <3> QED BY <1>1, <2>1, <2>2, <3>1
  <2>3. CASE i = k + 1
    <3>1. c.sql[i] = b.sql[1]
      BY <1>4, <2>3
    <3> QED BY <1>2, <2>1, <2>3, <3>1
  <2> QED BY <2>2, <2>3
<1> QED BY <1>3, <1>4, <1>5, <1>6 DEF Fits

\* Along a sequence, each item after what was built of those before.
LEMMA ChainFits ==
  ASSUME NEW things, NEW Item, NEW items \in Seq(Item), NEW n \in Nat, NEW fit, NEW build,
         \A item \in Item, m \in Nat : Fits(build[item][m], things, <<item>>, 1, m, fit)
  PROVE  Fits(Chain(build, items, n), things, items, Len(items), n, fit)
<1>1. Len(items) \in Nat /\ \A k \in 1 .. Len(items) : items[k] \in Item
  OBVIOUS
<1>2. PICK done : StepsOf(done, build, items, n)
  BY <1>1, ChainDefined
<1> DEFINE S == {k \in Nat : k <= Len(items) => Fits(done[k], things, items, k, n, fit)}
<1>3. 0 \in S
  <2> SUFFICES ASSUME NEW b, b.sql = <<>>, b.params = <<>>, b.n = n, ~b.error
               PROVE  Fits(b, things, items, 0, n, fit)
    BY <1>2, NothingIs DEF StepsOf
  <2>1. b.params \in ListsOf /\ Counted(n, b.params, b.n)
    BY DEF ListsOf, Counted
  <2>2. b.sql \in Seq(things) /\ Len(b.sql) = 0
    OBVIOUS
  <2> QED BY <2>1, <2>2 DEF Fits
<1>4. ASSUME NEW k \in S PROVE k + 1 \in S
  <2> SUFFICES ASSUME k + 1 <= Len(items)
               PROVE  Fits(done[k + 1], things, items, k + 1, n, fit)
    OBVIOUS
  <2>1. k \in Nat /\ k + 1 \in 1 .. Len(items) /\ Fits(done[k], things, items, k, n, fit)
    BY <1>1
  <2>2. done[k + 1] = Then(done[k], build[items[k + 1]][done[k].n])
    BY <1>2, <2>1 DEF StepsOf
  <2>3. done[k].n \in Nat
    BY <2>1 DEF Fits, Counted, ListsOf
  <2>4. Fits(build[items[k + 1]][done[k].n], things, <<items[k + 1]>>, 1, done[k].n, fit)
    BY <1>1, <2>1, <2>3
  <2> HIDE DEF S
  <2> QED BY <2>1, <2>2, <2>4, ThenFits
<1>5. S = Nat
  <2> HIDE DEF S
  <2>1. S \in SUBSET Nat
    BY DEF S
  <2> QED BY <1>3, <1>4, <2>1, Induction
<1>6. Fits(done[Len(items)], things, items, Len(items), n, fit)
  BY <1>1, <1>5
<1> QED BY <1>2, <1>6 DEF StepsOf

-----------------------------------------------------------------------------
(* What a condition of any depth says.                                       *)

\* What is asked and what is built of it, nested less than d deep.
AskedFor(d) == Condition(PlainEntry, {<<>>})[d]
Clean(d) == Condition(Comparison, {<<>>})[d]

Valued(list) == {c \in Comparison : HasValues(c, list)}
Trues(list, row) == {c \in Comparison : IsTrue(c, list, row)}
Meant(row) == {e \in Entry : IsMeant(e, row)}

\* Pairs of a condition built and one asked for, and of sequences of them, that say
\* the same when read with a list.
NodeFit(d) ==
  {t \in Clean(d) \X AskedFor(d) \X ListsOf :
     /\ t[1] \in Condition(Valued(t[3]), {})[d]
     /\ \A row \in Row :
          t[1] \in Holding(Comparison, Trues(t[3], row))[d]
            <=> t[2] \in Holding(Entry, Meant(row))[d]}
ClauseFit(d) ==
  {t \in Seq(Clean(d)) \X Seq(AskedFor(d)) \X ListsOf :
     /\ t[1] \in Seq(Condition(Valued(t[3]), {})[d])
     /\ \A row \in Row :
          t[1] \in Seq(Holding(Comparison, Trues(t[3], row))[d])
            <=> t[2] \in Seq(Holding(Entry, Meant(row))[d])}

\* A leaf is a condition of every depth but 0.
LEMMA LeafCondition ==
  ASSUME NEW leaves, NEW banned, NEW d \in Nat
  PROVE  leaves \subseteq Condition(leaves, banned)[d + 1]
BY ConditionDefined

\* So is the "and" or "or" of clauses made of those one level less deep.
LEMMA NodeCondition ==
  ASSUME NEW leaves, NEW banned, NEW d \in Nat, NEW key \in {"and", "or"}, NEW bs,
         bs \in Seq(Seq(Condition(leaves, banned)[d]) \ banned) \ banned
  PROVE  [is |-> key, branches |-> bs] \in Condition(leaves, banned)[d + 1]
<1> DEFINE B == Seq(Seq(Condition(leaves, banned)[d]) \ banned) \ banned
<1>1. [is |-> key, branches |-> bs] \in [is: {"and", "or"}, branches: B]
  <2> HIDE DEF B
  <2>1. bs \in B
    BY DEF B
  <2> QED BY <2>1
<1>2. Condition(leaves, banned)[d + 1] = leaves \union [is: {"and", "or"}, branches: B]
  BY ConditionDefined DEF Nodes
<1> HIDE DEF B
<1> QED BY <1>1, <1>2

\* An "and" or "or" of clauses made of other conditions.
IsNode(c, conditions, banned) ==
  /\ c.is \in {"and", "or"} /\ c = [is |-> c.is, branches |-> c.branches]
  /\ c.branches \in Seq(Seq(conditions) \ banned) \ banned

\* There are no others.
LEMMA ConditionCases ==
  ASSUME NEW leaves, NEW banned, NEW d \in Nat, NEW c, c \in Condition(leaves, banned)[d + 1]
  PROVE  c \in leaves \/ IsNode(c, Condition(leaves, banned)[d], banned)
<1> DEFINE B == Seq(Seq(Condition(leaves, banned)[d]) \ banned) \ banned
<1>1. Condition(leaves, banned)[d + 1] = leaves \union [is: {"and", "or"}, branches: B]
  BY ConditionDefined DEF Nodes
<1>2. c \in leaves \/ c \in [is: {"and", "or"}, branches: B]
  <2> HIDE DEF B
  <2> QED BY <1>1
<1>3. ASSUME c \in [is: {"and", "or"}, branches: B]
      PROVE  /\ c.is \in {"and", "or"} /\ c = [is |-> c.is, branches |-> c.branches]
             /\ c.branches \in B
  <2> HIDE DEF B
  <2> QED BY <1>3
<1> QED BY <1>2, <1>3 DEF IsNode

\* More leaves and nothing banned: more conditions.
LEMMA ConditionGrows ==
  ASSUME NEW leaves, NEW more, leaves \subseteq more, NEW banned
  PROVE  \A d \in Nat : Condition(leaves, banned)[d] \subseteq Condition(more, {})[d]
<1> DEFINE S == {d \in Nat : Condition(leaves, banned)[d] \subseteq Condition(more, {})[d]}
<1>1. 0 \in S
  BY ConditionDefined DEF Nodes
<1>2. ASSUME NEW d \in S PROVE d + 1 \in S
  <2>1. d \in Nat /\ Condition(leaves, banned)[d] \subseteq Condition(more, {})[d]
    OBVIOUS
  <2>2. ASSUME NEW c, c \in Condition(leaves, banned)[d + 1]
        PROVE  c \in Condition(more, {})[d + 1]
    <3>1. CASE c \in leaves
      BY <2>1, <3>1, LeafCondition
    <3>2. CASE IsNode(c, Condition(leaves, banned)[d], banned)
      <4> SUFFICES ASSUME NEW bs, bs = c.branches, NEW A, A = Condition(leaves, banned)[d],
                          NEW B, B = Condition(more, {})[d]
                   PROVE  bs \in Seq(Seq(B) \ {}) \ {}
        BY <2>1, <3>2, NodeCondition, Zenon DEF IsNode
      <4>1. bs \in Seq(Seq(A) \ banned) /\ A \subseteq B
        BY <2>1, <3>2 DEF IsNode
      <4>2. ASSUME NEW i \in 1 .. Len(bs) PROVE bs[i] \in Seq(B)
        <5>1. bs[i] \in Seq(A)
          BY <4>1, ElementIs
        <5>2. \A j \in 1 .. Len(bs[i]) : bs[i][j] \in B
          BY <4>1, <5>1, ElementIs
        <5> QED BY <5>1, <5>2, ElementsAre
      <4>3. bs \in Seq(Seq(B))
        BY <4>1, <4>2, ElementsAre
      <4>4. Seq(B) \ {} = Seq(B) /\ Seq(Seq(B)) \ {} = Seq(Seq(B))
        OBVIOUS
      <4> QED BY <4>3, <4>4
    <3> QED BY <2>1, <2>2, <3>1, <3>2, ConditionCases
  <2> QED BY <2>1, <2>2
<1>3. S = Nat
  <2> HIDE DEF S
  <2>1. S \in SUBSET Nat
    BY DEF S
  <2> QED BY <1>1, <1>2, <2>1, Induction
<1> QED BY <1>3

\* Of the conditions of a depth, those without clauses hold that are true, and the
\* others according to their clauses.
LEMMA LeafHolds ==
  ASSUME NEW leaves, NEW true, NEW d \in Nat, NEW c, c.is \notin {"and", "or"}
  PROVE  c \in Holding(leaves, true)[d + 1] <=> c \in true
<1> DEFINE A == Seq(Seq(Holding(leaves, true)[d]))
           B == {o \in [is: {"or"}, branches: Seq(Seq(Condition(leaves, {})[d]))] :
                   \E j \in DOMAIN o.branches :
                     o.branches[j] \in Seq(Holding(leaves, true)[d])}
<1>1. Holding(leaves, true)[d + 1] = true \union [is: {"and"}, branches: A] \union B
  BY HoldingDefined
<1>2. c \notin [is: {"and"}, branches: A]
  <2> HIDE DEF A
  <2> QED OBVIOUS
<1>3. c \notin B
  <2> DEFINE D == Seq(Seq(Condition(leaves, {})[d]))
  <2>1. c \in B => c \in [is: {"or"}, branches: D]
    OBVIOUS
  <2>2. c \notin [is: {"or"}, branches: D]
    <3> HIDE DEF D
    <3> QED OBVIOUS
  <2> HIDE DEF B, D
  <2> QED BY <2>1, <2>2
<1> HIDE DEF A, B
<1> QED BY <1>1, <1>2, <1>3

\* An "and" holds when every condition of every clause does.
LEMMA AndHolds ==
  ASSUME NEW leaves, NEW true, NEW d \in Nat, NEW bs,
         \A c \in true : c.is \notin {"and", "or"}
  PROVE  [is |-> "and", branches |-> bs] \in Holding(leaves, true)[d + 1]
           <=> bs \in Seq(Seq(Holding(leaves, true)[d]))
<1> DEFINE c == [is |-> "and", branches |-> bs]
           A == Seq(Seq(Holding(leaves, true)[d]))
           D == Seq(Seq(Condition(leaves, {})[d]))
           B == {o \in [is: {"or"}, branches: Seq(Seq(Condition(leaves, {})[d]))] :
                   \E j \in DOMAIN o.branches :
                     o.branches[j] \in Seq(Holding(leaves, true)[d])}
<1>1. Holding(leaves, true)[d + 1] = true \union [is: {"and"}, branches: A] \union B
  BY HoldingDefined
<1>2. c \in [is: {"and"}, branches: A] <=> bs \in A
  <2> HIDE DEF A
  <2> QED OBVIOUS
<1>3. c \notin B
  <2>1. c \in B => c \in [is: {"or"}, branches: D]
    OBVIOUS
  <2>2. c \notin [is: {"or"}, branches: D]
    <3> HIDE DEF D
    <3> QED OBVIOUS
  <2> HIDE DEF B, D
  <2> QED BY <2>1, <2>2
<1>4. c \notin true
  <2>1. c.is = "and"
    OBVIOUS
  <2> HIDE DEF c
  <2> QED BY <2>1
<1> HIDE DEF A, B
<1> QED BY <1>1, <1>2, <1>3, <1>4 DEF A

\* An "or" holds when all conditions of one of its clauses do.
LEMMA OrHolds ==
  ASSUME NEW leaves, NEW true, NEW d \in Nat,
         NEW bs, bs \in Seq(Seq(Condition(leaves, {})[d])),
         \A c \in true : c.is \notin {"and", "or"}
  PROVE  [is |-> "or", branches |-> bs] \in Holding(leaves, true)[d + 1]
           <=> \E j \in DOMAIN bs : bs[j] \in Seq(Holding(leaves, true)[d])
<1> DEFINE c == [is |-> "or", branches |-> bs]
           A == Seq(Seq(Holding(leaves, true)[d]))
           D == Seq(Seq(Condition(leaves, {})[d]))
           H == Seq(Holding(leaves, true)[d])
           B == {o \in [is: {"or"}, branches: D] :
                   \E j \in DOMAIN o.branches : o.branches[j] \in H}
<1>1. Holding(leaves, true)[d + 1] = true \union [is: {"and"}, branches: A] \union B
  BY HoldingDefined
<1>2. c \notin [is: {"and"}, branches: A]
  <2> HIDE DEF A
  <2> QED OBVIOUS
<1>3. c \in B <=> \E j \in DOMAIN bs : bs[j] \in H
  <2>0. bs \in D
    OBVIOUS
  <2> HIDE DEF D, H
  <2>1. c \in [is: {"or"}, branches: D] /\ c.branches = bs
    BY <2>0
  <2> HIDE DEF c
  <2> QED BY <2>1
<1>4. c \notin true
  <2>1. c.is = "or"
    OBVIOUS
  <2> HIDE DEF c
  <2> QED BY <2>1
<1> HIDE DEF A, B, c
<1>5. c \in Holding(leaves, true)[d + 1] <=> \E j \in DOMAIN bs : bs[j] \in H
  BY <1>1, <1>2, <1>3, <1>4
<1> QED BY <1>5 DEF c, H

-----------------------------------------------------------------------------
(* From the clauses of a condition to the condition.                         *)

\* Neither comparisons nor entries are "and" or "or" of clauses.
LEMMA LeavesAre ==
  /\ \A c \in Comparison : c.is \notin {"and", "or"}
  /\ \A e \in Entry : e.is \notin {"and", "or"}
<1>1. ASSUME NEW c \in Comparison PROVE c.is \notin {"and", "or"}
  <2>1. c.is \in Operators \union {"eq", "null"}
    BY DEF Comparison
  <2> QED BY <2>1 DEF Operators
<1>2. ASSUME NEW e \in Entry PROVE e.is \notin {"and", "or"}
  <2>1. e.is \in {"value"} \/ e.is \in {"object"}
    BY DEF Entry
  <2> QED BY <2>1
<1> QED BY <1>1, <1>2

\* What fits as a comparison fits as a condition.
LEMMA LeafFits ==
  ASSUME NEW d \in Nat, NEW c, NEW e, NEW list, <<c, e, list>> \in LeafFit
  PROVE  <<c, e, list>> \in NodeFit(d + 1)
<1>1. /\ c \in Comparison /\ e \in PlainEntry /\ list \in ListsOf /\ HasValues(c, list)
      /\ \A row \in Row : IsTrue(c, list, row) <=> IsMeant(e, row)
  BY DEF LeafFit
<1>2. e \in Entry /\ c.is \notin {"and", "or"} /\ e.is \notin {"and", "or"}
  <2>1. e \in Entry
    BY <1>1 DEF PlainEntry
  <2> QED BY <1>1, <2>1, LeavesAre
<1>3. c \in Clean(d + 1) /\ e \in AskedFor(d + 1)
  BY <1>1, LeafCondition DEF Clean, AskedFor
<1>4. c \in Condition(Valued(list), {})[d + 1]
  <2>1. c \in Valued(list)
    BY <1>1 DEF Valued
  <2> QED BY <2>1, LeafCondition
<1>5. ASSUME NEW row \in Row
      PROVE  c \in Holding(Comparison, Trues(list, row))[d + 1]
               <=> e \in Holding(Entry, Meant(row))[d + 1]
  <2>1. c \in Holding(Comparison, Trues(list, row))[d + 1] <=> c \in Trues(list, row)
    BY <1>2, LeafHolds
  <2>2. e \in Holding(Entry, Meant(row))[d + 1] <=> e \in Meant(row)
    BY <1>2, LeafHolds
  <2>3. c \in Trues(list, row) <=> e \in Meant(row)
    BY <1>1, <1>2 DEF Trues, Meant
  <2> QED BY <2>1, <2>2, <2>3
<1> QED BY <1>1, <1>3, <1>4, <1>5 DEF NodeFit

\* Conditions that fit one by one fit as a clause.
LEMMA ClauseFits ==
  ASSUME NEW d \in Nat, NEW s \in Seq(Clean(d)), NEW e \in Seq(AskedFor(d)), Len(s) = Len(e),
         NEW list \in ListsOf, \A i \in 1 .. Len(e) : <<s[i], e[i], list>> \in NodeFit(d)
  PROVE  <<s, e, list>> \in ClauseFit(d)
<1>1. s \in Seq(Condition(Valued(list), {})[d])
  <2>1. \A i \in 1 .. Len(s) : s[i] \in Condition(Valued(list), {})[d]
    BY DEF NodeFit
  <2> QED BY <2>1, ElementsAre
<1>2. ASSUME NEW row \in Row
      PROVE  s \in Seq(Holding(Comparison, Trues(list, row))[d])
               <=> e \in Seq(Holding(Entry, Meant(row))[d])
  <2> SUFFICES ASSUME NEW S, S = Holding(Comparison, Trues(list, row))[d],
                      NEW E, E = Holding(Entry, Meant(row))[d]
               PROVE  s \in Seq(S) <=> e \in Seq(E)
    OBVIOUS
  <2>1. \A i \in 1 .. Len(e) : s[i] \in S <=> e[i] \in E
    BY DEF NodeFit
  <2>2. s \in Seq(S) <=> \A i \in 1 .. Len(s) : s[i] \in S
    BY ElementsAre
  <2>3. e \in Seq(E) <=> \A i \in 1 .. Len(e) : e[i] \in E
    BY ElementsAre
  <2> QED BY <2>1, <2>2, <2>3
<1> QED BY <1>1, <1>2 DEF ClauseFit

\* Clauses that fit one by one fit as an "and" or "or" of them.
Clauses(conditions) == Seq(Seq(conditions) \ {<<>>}) \ {<<>>}

\* Clauses are not empty, and there is one.
LEMMA ClausesAre ==
  ASSUME NEW T, NEW bs \in Clauses(T)
  PROVE  /\ bs \in Seq(Seq(T)) /\ Len(bs) \in Nat /\ DOMAIN bs = 1 .. Len(bs)
         /\ bs \in Seq(Seq(T) \ {<<>>}) /\ bs # <<>>
         /\ \A i \in 1 .. Len(bs) : bs[i] \in Seq(T) /\ bs[i] # <<>>
<1>1. bs \in Seq(Seq(T) \ {<<>>}) /\ bs # <<>>
  BY DEF Clauses
<1>2. /\ Len(bs) \in Nat /\ DOMAIN bs = 1 .. Len(bs)
      /\ \A i \in 1 .. Len(bs) : bs[i] \in Seq(T) \ {<<>>}
  BY <1>1, ElementIs
<1>3. bs \in Seq(Seq(T))
  BY <1>1, <1>2, ElementsAre
<1> QED BY <1>1, <1>2, <1>3

\* So do an "and" and an "or" of clauses that fit one by one.
LEMMA NodeFits ==
  ASSUME NEW d \in Nat, NEW key \in {"and", "or"}, NEW bs \in Clauses(Clean(d)),
         NEW cs \in Clauses(AskedFor(d)), Len(bs) = Len(cs), NEW list \in ListsOf,
         \A i \in 1 .. Len(cs) : <<bs[i], cs[i], list>> \in ClauseFit(d)
  PROVE  <<[is |-> key, branches |-> bs], [is |-> key, branches |-> cs], list>>
           \in NodeFit(d + 1)
<1> SUFFICES ASSUME NEW c, c = [is |-> key, branches |-> bs],
                    NEW e, e = [is |-> key, branches |-> cs]
             PROVE  <<c, e, list>> \in NodeFit(d + 1)
  OBVIOUS
<1>1. /\ bs \in Seq(Seq(Clean(d))) /\ cs \in Seq(Seq(AskedFor(d)))
      /\ DOMAIN bs = 1 .. Len(bs) /\ DOMAIN cs = 1 .. Len(cs)
      /\ \A i \in 1 .. Len(bs) : bs[i] \in Seq(Clean(d))
      /\ \A i \in 1 .. Len(cs) : cs[i] \in Seq(AskedFor(d))
  BY ClausesAre
<1>2. c \in Clean(d + 1) /\ e \in AskedFor(d + 1)
  BY NodeCondition DEF Clauses, Clean, AskedFor
<1>3. c \in Condition(Valued(list), {})[d + 1]
  <2> SUFFICES ASSUME NEW V, V = Condition(Valued(list), {})[d] PROVE bs \in Seq(Seq(V) \ {}) \ {}
    BY NodeCondition, Zenon
  <2>1. \A i \in 1 .. Len(bs) : bs[i] \in Seq(V)
    BY DEF ClauseFit
  <2>2. bs \in Seq(Seq(V))
    BY <1>1, <2>1, ElementsAre
  <2>3. Seq(V) \ {} = Seq(V) /\ Seq(Seq(V)) \ {} = Seq(Seq(V))
    OBVIOUS
  <2> QED BY <2>2, <2>3
<1>4. ASSUME NEW row \in Row
      PROVE  c \in Holding(Comparison, Trues(list, row))[d + 1]
               <=> e \in Holding(Entry, Meant(row))[d + 1]
  <2> SUFFICES ASSUME NEW S, S = Holding(Comparison, Trues(list, row))[d],
                      NEW E, E = Holding(Entry, Meant(row))[d]
               PROVE  c \in Holding(Comparison, Trues(list, row))[d + 1]
                        <=> e \in Holding(Entry, Meant(row))[d + 1]
    OBVIOUS
  <2>1. \A i \in 1 .. Len(cs) : bs[i] \in Seq(S) <=> cs[i] \in Seq(E)
    BY DEF ClauseFit
  <2>2. /\ \A l \in Trues(list, row) : l.is \notin {"and", "or"}
        /\ \A l \in Meant(row) : l.is \notin {"and", "or"}
    BY LeavesAre DEF Trues, Meant
  <2>3. CASE key = "and"
    <3>1. c \in Holding(Comparison, Trues(list, row))[d + 1] <=> bs \in Seq(Seq(S))
      BY <2>2, <2>3, AndHolds
    <3>2. e \in Holding(Entry, Meant(row))[d + 1] <=> cs \in Seq(Seq(E))
      BY <2>2, <2>3, AndHolds
    <3>3. bs \in Seq(Seq(S)) <=> \A i \in 1 .. Len(bs) : bs[i] \in Seq(S)
      BY <1>1, ElementsAre
    <3>4. cs \in Seq(Seq(E)) <=> \A i \in 1 .. Len(cs) : cs[i] \in Seq(E)
      BY <1>1, ElementsAre
    <3> QED BY <2>1, <3>1, <3>2, <3>3, <3>4
  <2>4. CASE key = "or"
    <3>1. /\ bs \in Seq(Seq(Condition(Comparison, {})[d]))
          /\ cs \in Seq(Seq(Condition(Entry, {})[d]))
      <4>1. /\ Clean(d) \subseteq Condition(Comparison, {})[d]
            /\ AskedFor(d) \subseteq Condition(Entry, {})[d]
        <5>1. PlainEntry \subseteq Entry
          BY DEF PlainEntry
        <5> QED BY <5>1, ConditionGrows DEF Clean, AskedFor
      <4> QED BY <1>1, <4>1, SequencesGrow
    <3>2. c \in Holding(Comparison, Trues(list, row))[d + 1]
            <=> \E i \in DOMAIN bs : bs[i] \in Seq(S)
      BY <2>2, <2>4, <3>1, OrHolds
    <3>3. e \in Holding(Entry, Meant(row))[d + 1] <=> \E i \in DOMAIN cs : cs[i] \in Seq(E)
      BY <2>2, <2>4, <3>1, OrHolds
    <3> QED BY <1>1, <2>1, <3>2, <3>3
  <2> QED BY <2>3, <2>4
<1> QED BY <1>2, <1>3, <1>4 DEF NodeFit

-----------------------------------------------------------------------------
(* What is built of a condition of any depth, and of a filter.               *)

\* Whatever the things, what is built of them has all its parts.
IsBuilt(b) == b = [sql |-> b.sql, params |-> b.params, n |-> b.n, error |-> b.error]

\* A chain of things built has all its parts.
LEMMA ChainIsBuilt ==
  ASSUME NEW build, NEW items, Len(items) \in Nat, NEW n
  PROVE  IsBuilt(Chain(build, items, n))
<1>1. PICK done : StepsOf(done, build, items, n)
  BY ChainDefined
<1>2. CASE Len(items) = 0
  <2>1. Chain(build, items, n) = Nothing(n)
    BY <1>1, <1>2 DEF StepsOf
  <2>2. IsBuilt(Nothing(n))
    BY DEF IsBuilt, Nothing
  <2> QED BY <2>1, <2>2
<1>3. CASE Len(items) # 0
  <2> DEFINE a == done[Len(items) - 1]
             b == build[items[Len(items)]][a.n]
  <2>1. Len(items) \in 1 .. Len(items)
    BY <1>3
  <2>2. Chain(build, items, n) = Then(a, b)
    BY <1>1, <2>1 DEF StepsOf
  <2> HIDE DEF a, b
  <2>3. IsBuilt(Then(a, b))
    BY DEF IsBuilt, Then
  <2> QED BY <2>2, <2>3
<1> QED BY <1>2, <1>3

\* The same with something else said.
LEMMA SayingIs ==
  ASSUME NEW b, IsBuilt(b), NEW s
  PROVE  /\ [b EXCEPT !.sql = s].sql = s /\ [b EXCEPT !.sql = s].params = b.params
         /\ [b EXCEPT !.sql = s].n = b.n /\ [b EXCEPT !.sql = s].error = b.error
         /\ IsBuilt([b EXCEPT !.sql = s])
<1> DEFINE sql == b.sql
           params == b.params
           n == b.n
           error == b.error
<1>1. b = [sql |-> sql, params |-> params, n |-> n, error |-> error]
  BY DEF IsBuilt
<1> HIDE DEF sql, params, n, error
<1>2. [b EXCEPT !.sql = s] = [sql |-> s, params |-> params, n |-> n, error |-> error]
  BY <1>1
<1> QED BY <1>1, <1>2 DEF IsBuilt

\* The same with another word on whether it is an error.
LEMMA FailingIs ==
  ASSUME NEW b, IsBuilt(b), NEW s
  PROVE  /\ [b EXCEPT !.error = s].sql = b.sql /\ [b EXCEPT !.error = s].params = b.params
         /\ [b EXCEPT !.error = s].n = b.n /\ [b EXCEPT !.error = s].error = s
         /\ IsBuilt([b EXCEPT !.error = s])
<1> DEFINE sql == b.sql
           params == b.params
           n == b.n
           error == b.error
<1>1. b = [sql |-> sql, params |-> params, n |-> n, error |-> error]
  BY DEF IsBuilt
<1> HIDE DEF sql, params, n, error
<1>2. [b EXCEPT !.error = s] = [sql |-> sql, params |-> params, n |-> n, error |-> s]
  BY <1>1
<1> QED BY <1>1, <1>2 DEF IsBuilt

\* The same with other values.
LEMMA PlacingIs ==
  ASSUME NEW b, IsBuilt(b), NEW s
  PROVE  /\ [b EXCEPT !.params = s].params = s /\ [b EXCEPT !.params = s].sql = b.sql
         /\ [b EXCEPT !.params = s].n = b.n /\ [b EXCEPT !.params = s].error = b.error
         /\ IsBuilt([b EXCEPT !.params = s])
<1> DEFINE sql == b.sql
           params == b.params
           n == b.n
           error == b.error
<1>1. b = [sql |-> sql, params |-> params, n |-> n, error |-> error]
  BY DEF IsBuilt
<1> HIDE DEF sql, params, n, error
<1>2. [b EXCEPT !.params = s] = [sql |-> sql, params |-> s, n |-> n, error |-> error]
  BY <1>1
<1> QED BY <1>1, <1>2 DEF IsBuilt

\* A statement made of several.
LEMMA SayingFits ==
  ASSUME NEW b, IsBuilt(b), ~b.error, NEW n \in Nat, b.params \in ListsOf,
         Counted(n, b.params, b.n), NEW c, NEW things, c \in things, NEW item, NEW fit,
         \A list \in ListsOf : Agrees(list, n, b.params) => <<c, item, list>> \in fit
  PROVE  Fits([b EXCEPT !.sql = <<c>>], things, <<item>>, 1, n, fit)
<1> SUFFICES ASSUME NEW r, r = [b EXCEPT !.sql = <<c>>]
             PROVE  Fits(r, things, <<item>>, 1, n, fit)
  OBVIOUS
<1>1. r.sql = <<c>> /\ r.params = b.params /\ r.n = b.n /\ r.error = b.error
  BY SayingIs
<1>2. ~r.error /\ r.params \in ListsOf /\ Counted(n, r.params, r.n)
  BY <1>1
<1>3. \A list \in ListsOf : Agrees(list, n, r.params) => <<c, item, list>> \in fit
  BY <1>1
<1> QED BY <1>1, <1>2, <1>3, OneFits

\* A clause fits when its conditions do.
LEMMA WhereFits ==
  ASSUME NEW d \in Nat, NEW handle, NEW where \in Seq(AskedFor(d)), NEW n \in Nat,
         \A e \in AskedFor(d), m \in Nat :
           Fits(handle[e][m], Clean(d), <<e>>, 1, m, NodeFit(d))
  PROVE  LET b == WhereBuild(handle, where, n) IN
           /\ IsBuilt(b) /\ ~b.error /\ b.params \in ListsOf /\ Counted(n, b.params, b.n)
           /\ b.sql \in Seq(Clean(d)) /\ Len(b.sql) = Len(where)
           /\ \A list \in ListsOf :
                Agrees(list, n, b.params) => <<b.sql, where, list>> \in ClauseFit(d)
<1> SUFFICES ASSUME NEW b, b = WhereBuild(handle, where, n)
             PROVE  /\ IsBuilt(b) /\ ~b.error /\ b.params \in ListsOf
                    /\ Counted(n, b.params, b.n)
                    /\ b.sql \in Seq(Clean(d)) /\ Len(b.sql) = Len(where)
                    /\ \A list \in ListsOf :
                         Agrees(list, n, b.params) => <<b.sql, where, list>> \in ClauseFit(d)
  OBVIOUS
<1>1. IsBuilt(b)
  BY ChainIsBuilt DEF WhereBuild
<1>2. Fits(b, Clean(d), where, Len(where), n, NodeFit(d))
  BY ChainFits DEF WhereBuild
<1>3. /\ ~b.error /\ b.params \in ListsOf /\ Counted(n, b.params, b.n)
      /\ b.sql \in Seq(Clean(d)) /\ Len(b.sql) = Len(where)
      /\ \A list \in ListsOf : Agrees(list, n, b.params) =>
           \A i \in 1 .. Len(where) : <<b.sql[i], where[i], list>> \in NodeFit(d)
  BY <1>2 DEF Fits
<1>4. ASSUME NEW list \in ListsOf, Agrees(list, n, b.params)
      PROVE  <<b.sql, where, list>> \in ClauseFit(d)
  <2> SUFFICES ASSUME NEW s, s = b.sql PROVE <<s, where, list>> \in ClauseFit(d)
    OBVIOUS
  <2>1. s \in Seq(Clean(d)) /\ Len(s) = Len(where)
    BY <1>3
  <2>2. \A i \in 1 .. Len(where) : <<s[i], where[i], list>> \in NodeFit(d)
    BY <1>3, <1>4
  <2> QED BY <2>1, <2>2, ClauseFits
<1> QED BY <1>1, <1>3, <1>4

\* So does one that is a branch of an "and" or "or".
LEMMA BranchFits ==
  ASSUME NEW d \in Nat, NEW handle, NEW where \in Seq(AskedFor(d)), where # <<>>, NEW n \in Nat,
         \A e \in AskedFor(d), m \in Nat :
           Fits(handle[e][m], Clean(d), <<e>>, 1, m, NodeFit(d))
  PROVE  Fits(Branch(handle, where, n), Seq(Clean(d)) \ {<<>>}, <<where>>, 1, n, ClauseFit(d))
<1> SUFFICES ASSUME NEW b, b = WhereBuild(handle, where, n), NEW s, s = b.sql,
                    NEW T, T = Seq(Clean(d)) \ {<<>>}
             PROVE  Fits(Branch(handle, where, n), T, <<where>>, 1, n, ClauseFit(d))
  OBVIOUS
<1>1. /\ IsBuilt(b) /\ ~b.error /\ b.params \in ListsOf /\ Counted(n, b.params, b.n)
      /\ s \in Seq(Clean(d)) /\ Len(s) = Len(where)
      /\ \A list \in ListsOf : Agrees(list, n, b.params) => <<s, where, list>> \in ClauseFit(d)
  BY WhereFits
<1>2. s # <<>> /\ s \in T
  <2>1. Len(s) # 0
    BY <1>1, NotEmpty
  <2> QED BY <1>1, <2>1, NotEmpty
<1>3. Branch(handle, where, n) = [b EXCEPT !.sql = <<s>>]
  BY <1>2 DEF Branch
<1>4. Fits([b EXCEPT !.sql = <<s>>], T, <<where>>, 1, n, ClauseFit(d))
  BY <1>1, <1>2, SayingFits
<1> QED BY <1>3, <1>4

\* The "and" or "or" of clauses whose conditions fit.
LEMMA AndOrFits ==
  ASSUME NEW d \in Nat, NEW handle, NEW key \in {"and", "or"}, NEW clauses \in Clauses(AskedFor(d)),
         NEW n \in Nat,
         \A e \in AskedFor(d), m \in Nat :
           Fits(handle[e][m], Clean(d), <<e>>, 1, m, NodeFit(d))
  PROVE  Fits(HandleAndOr(handle, key, clauses, n), Clean(d + 1),
              <<[is |-> key, branches |-> clauses]>>, 1, n, NodeFit(d + 1))
<1>1. /\ Len(clauses) \in Nat /\ DOMAIN clauses = 1 .. Len(clauses)
      /\ clauses \in Seq(Seq(AskedFor(d)) \ {<<>>}) /\ clauses # <<>>
      /\ \A i \in 1 .. Len(clauses) : clauses[i] \in Seq(AskedFor(d)) /\ clauses[i] # <<>>
  BY ClausesAre
<1> DEFINE Item == {clauses[i] : i \in DOMAIN clauses}
           branch == [where \in Item |-> [m \in Nat |-> Branch(handle, where, m)]]
           found == Chain(branch, clauses, n)
           T == Seq(Clean(d)) \ {<<>>}
<1>2. Fits(found, T, clauses, Len(clauses), n, ClauseFit(d))
  <2>1. ASSUME NEW where \in Item, NEW m \in Nat
        PROVE  Fits(branch[where][m], T, <<where>>, 1, m, ClauseFit(d))
    <3>1. branch[where][m] = Branch(handle, where, m)
      <4> HIDE DEF Item
      <4> QED OBVIOUS
    <3>2. where \in Seq(AskedFor(d)) /\ where # <<>>
      BY <1>1
    <3>3. Fits(Branch(handle, where, m), T, <<where>>, 1, m, ClauseFit(d))
      BY <3>2, BranchFits
    <3> HIDE DEF branch, T
    <3> QED BY <3>1, <3>3
  <2>2. clauses \in Seq(Item)
    <3>1. \A i \in 1 .. Len(clauses) : clauses[i] \in Item
      BY <1>1
    <3> HIDE DEF Item
    <3> QED BY <1>1, <3>1, ElementsAre
  <2> HIDE DEF Item, branch, T
  <2> QED BY <2>1, <2>2, ChainFits
<1>3. IsBuilt(found)
  <2> HIDE DEF branch
  <2> QED BY <1>1, ChainIsBuilt
<1>4. HandleAndOr(handle, key, clauses, n) =
        IF found.sql = <<>> THEN [Nothing(found.n) EXCEPT !.error = found.error]
        ELSE [found EXCEPT !.sql = <<[is |-> key, branches |-> found.sql]>>]
  BY DEF HandleAndOr
<1> HIDE DEF found, Item, branch
<1> SUFFICES ASSUME NEW bs, bs = found.sql, NEW c, c = [is |-> key, branches |-> bs],
                    NEW e, e = [is |-> key, branches |-> clauses]
             PROVE  Fits(HandleAndOr(handle, key, clauses, n), Clean(d + 1), <<e>>, 1, n,
                         NodeFit(d + 1))
  OBVIOUS
<1>5. /\ ~found.error /\ found.params \in ListsOf /\ Counted(n, found.params, found.n)
      /\ bs \in Seq(T) /\ Len(bs) = Len(clauses)
      /\ \A list \in ListsOf : Agrees(list, n, found.params) =>
           \A i \in 1 .. Len(clauses) : <<bs[i], clauses[i], list>> \in ClauseFit(d)
  BY <1>2 DEF Fits
<1>6. bs # <<>> /\ bs \in Clauses(Clean(d))
  <2>1. Len(bs) # 0
    BY <1>1, <1>5, NotEmpty
  <2>2. bs # <<>>
    BY <2>1, NotEmpty
  <2> QED BY <1>5, <2>2 DEF Clauses
<1>7. HandleAndOr(handle, key, clauses, n) = [found EXCEPT !.sql = <<c>>]
  BY <1>4, <1>6
<1>8. c \in Clean(d + 1)
  BY <1>6, NodeCondition DEF Clauses, Clean
<1>9. ASSUME NEW list \in ListsOf, Agrees(list, n, found.params)
      PROVE  <<c, e, list>> \in NodeFit(d + 1)
  <2>1. \A i \in 1 .. Len(clauses) : <<bs[i], clauses[i], list>> \in ClauseFit(d)
    BY <1>5, <1>9
  <2> QED BY <1>5, <1>6, <2>1, NodeFits
<1>10. Fits([found EXCEPT !.sql = <<c>>], Clean(d + 1), <<e>>, 1, n, NodeFit(d + 1))
  BY <1>3, <1>5, <1>8, <1>9, SayingFits
<1> QED BY <1>7, <1>10

\* What fits is among more things, and fits in more ways.
LEMMA FitsMore ==
  ASSUME NEW b, NEW things, NEW item, NEW n, NEW fit, Fits(b, things, <<item>>, 1, n, fit),
         NEW more, things \subseteq more, NEW other,
         \A c, list : <<c, item, list>> \in fit => <<c, item, list>> \in other
  PROVE  Fits(b, more, <<item>>, 1, n, other)
<1>1. /\ ~b.error /\ b.sql \in Seq(things) /\ Len(b.sql) = 1
      /\ b.params \in ListsOf /\ Counted(n, b.params, b.n)
      /\ \A list \in ListsOf : Agrees(list, n, b.params) =>
           \A i \in 1 .. 1 : <<b.sql[i], <<item>>[i], list>> \in fit
  BY DEF Fits
<1>2. b.sql \in Seq(more)
  <2> SUFFICES ASSUME NEW s, s = b.sql PROVE s \in Seq(more)
    OBVIOUS
  <2>1. s \in Seq(things)
    BY <1>1
  <2> QED BY <2>1, ElementIs, ElementsAre
<1>3. ASSUME NEW list \in ListsOf, Agrees(list, n, b.params), NEW i \in 1 .. 1
      PROVE  <<b.sql[i], <<item>>[i], list>> \in other
  <2>1. <<item>>[i] = item
    OBVIOUS
  <2>2. <<b.sql[i], <<item>>[i], list>> \in fit
    BY <1>1, <1>3
  <2> QED BY <2>1, <2>2
<1> QED BY <1>1, <1>2, <1>3 DEF Fits

\* What is built of a plain condition says what it says, however deep.
LEMMA HandleKeysFit ==
  \A d \in Nat : \A e \in AskedFor(d), n \in Nat :
    Fits(HandleKeys[d][e][n], Clean(d), <<e>>, 1, n, NodeFit(d))
<1> DEFINE Fit(d) == \A e \in AskedFor(d), n \in Nat :
                       Fits(HandleKeys[d][e][n], Clean(d), <<e>>, 1, n, NodeFit(d))
           S == {d \in Nat : Fit(d)}
<1>1. 0 \in S
  BY ConditionDefined DEF AskedFor
<1>2. ASSUME NEW d \in S PROVE d + 1 \in S
  <2>1. d \in Nat /\ Fit(d)
    OBVIOUS
  <2>2. ASSUME NEW e \in AskedFor(d + 1), NEW n \in Nat
        PROVE  Fits(HandleKeys[d + 1][e][n], Clean(d + 1), <<e>>, 1, n, NodeFit(d + 1))
    <3>1. e \in Condition(Entry, {})[d + 1]
      <4>1. PlainEntry \subseteq Entry
        BY DEF PlainEntry
      <4>2. d + 1 \in Nat
        BY <2>1
      <4>3. Condition(PlainEntry, {<<>>})[d + 1] \subseteq Condition(Entry, {})[d + 1]
        BY <4>1, <4>2, ConditionGrows
      <4> QED BY <4>3 DEF AskedFor
    <3>2. e \in PlainEntry \/ IsNode(e, AskedFor(d), {<<>>})
      BY <2>1, ConditionCases DEF AskedFor
    <3>3. /\ e.is \in {"and", "or"} =>
               HandleKeys[d + 1][e][n] = HandleAndOr(HandleKeys[d], e.is, e.branches, n)
          /\ e.is = "value" /\ e.key \in Column =>
               HandleKeys[d + 1][e][n] = HandleValue(e.key, e.value, n)
          /\ e.is = "object" /\ e.key \in Column =>
               HandleKeys[d + 1][e][n] = HandleObjectValue(e.key, e.ops, n)
      <4>1. d + 1 \in Nat /\ d + 1 - 1 = d
        BY <2>1
      <4> QED BY <3>1, <4>1, HandleKeysDefined
    <3>4. CASE e \in PlainEntry
      <4>1. e.key \in Column /\ e.is \in {"value", "object"}
        <5>1. e \in Entry /\ e.key \in Column
          BY <3>4 DEF PlainEntry
        <5>2. e.is \in {"value"} \/ e.is \in {"object"}
          BY <5>1 DEF Entry
        <5> QED BY <5>1, <5>2
      <4>2. Fits(HandleKeys[d + 1][e][n], Comparison, <<e>>, 1, n, LeafFit)
        BY <3>3, <3>4, <4>1, ValueFits, ObjectFits
      <4>3. Comparison \subseteq Clean(d + 1)
        BY <2>1, LeafCondition DEF Clean
      <4>4. \A c, list : <<c, e, list>> \in LeafFit => <<c, e, list>> \in NodeFit(d + 1)
        BY <2>1, LeafFits
      <4> QED BY <4>2, <4>3, <4>4, FitsMore
    <3>5. CASE IsNode(e, AskedFor(d), {<<>>})
      <4>1. /\ e.is \in {"and", "or"} /\ e = [is |-> e.is, branches |-> e.branches]
            /\ e.branches \in Clauses(AskedFor(d))
        BY <3>5 DEF IsNode, Clauses
      <4>2. Fits(HandleAndOr(HandleKeys[d], e.is, e.branches, n), Clean(d + 1),
                 <<[is |-> e.is, branches |-> e.branches]>>, 1, n, NodeFit(d + 1))
        BY <2>1, <4>1, AndOrFits
      <4> QED BY <3>3, <4>1, <4>2, Zenon
    <3> QED BY <3>2, <3>4, <3>5
  <2> QED BY <2>1, <2>2
<1>3. S = Nat
  <2> HIDE DEF S
  <2>1. S \in SUBSET Nat
    BY DEF S
  <2> QED BY <1>1, <1>2, <2>1, Induction
<1> QED BY <1>3

\* A filter fits, of one model.
LEMMA QueryFits ==
  ASSUME NEW where, Plain(where), NEW n \in Nat
  PROVE  Fits(QueryOf(where, n), Seq(Clean(MaxDepth)), <<where>>, 1, n, ClauseFit(MaxDepth))
<1> SUFFICES ASSUME NEW h, h = HandleKeys[MaxDepth], NEW b, b = WhereBuild(h, where, n),
                    NEW s, s = b.sql
             PROVE  Fits(QueryOf(where, n), Seq(Clean(MaxDepth)), <<where>>, 1, n,
                         ClauseFit(MaxDepth))
  OBVIOUS
<1>1. MaxDepth \in Nat /\ where \in Seq(AskedFor(MaxDepth))
  BY QueryBuilderAssumption DEF Plain, AskedFor
<1>2. /\ IsBuilt(b) /\ ~b.error /\ b.params \in ListsOf /\ Counted(n, b.params, b.n)
      /\ s \in Seq(Clean(MaxDepth)) /\ Len(s) = Len(where)
      /\ \A list \in ListsOf :
           Agrees(list, n, b.params) => <<s, where, list>> \in ClauseFit(MaxDepth)
  <2>1. \A e \in AskedFor(MaxDepth), m \in Nat :
          Fits(h[e][m], Clean(MaxDepth), <<e>>, 1, m, NodeFit(MaxDepth))
    BY <1>1, HandleKeysFit
  <2> QED BY <1>1, <2>1, WhereFits
<1>3. QueryOf(where, n) = [b EXCEPT !.sql = <<s>>]
  BY DEF QueryOf
<1>4. Fits([b EXCEPT !.sql = <<s>>], Seq(Clean(MaxDepth)), <<where>>, 1, n, ClauseFit(MaxDepth))
  BY <1>2, SayingFits
<1> QED BY <1>3, <1>4

\* The list of all values has those of the clauses after the text that is searched for.
LEMMA AllValues ==
  ASSUME NEW ps \in ListsOf
  PROVE  <<AnObject>> \o ps \in ListsOf /\ Agrees(<<AnObject>> \o ps, 1, ps)
<1> SUFFICES ASSUME NEW q, q = <<AnObject>>, NEW r, r = q \o ps
             PROVE  r \in ListsOf /\ Agrees(r, 1, ps)
  OBVIOUS
<1>1. q \in ListsOf /\ Len(q) = 1
  BY DEF ListsOf
<1>2. r \in ListsOf /\ Joined(r, q, ps)
  BY <1>1, ConcatIs DEF ListsOf
<1>3. \A k \in 1 .. Len(ps) : 1 + k \in 1 .. Len(r) /\ r[1 + k] = ps[k]
  BY <1>1, <1>2 DEF Joined
<1> QED BY <1>2, <1>3 DEF Agrees

\* What is built of plain filters says what they say.
Says(b, wheres) ==
  /\ ~b.error /\ b.params \in ListsOf /\ Len(b.sql) = Len(wheres)
  /\ b.sql \in Seq(Seq(Clean(MaxDepth)))
  /\ \A i \in 1 .. Len(wheres) : <<b.sql[i], wheres[i], b.params>> \in ClauseFit(MaxDepth)

\* Filters fit, of all models.
LEMMA BuildFits ==
  ASSUME NEW wheres \in Seq(Where(MaxDepth)), \A i \in DOMAIN wheres : Plain(wheres[i])
  PROVE  Says(Build(wheres), wheres)
<1> DEFINE build == [where \in Where(MaxDepth) |-> [n \in Nat |-> QueryOf(where, n)]]
           q == Chain(build, wheres, 1)
           T == Seq(Clean(MaxDepth))
           Item == {where \in Where(MaxDepth) : Plain(where)}
<1>1. Len(wheres) \in Nat /\ DOMAIN wheres = 1 .. Len(wheres)
      /\ \A i \in 1 .. Len(wheres) : wheres[i] \in Where(MaxDepth)
  BY ElementIs
<1>2. wheres \in Seq(Item)
  <2>1. \A i \in 1 .. Len(wheres) : wheres[i] \in Item
    BY <1>1
  <2> HIDE DEF Item
  <2> QED BY <2>1, ElementsAre
<1>3. ASSUME NEW where \in Item, NEW n \in Nat
      PROVE  Fits(build[where][n], T, <<where>>, 1, n, ClauseFit(MaxDepth))
  <2>1. where \in Where(MaxDepth) /\ Plain(where)
    OBVIOUS
  <2>2. build[where][n] = QueryOf(where, n)
    <3> HIDE DEF Item
    <3> QED BY <2>1
  <2>3. Fits(QueryOf(where, n), T, <<where>>, 1, n, ClauseFit(MaxDepth))
    BY <2>1, QueryFits
  <2> HIDE DEF build, T
  <2> QED BY <2>2, <2>3
<1>4. Fits(q, T, wheres, Len(wheres), 1, ClauseFit(MaxDepth))
  <2> HIDE DEF build, T, Item
  <2> QED BY <1>2, <1>3, ChainFits
<1>5. IsBuilt(q)
  <2> HIDE DEF build
  <2> QED BY <1>1, ChainIsBuilt
<1>6. Build(wheres) = [q EXCEPT !.params = <<AnObject>> \o q.params]
  BY DEF Build
<1> HIDE DEF q, build, T
<1> SUFFICES ASSUME NEW s, s = q.sql, NEW ps, ps = q.params,
                    NEW list, list = <<AnObject>> \o ps,
                    NEW b, b = [q EXCEPT !.params = list]
             PROVE  Says(b, wheres)
  BY <1>6, Zenon
<1>7. /\ ~q.error /\ s \in Seq(T) /\ Len(s) = Len(wheres) /\ ps \in ListsOf
      /\ \A l \in ListsOf : Agrees(l, 1, ps) =>
           \A i \in 1 .. Len(wheres) : <<s[i], wheres[i], l>> \in ClauseFit(MaxDepth)
  BY <1>4 DEF Fits
<1>8. list \in ListsOf /\ Agrees(list, 1, ps)
  BY <1>7, AllValues
<1>9. \A i \in 1 .. Len(wheres) : <<s[i], wheres[i], list>> \in ClauseFit(MaxDepth)
  BY <1>7, <1>8
<1>10. b.sql = s /\ b.params = list /\ b.error = q.error
  BY <1>5, PlacingIs
<1> QED BY <1>7, <1>8, <1>9, <1>10 DEF Says, T

-----------------------------------------------------------------------------
(* Types.                                                                    *)

\* A list of things, values, a number of placeholders.
IsBuiltOf(b, things) ==
  /\ IsBuilt(b)
  /\ b.sql \in Seq(things) /\ b.params \in ListsOf /\ b.n \in Nat /\ b.error \in BOOLEAN

\* It stays so with another word on whether it is an error.
LEMMA FailingTyped ==
  ASSUME NEW things, NEW b, IsBuiltOf(b, things), NEW e \in BOOLEAN
  PROVE  IsBuiltOf([b EXCEPT !.error = e], things)
<1>1. IsBuilt(b) /\ b.sql \in Seq(things) /\ b.params \in ListsOf /\ b.n \in Nat
  BY DEF IsBuiltOf
<1> SUFFICES ASSUME NEW r, r = [b EXCEPT !.error = e] PROVE IsBuiltOf(r, things)
  OBVIOUS
<1>2. /\ r.sql = b.sql /\ r.params = b.params /\ r.n = b.n /\ r.error = e
      /\ IsBuilt(r)
  BY <1>1, FailingIs
<1> QED BY <1>1, <1>2 DEF IsBuiltOf

\* What is built of nothing, and of what is refused.
LEMMA NothingTyped ==
  ASSUME NEW things, NEW n \in Nat
  PROVE  IsBuiltOf(Nothing(n), things) /\ IsBuiltOf(BadRequest(n), things)
<1>1. <<>> \in Seq(things) /\ <<>> \in ListsOf
  BY DEF ListsOf
<1>2. IsBuiltOf(Nothing(n), things)
  <2>1. /\ Nothing(n).sql = <<>> /\ Nothing(n).params = <<>> /\ Nothing(n).n = n
        /\ Nothing(n).error = FALSE /\ IsBuilt(Nothing(n))
    BY DEF Nothing, IsBuilt
  <2> QED BY <1>1, <2>1 DEF IsBuiltOf
<1>3. BadRequest(n) = [Nothing(n) EXCEPT !.error = TRUE]
  BY DEF BadRequest
<1> QED BY <1>2, <1>3, FailingTyped

\* One statement.
LEMMA StatementTyped ==
  ASSUME NEW things, NEW c \in things, NEW params \in ListsOf, NEW n \in Nat
  PROVE  IsBuiltOf(Statement(c, params, n), things)
<1> SUFFICES ASSUME NEW b, b = Statement(c, params, n) PROVE IsBuiltOf(b, things)
  OBVIOUS
<1>1. /\ b.sql = <<c>> /\ b.params = params /\ b.n = n /\ b.error = FALSE /\ IsBuilt(b)
  BY DEF Statement, Nothing, IsBuilt
<1>2. <<c>> \in Seq(things)
  OBVIOUS
<1> QED BY <1>1, <1>2 DEF IsBuiltOf

\* One thing after another, as many as both.
LEMMA ThenTyped ==
  ASSUME NEW things, NEW a, IsBuiltOf(a, things), NEW b, IsBuiltOf(b, things)
  PROVE  IsBuiltOf(Then(a, b), things) /\ Joined(Then(a, b).sql, a.sql, b.sql)
<1> SUFFICES ASSUME NEW c, c = Then(a, b)
             PROVE  IsBuiltOf(c, things) /\ Joined(c.sql, a.sql, b.sql)
  OBVIOUS
<1>1. /\ a.sql \in Seq(things) /\ a.params \in ListsOf /\ a.error \in BOOLEAN
      /\ b.sql \in Seq(things) /\ b.params \in ListsOf /\ b.n \in Nat /\ b.error \in BOOLEAN
  BY DEF IsBuiltOf
<1>2. /\ c.sql = a.sql \o b.sql /\ c.params = a.params \o b.params /\ c.n = b.n
      /\ c.error = (a.error \/ b.error) /\ IsBuilt(c)
  BY DEF Then, IsBuilt
<1>3. c.sql \in Seq(things) /\ Joined(c.sql, a.sql, b.sql)
  <2>1. a.sql \o b.sql \in Seq(things) /\ Joined(a.sql \o b.sql, a.sql, b.sql)
    BY <1>1, ConcatIs
  <2> QED BY <1>2, <2>1, Zenon
<1>4. c.params \in ListsOf
  <2>1. a.params \o b.params \in ListsOf
    BY <1>1, ConcatIs DEF ListsOf
  <2> QED BY <1>2, <2>1
<1>5. c.n \in Nat /\ c.error \in BOOLEAN
  BY <1>1, <1>2
<1> QED BY <1>2, <1>3, <1>4, <1>5 DEF IsBuiltOf

\* One for each item, when each gives one.
LEMMA ChainTyped ==
  ASSUME NEW things, NEW Item, NEW items \in Seq(Item), NEW n \in Nat, NEW build,
         \A item \in Item, m \in Nat : IsBuiltOf(build[item][m], things)
  PROVE  /\ IsBuiltOf(Chain(build, items, n), things)
         /\ (\A item \in Item, m \in Nat : Len(build[item][m].sql) = 1) =>
              Len(Chain(build, items, n).sql) = Len(items)
<1>1. Len(items) \in Nat /\ \A k \in 1 .. Len(items) : items[k] \in Item
  BY ElementIs
<1>2. PICK done : StepsOf(done, build, items, n)
  BY <1>1, ChainDefined
<1> DEFINE One == \A item \in Item, m \in Nat : Len(build[item][m].sql) = 1
           Is(k) == IsBuiltOf(done[k], things) /\ (One => Len(done[k].sql) = k)
           S == {k \in Nat : k <= Len(items) => Is(k)}
<1>3. 0 \in S
  <2>1. done[0] = Nothing(n)
    BY <1>2 DEF StepsOf
  <2>2. IsBuiltOf(Nothing(n), things) /\ Nothing(n).sql = <<>>
    BY NothingTyped, NothingIs
  <2>3. Is(0)
    <3>1. Len(done[0].sql) = 0
      BY <2>1, <2>2
    <3> HIDE DEF One
    <3> QED BY <2>1, <2>2, <3>1
  <2> HIDE DEF Is
  <2> QED BY <2>3
<1>4. ASSUME NEW k \in S PROVE k + 1 \in S
  <2> SUFFICES ASSUME k + 1 <= Len(items) PROVE Is(k + 1)
    OBVIOUS
  <2>1. k \in Nat /\ k + 1 \in 1 .. Len(items) /\ Is(k)
    <3> HIDE DEF Is
    <3> QED BY <1>1
  <2> SUFFICES ASSUME NEW a, a = done[k], NEW b, b = build[items[k + 1]][a.n]
               PROVE  Is(k + 1)
    OBVIOUS
  <2>2. done[k + 1] = Then(a, b)
    BY <1>2, <2>1 DEF StepsOf
  <2>3. IsBuiltOf(a, things) /\ a.n \in Nat
    BY <2>1 DEF IsBuiltOf
  <2>4. IsBuiltOf(b, things)
    BY <1>1, <2>1, <2>3
  <2>5. IsBuiltOf(done[k + 1], things)
    BY <2>2, <2>3, <2>4, ThenTyped
  <2>6. ASSUME One PROVE Len(done[k + 1].sql) = k + 1
    <3>1. Len(a.sql) = k /\ Len(b.sql) = 1
      BY <1>1, <2>1, <2>3, <2>6
    <3>2. Joined(done[k + 1].sql, a.sql, b.sql)
      BY <2>2, <2>3, <2>4, ThenTyped
    <3> SUFFICES ASSUME NEW s, s = done[k + 1].sql, NEW p, Len(p) = k, NEW q, Len(q) = 1,
                        Joined(s, p, q)
                 PROVE  Len(s) = k + 1
      BY <3>1, <3>2, Zenon
    <3> HIDE DEF S
    <3> QED BY <2>1 DEF Joined
  <2> HIDE DEF One
  <2> QED BY <2>5, <2>6
<1>5. S = Nat
  <2> HIDE DEF S
  <2>1. S \in SUBSET Nat
    BY DEF S
  <2> QED BY <1>3, <1>4, <2>1, Induction
<1>6. Is(Len(items))
  <2> HIDE DEF Is
  <2> QED BY <1>1, <1>5
<1>7. Chain(build, items, n) = done[Len(items)]
  BY <1>2 DEF StepsOf
<1> QED BY <1>6, <1>7

\* A comparison is one.
LEMMA ComparisonIs ==
  ASSUME NEW is \in Operators \union {"eq", "null"}, NEW column \in Column, NEW at \in Seq(Nat)
  PROVE  [is |-> is, column |-> column, at |-> at] \in Comparison
BY DEF Comparison

\* What is built of an entry on a column.
LEMMA ValueTyped ==
  ASSUME NEW column \in Column, NEW value \in Value, NEW n \in Nat
  PROVE  IsBuiltOf(HandleValue(column, value, n), Comparison)
<1>2. CASE value.at = Null
  <2>1. HandleValue(column, value, n)
          = Statement([is |-> "null", column |-> column, at |-> <<>>], <<>>, n)
    BY <1>2 DEF HandleValue
  <2>2. [is |-> "null", column |-> column, at |-> <<>>] \in Comparison
    <3>1. <<>> \in Seq(Nat) /\ "null" \in Operators \union {"eq", "null"}
      OBVIOUS
    <3> QED BY <3>1, ComparisonIs
  <2>3. <<>> \in ListsOf
    BY DEF ListsOf
  <2> QED BY <2>1, <2>2, <2>3, StatementTyped
<1>3. CASE value.at # Null /\ IsDate(column, value)
  <2>1. HandleValue(column, value, n)
          = Statement([is |-> "eq", column |-> column, at |-> <<n + 2>>], <<AnObject>>, n + 2)
    BY <1>3 DEF HandleValue
  <2>2. [is |-> "eq", column |-> column, at |-> <<n + 2>>] \in Comparison
    <3>1. <<n + 2>> \in Seq(Nat)
      OBVIOUS
    <3> QED BY <3>1, ComparisonIs
  <2>3. <<AnObject>> \in ListsOf /\ n + 2 \in Nat
    BY DEF ListsOf
  <2> QED BY <2>1, <2>2, <2>3, StatementTyped
<1>4. CASE value.at # Null /\ ~IsDate(column, value)
  <2>1. HandleValue(column, value, n)
          = Statement([is |-> "eq", column |-> column, at |-> <<n + 1>>], <<value.at>>, n + 1)
    BY <1>4 DEF HandleValue
  <2>2. [is |-> "eq", column |-> column, at |-> <<n + 1>>] \in Comparison
    <3>1. <<n + 1>> \in Seq(Nat)
      OBVIOUS
    <3> QED BY <3>1, ComparisonIs
  <2>3. <<value.at>> \in ListsOf /\ n + 1 \in Nat
    <3>1. value.at \in Point
      BY <1>4 DEF Value
    <3> QED BY <3>1 DEF ListsOf
  <2> QED BY <2>1, <2>2, <2>3, StatementTyped
<1> QED BY <1>2, <1>3, <1>4

\* So is what is built of an operator.
LEMMA ObjectTyped ==
  ASSUME NEW column \in Column, NEW ops \in Seq([op: STRING, values: Seq(Value)]), NEW n \in Nat
  PROVE  IsBuiltOf(HandleObjectValue(column, ops, n), Comparison)
<1>1. CASE ops = <<>>
  BY <1>1, NothingTyped DEF HandleObjectValue
<1>2. CASE ops # <<>>
  <2> SUFFICES ASSUME NEW op, op = ops[1].op, NEW values, values = ops[1].values
               PROVE  IsBuiltOf(HandleObjectValue(column, ops, n), Comparison)
    OBVIOUS
  <2>1. values \in Seq(Value)
    <3> DEFINE T == [op: STRING, values: Seq(Value)]
    <3>1. 1 \in 1 .. Len(ops)
      BY <1>2
    <3>2. ops[1] \in T
      <4>1. ops \in Seq(T)
        OBVIOUS
      <4> HIDE DEF T
      <4> QED BY <3>1, <4>1, ElementIs
    <3> QED BY <3>2
  <2> DEFINE c == [is |-> op, column |-> column, at |-> Placeholders(column, values, n)]
             b == Statement(c, Points(values), n + Len(values))
  <2>2. ASSUME op \in Operators PROVE IsBuiltOf(b, Comparison)
    <3>1. c \in Comparison
      <4>1. Placeholders(column, values, n) \in Seq(Nat)
        <5> SUFFICES ASSUME NEW at, at = Placeholders(column, values, n),
                            NEW L, L = Len(values)
                     PROVE  at \in Seq(Nat)
          OBVIOUS
        <5>1. Places(at, values, n, L) /\ L \in Nat
          BY <2>1, PlaceholdersFit, ElementIs
        <5>2. at \in [1 .. L -> n + 1 .. n + L]
          BY <5>1 DEF Places
        <5>3. at \in [1 .. L -> Nat]
          BY <5>1, <5>2
        <5> QED BY <5>1, <5>3, FunctionIsSequence
      <4> HIDE DEF c
      <4> SUFFICES ASSUME NEW at \in Seq(Nat), at = Placeholders(column, values, n)
                   PROVE  c \in Comparison
        BY <4>1
      <4> QED BY <2>2 DEF Comparison, c
    <3>2. Points(values) \in ListsOf
      <4>1. Points(values) = [i \in 1 .. Len(values) |-> values[i].at] /\ Len(values) \in Nat
        BY <2>1, ElementIs DEF Points
      <4>2. \A i \in 1 .. Len(values) : values[i].at \in Point \union {Null, AnObject}
        <5>1. \A i \in 1 .. Len(values) : values[i] \in Value
          BY <2>1, ElementIs
        <5> QED BY <5>1 DEF Value
      <4> QED BY <4>1, <4>2 DEF ListsOf
    <3>3. n + Len(values) \in Nat
      BY <2>1
    <3> HIDE DEF c
    <3> QED BY <3>1, <3>2, <3>3, StatementTyped
  <2>3. HandleObjectValue(column, ops, n) =
          CASE op = "between" /\ Len(values) # 2 -> BadRequest(n)
            [] op \in {"inq", "nin"} /\ values = <<>> -> Nothing(n)
            [] op \notin Operators -> BadRequest(n)
            [] OTHER -> b
    BY <1>2 DEF HandleObjectValue
  <2> HIDE DEF b
  <2>4. \/ HandleObjectValue(column, ops, n) \in {BadRequest(n), Nothing(n)}
        \/ op \in Operators /\ HandleObjectValue(column, ops, n) = b
    BY <2>3
  <2> QED BY <2>2, <2>4, NothingTyped
<1> QED BY <1>1, <1>2

\* What is built stays so with another text, or with other values.
LEMMA SayingTyped ==
  ASSUME NEW things, NEW b, IsBuiltOf(b, things), NEW T, NEW s \in Seq(T)
  PROVE  IsBuiltOf([b EXCEPT !.sql = s], T)
<1>1. IsBuilt(b) /\ b.params \in ListsOf /\ b.n \in Nat /\ b.error \in BOOLEAN
  BY DEF IsBuiltOf
<1> SUFFICES ASSUME NEW r, r = [b EXCEPT !.sql = s] PROVE IsBuiltOf(r, T)
  OBVIOUS
<1>2. /\ r.sql = s /\ r.params = b.params /\ r.n = b.n /\ r.error = b.error
      /\ IsBuilt(r)
  BY <1>1, SayingIs
<1> QED BY <1>1, <1>2 DEF IsBuiltOf

LEMMA PlacingTyped ==
  ASSUME NEW things, NEW b, IsBuiltOf(b, things), NEW list \in ListsOf
  PROVE  /\ IsBuiltOf([b EXCEPT !.params = list], things)
         /\ [b EXCEPT !.params = list].sql = b.sql
<1>1. IsBuilt(b) /\ b.sql \in Seq(things) /\ b.n \in Nat /\ b.error \in BOOLEAN
  BY DEF IsBuiltOf
<1> SUFFICES ASSUME NEW r, r = [b EXCEPT !.params = list]
             PROVE  IsBuiltOf(r, things) /\ r.sql = b.sql
  OBVIOUS
<1>2. /\ r.sql = b.sql /\ r.params = list /\ r.n = b.n /\ r.error = b.error
      /\ IsBuilt(r)
  BY <1>1, PlacingIs
<1> QED BY <1>1, <1>2 DEF IsBuiltOf

\* Of more things, too.
LEMMA TypedMore ==
  ASSUME NEW b, NEW things, IsBuiltOf(b, things), NEW more, things \subseteq more
  PROVE  IsBuiltOf(b, more)
<1>1. b.sql \in Seq(more)
  <2> SUFFICES ASSUME NEW s, s = b.sql PROVE s \in Seq(more)
    OBVIOUS
  <2>1. s \in Seq(things)
    BY DEF IsBuiltOf
  <2> QED BY <2>1, ElementIs, ElementsAre
<1> QED BY <1>1 DEF IsBuiltOf

\* What is built of a clause, of an "and" or "or" of clauses, and of any condition.
LEMMA BranchTyped ==
  ASSUME NEW things, NEW Item, NEW where \in Seq(Item), NEW handle, NEW n \in Nat,
         \A e \in Item, m \in Nat : IsBuiltOf(handle[e][m], things)
  PROVE  IsBuiltOf(Branch(handle, where, n), Seq(things) \ {<<>>})
<1> SUFFICES ASSUME NEW b, b = WhereBuild(handle, where, n), NEW s, s = b.sql,
                    NEW T, T = Seq(things) \ {<<>>}
             PROVE  IsBuiltOf(Branch(handle, where, n), T)
  OBVIOUS
<1>1. IsBuiltOf(b, things)
  BY ChainTyped DEF WhereBuild
<1>2. IsBuilt(b) /\ s \in Seq(things) /\ b.params \in ListsOf /\ b.n \in Nat /\ b.error \in BOOLEAN
  BY <1>1 DEF IsBuiltOf
<1>3. CASE s = <<>>
  <2>1. Branch(handle, where, n) = b
    BY <1>3 DEF Branch
  <2>2. s \in Seq(T)
    BY <1>3
  <2> QED BY <1>2, <2>1, <2>2 DEF IsBuiltOf
<1>4. CASE s # <<>>
  <2>1. <<s>> \in Seq(T)
    <3>1. s \in T
      BY <1>2, <1>4
    <3> QED BY <3>1
  <2>2. Branch(handle, where, n) = [b EXCEPT !.sql = <<s>>]
    BY <1>4 DEF Branch
  <2>3. IsBuiltOf([b EXCEPT !.sql = <<s>>], T)
    BY <1>1, <2>1, SayingTyped
  <2> QED BY <2>2, <2>3
<1> QED BY <1>3, <1>4

\* The "and" or "or" of clauses.
LEMMA AndOrTyped ==
  ASSUME NEW things, NEW Item, NEW clauses \in Seq(Seq(Item)), NEW key \in {"and", "or"},
         NEW handle, NEW n \in Nat,
         \A e \in Item, m \in Nat : IsBuiltOf(handle[e][m], things),
         NEW more, \A bs \in Clauses(things) : [is |-> key, branches |-> bs] \in more
  PROVE  IsBuiltOf(HandleAndOr(handle, key, clauses, n), more)
<1>1. /\ Len(clauses) \in Nat /\ DOMAIN clauses = 1 .. Len(clauses)
      /\ \A i \in 1 .. Len(clauses) : clauses[i] \in Seq(Item)
  BY ElementIs
<1> DEFINE Used == {clauses[i] : i \in DOMAIN clauses}
           branch == [where \in Used |-> [m \in Nat |-> Branch(handle, where, m)]]
           found == Chain(branch, clauses, n)
           T == Seq(things) \ {<<>>}
<1>2. IsBuiltOf(found, T)
  <2>1. ASSUME NEW where \in Used, NEW m \in Nat PROVE IsBuiltOf(branch[where][m], T)
    <3>1. branch[where][m] = Branch(handle, where, m)
      <4> HIDE DEF Used
      <4> QED OBVIOUS
    <3>2. where \in Seq(Item)
      BY <1>1
    <3>3. IsBuiltOf(Branch(handle, where, m), T)
      BY <3>2, BranchTyped
    <3> HIDE DEF branch, T
    <3> QED BY <3>1, <3>3
  <2>2. clauses \in Seq(Used)
    <3>1. \A i \in 1 .. Len(clauses) : clauses[i] \in Used
      BY <1>1
    <3> HIDE DEF Used
    <3> QED BY <1>1, <3>1, ElementsAre
  <2> HIDE DEF Used, branch, T
  <2> QED BY <2>1, <2>2, ChainTyped
<1>3. HandleAndOr(handle, key, clauses, n) =
        IF found.sql = <<>> THEN [Nothing(found.n) EXCEPT !.error = found.error]
        ELSE [found EXCEPT !.sql = <<[is |-> key, branches |-> found.sql]>>]
  BY DEF HandleAndOr
<1> HIDE DEF found, Used, branch
<1> SUFFICES ASSUME NEW bs, bs = found.sql
             PROVE  IsBuiltOf(HandleAndOr(handle, key, clauses, n), more)
  OBVIOUS
<1>4. bs \in Seq(T) /\ found.n \in Nat /\ found.error \in BOOLEAN
  BY <1>2 DEF IsBuiltOf
<1>5. CASE bs = <<>>
  <2>1. IsBuiltOf([Nothing(found.n) EXCEPT !.error = found.error], more)
    BY <1>4, NothingTyped, FailingTyped
  <2> QED BY <1>3, <1>5, <2>1
<1>6. CASE bs # <<>>
  <2> SUFFICES ASSUME NEW c, c = [is |-> key, branches |-> bs]
               PROVE  IsBuiltOf([found EXCEPT !.sql = <<c>>], more)
    BY <1>3, <1>6
  <2>1. c \in more
    BY <1>4, <1>6 DEF Clauses
  <2>2. <<c>> \in Seq(more)
    BY <2>1
  <2> QED BY <1>2, <2>2, SayingTyped
<1> QED BY <1>5, <1>6

\* What is built of any condition is made of comparisons and clauses that say something.
LEMMA HandleKeysTyped ==
  \A d \in Nat : \A e \in Condition(Entry, {})[d], n \in Nat :
    IsBuiltOf(HandleKeys[d][e][n], Clean(d))
<1> DEFINE Typed(d) == \A e \in Condition(Entry, {})[d], n \in Nat :
                         IsBuiltOf(HandleKeys[d][e][n], Clean(d))
           S == {d \in Nat : Typed(d)}
<1>1. 0 \in S
  BY ConditionDefined
<1>2. ASSUME NEW d \in S PROVE d + 1 \in S
  <2>1. d \in Nat /\ Typed(d)
    OBVIOUS
  <2>2. ASSUME NEW e \in Condition(Entry, {})[d + 1], NEW n \in Nat
        PROVE  IsBuiltOf(HandleKeys[d + 1][e][n], Clean(d + 1))
    <3> SUFFICES ASSUME NEW b, b = HandleKeys[d + 1][e][n] PROVE IsBuiltOf(b, Clean(d + 1))
      OBVIOUS
    <3>1. /\ e.is \in {"and", "or"} => b = HandleAndOr(HandleKeys[d], e.is, e.branches, n)
          /\ e.is \notin {"and", "or"} /\ e.key \notin Column => b = BadRequest(n)
          /\ e.is = "value" /\ e.key \in Column => b = HandleValue(e.key, e.value, n)
          /\ e.is = "object" /\ e.key \in Column => b = HandleObjectValue(e.key, e.ops, n)
      <4>1. d + 1 \in Nat /\ d + 1 - 1 = d
        BY <2>1
      <4> QED BY <4>1, HandleKeysDefined
    <3>2. e \in Entry \/ IsNode(e, Condition(Entry, {})[d], {})
      BY <2>1, ConditionCases
    <3>3. CASE e \in Entry
      <4>1. \/ e.is = "value" /\ e.value \in Value
            \/ e.is = "object" /\ e.ops \in Seq([op: STRING, values: Seq(Value)])
        BY <3>3 DEF Entry
      <4>2. IsBuiltOf(b, Comparison)
        <5>1. CASE e.key \notin Column
          BY <3>1, <4>1, <5>1, NothingTyped
        <5>2. CASE e.key \in Column /\ e.is = "value" /\ e.value \in Value
          BY <3>1, <5>2, ValueTyped
        <5>3. CASE e.key \in Column /\ e.is = "object"
                   /\ e.ops \in Seq([op: STRING, values: Seq(Value)])
          BY <3>1, <5>3, ObjectTyped
        <5> QED BY <4>1, <5>1, <5>2, <5>3
      <4>3. Comparison \subseteq Clean(d + 1)
        BY <2>1, LeafCondition DEF Clean
      <4> QED BY <4>2, <4>3, TypedMore
    <3>4. CASE IsNode(e, Condition(Entry, {})[d], {})
      <4>1. e.is \in {"and", "or"} /\ e.branches \in Seq(Seq(Condition(Entry, {})[d]))
        <5> SUFFICES ASSUME NEW C, C = Condition(Entry, {})[d]
                     PROVE  e.is \in {"and", "or"} /\ e.branches \in Seq(Seq(C))
          OBVIOUS
        <5>1. e.is \in {"and", "or"} /\ e.branches \in Seq(Seq(C) \ {}) \ {}
          BY <3>4 DEF IsNode
        <5>2. Seq(C) \ {} = Seq(C) /\ Seq(Seq(C)) \ {} = Seq(Seq(C))
          OBVIOUS
        <5> QED BY <5>1, <5>2
      <4>2. \A bs \in Clauses(Clean(d)) : [is |-> e.is, branches |-> bs] \in Clean(d + 1)
        BY <2>1, <4>1, NodeCondition DEF Clauses, Clean
      <4>3. IsBuiltOf(HandleAndOr(HandleKeys[d], e.is, e.branches, n), Clean(d + 1))
        BY <2>1, <4>1, <4>2, AndOrTyped
      <4> QED BY <3>1, <4>1, <4>3
    <3> QED BY <3>2, <3>3, <3>4
  <2> QED BY <2>1, <2>2
<1>3. S = Nat
  <2> HIDE DEF S
  <2>1. S \in SUBSET Nat
    BY DEF S
  <2> QED BY <1>1, <1>2, <2>1, Induction
<1> QED BY <1>3

\* What is built of a filter is one text.
LEMMA QueryTyped ==
  ASSUME NEW where \in Where(MaxDepth), NEW n \in Nat
  PROVE  IsBuiltOf(QueryOf(where, n), Sql(MaxDepth)) /\ Len(QueryOf(where, n).sql) = 1
<1> SUFFICES ASSUME NEW h, h = HandleKeys[MaxDepth], NEW b, b = WhereBuild(h, where, n),
                    NEW s, s = b.sql
             PROVE  IsBuiltOf(QueryOf(where, n), Sql(MaxDepth))
                    /\ Len(QueryOf(where, n).sql) = 1
  OBVIOUS
<1>1. IsBuiltOf(b, Clean(MaxDepth))
  <2>1. where \in Seq(Condition(Entry, {})[MaxDepth]) /\ MaxDepth \in Nat
    BY QueryBuilderAssumption DEF Where
  <2>2. \A e \in Condition(Entry, {})[MaxDepth], m \in Nat :
          IsBuiltOf(h[e][m], Clean(MaxDepth))
    BY <2>1, HandleKeysTyped
  <2> QED BY <2>1, <2>2, ChainTyped DEF WhereBuild
<1>2. s \in Sql(MaxDepth) /\ IsBuilt(b)
  BY <1>1 DEF IsBuiltOf, Sql, Clean
<1>3. QueryOf(where, n) = [b EXCEPT !.sql = <<s>>]
  BY DEF QueryOf
<1>4. <<s>> \in Seq(Sql(MaxDepth)) /\ Len(<<s>>) = 1
  BY <1>2
<1>5. IsBuiltOf([b EXCEPT !.sql = <<s>>], Sql(MaxDepth))
  BY <1>1, <1>4, SayingTyped
<1>6. [b EXCEPT !.sql = <<s>>].sql = <<s>>
  BY <1>2, SayingIs
<1> QED BY <1>3, <1>4, <1>5, <1>6

\* What is built of filters is one text for each.
LEMMA BuildTyped ==
  ASSUME NEW wheres \in Seq(Where(MaxDepth))
  PROVE  IsBuiltOf(Build(wheres), Sql(MaxDepth)) /\ Len(Build(wheres).sql) = Len(wheres)
<1> DEFINE build == [where \in Where(MaxDepth) |-> [n \in Nat |-> QueryOf(where, n)]]
           q == Chain(build, wheres, 1)
<1>1. ASSUME NEW where \in Where(MaxDepth), NEW n \in Nat
      PROVE  IsBuiltOf(build[where][n], Sql(MaxDepth)) /\ Len(build[where][n].sql) = 1
  <2>1. build[where][n] = QueryOf(where, n)
    OBVIOUS
  <2> HIDE DEF build
  <2> QED BY <2>1, QueryTyped
<1>2. IsBuiltOf(q, Sql(MaxDepth)) /\ Len(q.sql) = Len(wheres)
  <2> HIDE DEF build
  <2> QED BY <1>1, ChainTyped
<1>3. Build(wheres) = [q EXCEPT !.params = <<AnObject>> \o q.params]
  BY DEF Build
<1> HIDE DEF q, build
<1> SUFFICES ASSUME NEW list, list = <<AnObject>> \o q.params,
                    NEW b, b = [q EXCEPT !.params = list]
             PROVE  IsBuiltOf(b, Sql(MaxDepth)) /\ Len(b.sql) = Len(wheres)
  BY <1>3, Zenon
<1>4. list \in ListsOf
  <2>1. q.params \in ListsOf
    BY <1>2 DEF IsBuiltOf
  <2> QED BY <2>1, AllValues
<1>5. IsBuiltOf(b, Sql(MaxDepth)) /\ b.sql = q.sql
  BY <1>2, <1>4, PlacingTyped
<1> QED BY <1>2, <1>5

-----------------------------------------------------------------------------
(* The property.                                                             *)

\* What is built is what was asked for, if anything was.
BuildInv ==
  \/ asked = <<>> /\ built = Nothing(1)
  \/ asked \in Seq(Where(MaxDepth)) /\ built = Build(asked)

\* It stays so.
LEMMA BuildInvariant == BuildInv /\ [BuilderNext]_builderVars => BuildInv'
<1> SUFFICES ASSUME BuildInv, [BuilderNext]_builderVars PROVE BuildInv'
  OBVIOUS
<1>1. CASE BuilderNext
  <2>1. PICK wheres \in Filters : asked' = wheres /\ built' = Build(wheres)
    BY <1>1 DEF BuilderNext, AskFor
  <2>2. wheres \in Seq(Where(MaxDepth))
    BY QueryBuilderAssumption
  <2> QED BY <2>1, <2>2 DEF BuildInv
<1>2. CASE UNCHANGED builderVars
  BY <1>2 DEF BuildInv, builderVars
<1> QED BY <1>1, <1>2

\* The type, as the type invariant says it.
LEMMA RecordTyped ==
  ASSUME NEW b, NEW things, IsBuiltOf(b, things)
  PROVE  b \in [sql: Seq(things), params: Seq(Point \union {Null, AnObject}), n: Nat,
                error: BOOLEAN]
BY DEF IsBuiltOf, IsBuilt, ListsOf

\* For any columns, values and filters, nested however deep: of filters without those
\* PlainOp and PlainEntry leave out the SQL text with its numbered placeholders and the
\* list of their values selects the rows the filters mean.
THEOREM FilterMeansWhatIsAsked == BuilderSpec => []FindsWhatIsAsked
<1>1. BuilderInit => BuildInv
  BY DEF BuilderInit, BuildInv
<1>2. BuildInv => FindsWhatIsAsked
  <2>1. CASE asked = <<>> /\ built = Nothing(1)
    <3>1. ~built.error
      BY <2>1, NothingIs
    <3>2. DOMAIN asked = {}
      BY <2>1
    <3> QED BY <3>1, <3>2 DEF FindsWhatIsAsked
  <2>2. CASE asked \in Seq(Where(MaxDepth)) /\ built = Build(asked)
    <3> SUFFICES ASSUME \A i \in DOMAIN asked : Plain(asked[i])
                 PROVE  /\ ~built.error
                        /\ \A i \in DOMAIN asked :
                             /\ Bound(built.sql[i], built.params)
                             /\ \A row \in Row : Selects(built.sql[i], built.params, row)
                                                   <=> Means(asked[i], row)
      BY DEF FindsWhatIsAsked, Row
    <3>1. Says(built, asked)
      BY <2>2, BuildFits
    <3>2. ~built.error /\ DOMAIN asked = 1 .. Len(asked)
      BY <2>2, <3>1, ElementIs DEF Says
    <3>3. ASSUME NEW i \in DOMAIN asked
          PROVE  /\ Bound(built.sql[i], built.params)
                 /\ \A row \in Row : Selects(built.sql[i], built.params, row)
                                       <=> Means(asked[i], row)
      <4> SUFFICES ASSUME NEW s, s = built.sql[i], NEW where, where = asked[i],
                          NEW list, list = built.params
                   PROVE  /\ Bound(s, list)
                          /\ \A row \in Row : Selects(s, list, row) <=> Means(where, row)
        OBVIOUS
      <4>1. <<s, where, list>> \in ClauseFit(MaxDepth)
        BY <3>1, <3>2 DEF Says
      <4>2. /\ s \in Seq(Condition(Valued(list), {})[MaxDepth])
            /\ \A row \in Row :
                 s \in Seq(Holding(Comparison, Trues(list, row))[MaxDepth])
                   <=> where \in Seq(Holding(Entry, Meant(row))[MaxDepth])
        BY <4>1 DEF ClauseFit
      <4>3. Bound(s, list)
        BY <4>2 DEF Bound, Valued
      <4>4. ASSUME NEW row \in Row PROVE Selects(s, list, row) <=> Means(where, row)
        BY <4>2 DEF Selects, Means, Trues, Meant
      <4> QED BY <4>3, <4>4
    <3> QED BY <3>2, <3>3
  <2> QED BY <2>1, <2>2 DEF BuildInv
<1> QED BY <1>1, <1>2, BuildInvariant, PTL DEF BuilderSpec

\* What is built are as many SQL texts as models are searched, made of comparisons and
\* of clauses that are not empty, values of columns, and a number of placeholders.
THEOREM BuilderTypes == BuilderSpec => []BuilderTypeOK
<1>1. BuilderInit => BuildInv
  BY DEF BuilderInit, BuildInv
<1>2. BuildInv => BuilderTypeOK
  <2>1. CASE asked = <<>> /\ built = Nothing(1)
    <3>1. asked \in Seq(Where(MaxDepth)) /\ Len(asked) = 0
      BY <2>1
    <3>2. IsBuiltOf(built, Sql(MaxDepth)) /\ Len(built.sql) = 0
      BY <2>1, NothingTyped, NothingIs
    <3> QED BY <3>1, <3>2, RecordTyped DEF BuilderTypeOK
  <2>2. CASE asked \in Seq(Where(MaxDepth)) /\ built = Build(asked)
    <3>1. IsBuiltOf(built, Sql(MaxDepth)) /\ Len(built.sql) = Len(asked)
      BY <2>2, BuildTyped
    <3> QED BY <2>2, <3>1, RecordTyped DEF BuilderTypeOK
  <2> QED BY <2>1, <2>2 DEF BuildInv
<1> QED BY <1>1, <1>2, BuildInvariant, PTL DEF BuilderSpec

=============================================================================
