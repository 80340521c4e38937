----------------------------- MODULE PartsProofs -----------------------------
(***************************************************************************)
(* Theorems about the components that share no state with another: what    *)
(* the Recorder exports is capped and accounted for, a shard is called     *)
(* ready only when it is, a measurement waits long enough and is not slept *)
(* through, the traffic reported is the traffic there was, the reports of  *)
(* a sweep (retention, departure, fit) are what the costs were, the log of *)
(* a status table is its timeline, and an exit status of 0 means that      *)
(* every check ran.                                                        *)
(***************************************************************************)
EXTENDS Telemetry, Settling, Throughput, ShardCaches, Traffic, Progress, Verify, Sweep,
        FiniteSetTheorems, SequenceTheorems, WellFoundedInduction, TLAPS

-----------------------------------------------------------------------------
(* Induction, over the subsets of a finite set and over the numbers, from the  *)
(* library's well-founded orders.                                              *)

\* A property of sets that each subset of a finite set has when all those with
\* one element less have it.  The property is a set, so that it can be given.
LEMMA SubsetInduction ==
  ASSUME NEW S, IsFiniteSet(S), NEW G,
         \A s \in SUBSET S : (\A x \in s : s \ {x} \in G) => s \in G
  PROVE  \A s \in SUBSET S : s \in G
<1> DEFINE rest == {s \in SUBSET S : s \notin G}
<1>1. IsWellFoundedOn(StrictSubsetOrdering(S), FiniteSubsetsOf(S))
  BY FS_StrictSubsetOrderingWellFounded
<1>2. rest \subseteq FiniteSubsetsOf(S)
  BY FS_FiniteSubsetsOfFinite
<1>3. ASSUME rest # {} PROVE FALSE
  <2>1. PICK s \in rest : \A t \in rest : <<t, s>> \notin StrictSubsetOrdering(S)
    <3> HIDE DEF rest
    <3>1. QED
      BY <1>1, <1>2, <1>3, WFMin
  <2>2. \A t \in rest : ~(t \subseteq s /\ t # s)
    BY <2>1 DEF StrictSubsetOrdering
  <2>3. \A x \in s : s \ {x} \in G
    BY <2>2
  <2>4. QED
    BY <2>3
<1>4. QED
  BY <1>3

\* The same for the numbers up to n.
LEMMA UpToInduction ==
  ASSUME NEW G, 0 \in G, \A n \in Nat : n \in G => n + 1 \in G
  PROVE  \A n \in Nat : n \in G
<1> DEFINE Smaller == {ss \in Nat \X Nat : ss[1] < ss[2]}
           rest == {n \in Nat : n \notin G}
<1>1. IsWellFoundedOn(Smaller, Nat)
  BY NatLessThanWellFounded DEF OpToRel
<1>2. ASSUME rest # {} PROVE FALSE
  <2>1. PICK n \in rest : \A m \in rest : <<m, n>> \notin Smaller
    <3>1. rest \subseteq Nat
      OBVIOUS
    <3> HIDE DEF rest, Smaller
    <3>2. QED
      BY <1>1, <1>2, <3>1, WFMin
  <2>2. \A m \in rest : ~(m < n)
    BY <2>1
  <2>3. n - 1 \in Nat /\ n - 1 \notin rest
    BY <2>2
  <2>4. QED
    BY <2>3
<1>3. QED
  BY <1>2

LEMMA FunctionIsSeq ==
  ASSUME NEW S, NEW n \in Nat, NEW f \in [1..n -> S] PROVE f \in Seq(S)
BY SeqDef

\* A function defined by recursion over the numbers up to N exists.
IsRecursion(f, N, V, base, nxt) ==
  /\ f \in [0..N -> V] /\ f[0] = base
  /\ \A n \in 1..N : f[n] = nxt[n][f[n - 1]]

LEMMA RecursionExists ==
  ASSUME NEW N \in Nat, NEW V, NEW base \in V, NEW nxt, \A n \in 1..N, v \in V : nxt[n][v] \in V
  PROVE  \E f : IsRecursion(f, N, V, base, nxt)
<1> DEFINE Upto(n, f) == /\ f \in [0..n -> V] /\ f[0] = base
                         /\ \A i \in 1..n : f[i] = nxt[i][f[i - 1]]
           G == {n \in Nat : n <= N => \E f : Upto(n, f)}
<1>1. 0 \in G
  <2>1. Upto(0, [i \in 0..0 |-> base])
    OBVIOUS
  <2>2. \E f : Upto(0, f)
    BY <2>1
  <2>3. QED
    BY <2>2
<1>2. ASSUME NEW n \in Nat, n \in G PROVE n + 1 \in G
  <2>1. ASSUME n + 1 <= N PROVE \E f : Upto(n + 1, f)
    <3>1. PICK g : Upto(n, g)
      BY <1>2, <2>1
    <3> DEFINE h == [i \in 0..n + 1 |-> IF i <= n THEN g[i] ELSE nxt[n + 1][g[n]]]
    <3>2. n + 1 \in 1..N /\ g[n] \in V /\ nxt[n + 1][g[n]] \in V
      BY <2>1, <3>1
    <3>3. ASSUME NEW i \in 0..n + 1 PROVE (IF i <= n THEN g[i] ELSE nxt[n + 1][g[n]]) \in V
      BY <3>1, <3>2
    <3>4. h \in [0..n + 1 -> V] /\ h[0] = base
      BY <3>1, <3>3
    <3>5. ASSUME NEW i \in 1..n + 1 PROVE h[i] = nxt[i][h[i - 1]]
      <4>1. h[i - 1] = g[i - 1] /\ (i <= n => h[i] = g[i] /\ i \in 1..n)
            /\ (~(i <= n) => i = n + 1 /\ i - 1 = n /\ h[i] = nxt[n + 1][g[n]])
        OBVIOUS
      <4> HIDE DEF h
      <4>2. QED
        BY <3>1, <4>1
    <3>6. Upto(n + 1, h)
      BY <3>4, <3>5
    <3>7. QED
      BY <3>6
  <2>2. QED
    <3> HIDE DEF Upto
    <3>1. QED
      BY <2>1
<1>3. N \in G
  <2> HIDE DEF G
  <2>1. QED
    BY <1>1, <1>2, UpToInduction
<1>4. QED
  BY <1>3 DEF IsRecursion

-----------------------------------------------------------------------------
(* Sums over a finite set.  The library folds with a function defined on the   *)
(* subsets; that it satisfies its own equation comes first.                    *)

FirstOf(s) == CHOOSE x \in s : TRUE

\* One step of a sum.
SumStep(f, g, s) == IF s = {} THEN 0 ELSE f[FirstOf(s)] + g[s \ {FirstOf(s)}]

PartialSums(f, S) == CHOOSE g : g = [s \in SUBSET S |-> SumStep(f, g, s)]

LEMMA FirstIsIn == \A s : s # {} => FirstOf(s) \in s
BY DEF FirstOf

LEMMA SumIsPartialSum ==
  ASSUME NEW f, NEW S
  PROVE  SumFunctionOnSet(f, S) = PartialSums(f, S)[S]
BY DEF SumFunctionOnSet, FoldFunctionOnSet, MapThenFoldSet, PartialSums, SumStep, FirstOf

\* A function that follows the equation on the subsets of at most n elements.
FollowsUpTo(f, S, n, g) ==
  \A s \in SUBSET S : Cardinality(s) <= n => g[s] = SumStep(f, g, s)

LEMMA SumStepUpTo ==
  ASSUME NEW f, NEW S, IsFiniteSet(S), NEW n \in Nat, NEW g, FollowsUpTo(f, S, n, g)
  PROVE  FollowsUpTo(f, S, n + 1,
           [s \in SUBSET S |-> IF Cardinality(s) <= n THEN g[s] ELSE SumStep(f, g, s)])
<1> DEFINE h == [s \in SUBSET S |-> IF Cardinality(s) <= n THEN g[s] ELSE SumStep(f, g, s)]
<1> SUFFICES ASSUME NEW s \in SUBSET S, Cardinality(s) <= n + 1
             PROVE  h[s] = SumStep(f, h, s)
  BY DEF FollowsUpTo
<1>1. IsFiniteSet(s) /\ Cardinality(s) \in Nat
  BY FS_Subset, FS_CardinalityType
<1>2. h[s] = SumStep(f, g, s)
  BY DEF FollowsUpTo
<1>3. ASSUME s # {} PROVE h[s \ {FirstOf(s)}] = g[s \ {FirstOf(s)}]
  <2>1. FirstOf(s) \in s /\ s \ {FirstOf(s)} \in SUBSET S
    BY <1>3, FirstIsIn
  <2>2. Cardinality(s \ {FirstOf(s)}) <= n
    <3>1. Cardinality(s \ {FirstOf(s)}) = Cardinality(s) - 1
      BY <1>1, <2>1, FS_RemoveElement
    <3>2. QED
      BY <1>1, <3>1
  <2>3. QED
    BY <2>1, <2>2
<1>4. QED
  <2> HIDE DEF h
  <2>1. QED
    BY <1>2, <1>3 DEF SumStep

\* The fold's recursive function satisfies its own equation.
LEMMA PartialSumsExist ==
  ASSUME NEW f, NEW S, IsFiniteSet(S)
  PROVE  PartialSums(f, S) = [s \in SUBSET S |-> SumStep(f, PartialSums(f, S), s)]
<1> DEFINE G == {n \in Nat : \E g : FollowsUpTo(f, S, n, g)}
<1>1. 0 \in G
  <2> DEFINE g == [s \in SUBSET S |-> 0]
  <2>1. \A s \in SUBSET S : Cardinality(s) <= 0 => s = {}
    BY FS_Subset, FS_CardinalityType, FS_EmptySet
  <2>2. FollowsUpTo(f, S, 0, g)
    BY <2>1 DEF FollowsUpTo, SumStep
  <2>3. QED
    BY <2>2
<1>2. ASSUME NEW n \in Nat, n \in G PROVE n + 1 \in G
  <2>1. PICK g : FollowsUpTo(f, S, n, g)
    BY <1>2
  <2>2. \E h : FollowsUpTo(f, S, n + 1, h)
    BY <2>1, SumStepUpTo
  <2>3. QED
    BY <2>2
<1>3. Cardinality(S) \in G
  <2>1. Cardinality(S) \in Nat
    BY FS_CardinalityType
  <2> HIDE DEF G
  <2>2. QED
    BY <1>1, <1>2, <2>1, UpToInduction
<1>4. PICK g : FollowsUpTo(f, S, Cardinality(S), g)
  BY <1>3
<1> DEFINE h == [s \in SUBSET S |-> g[s]]
<1>5. ASSUME NEW s \in SUBSET S PROVE h[s] = SumStep(f, h, s)
  <2>1. g[s] = SumStep(f, g, s)
    BY <1>4, FS_Subset DEF FollowsUpTo
  <2>2. h[s] = g[s] /\ h[s \ {FirstOf(s)}] = g[s \ {FirstOf(s)}]
    OBVIOUS
  <2> HIDE DEF h
  <2>3. QED
    BY <2>1, <2>2 DEF SumStep
<1>6. h = [s \in SUBSET S |-> SumStep(f, h, s)]
  BY <1>5
<1>7. QED
  <2> HIDE DEF h
  <2>1. QED
    BY <1>6 DEF PartialSums

LEMMA PartialSumsStep ==
  ASSUME NEW f, NEW S, IsFiniteSet(S), NEW s \in SUBSET S
  PROVE  PartialSums(f, S)[s] = SumStep(f, PartialSums(f, S), s)
<1>1. ASSUME NEW h, h = [t \in SUBSET S |-> SumStep(f, h, t)]
      PROVE  h[s] = SumStep(f, h, s)
  BY <1>1
<1>2. QED
  BY <1>1, PartialSumsExist

\* What is summed up over a set does not depend on the set around it.
LEMMA PartialSumsAgree ==
  ASSUME NEW f, NEW S, IsFiniteSet(S), NEW T \in SUBSET S
  PROVE  PartialSums(f, S)[T] = SumFunctionOnSet(f, T)
<1> DEFINE G == {s \in SUBSET T : PartialSums(f, S)[s] = PartialSums(f, T)[s]}
<1>1. IsFiniteSet(T)
  BY FS_Subset
<1>2. ASSUME NEW s \in SUBSET T, \A x \in s : s \ {x} \in G
      PROVE  s \in G
  <2>1. /\ PartialSums(f, S)[s] = SumStep(f, PartialSums(f, S), s)
        /\ PartialSums(f, T)[s] = SumStep(f, PartialSums(f, T), s)
    BY <1>1, PartialSumsStep
  <2>2. s # {} => s \ {FirstOf(s)} \in G
    BY <1>2, FirstIsIn
  <2>3. QED
    BY <2>1, <2>2 DEF SumStep
<1>3. T \in G
  <2> HIDE DEF G
  <2>1. QED
    BY <1>1, <1>2, SubsetInduction
<1>4. QED
  BY <1>3, SumIsPartialSum

LEMMA SumOfNone == ASSUME NEW f PROVE SumFunctionOnSet(f, {}) = 0
BY PartialSumsStep, SumIsPartialSum, FS_EmptySet DEF SumStep

LEMMA SumOfSome ==
  ASSUME NEW f, NEW S, IsFiniteSet(S), S # {}
  PROVE  SumFunctionOnSet(f, S) = f[FirstOf(S)] + SumFunctionOnSet(f, S \ {FirstOf(S)})
<1>1. SumFunctionOnSet(f, S) = f[FirstOf(S)] + PartialSums(f, S)[S \ {FirstOf(S)}]
  <2>1. SumFunctionOnSet(f, S) = PartialSums(f, S)[S]
    BY SumIsPartialSum
  <2>2. PartialSums(f, S)[S] = SumStep(f, PartialSums(f, S), S)
    BY PartialSumsStep
  <2>3. QED
    BY <2>1, <2>2 DEF SumStep
<1>2. QED
  BY <1>1, PartialSumsAgree

\* The values summed up are natural numbers.
NaturalOn(f, S) == \A x \in S : f[x] \in Nat

LEMMA SumIsNat ==
  ASSUME NEW f, NEW S, IsFiniteSet(S), NaturalOn(f, S)
  PROVE  SumFunctionOnSet(f, S) \in Nat
<1> DEFINE G == {s \in SUBSET S : SumFunctionOnSet(f, s) \in Nat}
<1>1. ASSUME NEW s \in SUBSET S, \A x \in s : s \ {x} \in G
      PROVE  s \in G
  <2>1. CASE s = {}
    BY <2>1, SumOfNone
  <2>2. CASE s # {}
    <3>1. FirstOf(s) \in s /\ IsFiniteSet(s)
      BY <2>2, FirstIsIn, FS_Subset
    <3>2. f[FirstOf(s)] \in Nat /\ SumFunctionOnSet(f, s \ {FirstOf(s)}) \in Nat
      BY <1>1, <3>1 DEF NaturalOn
    <3>3. QED
      BY <2>2, <3>1, <3>2, SumOfSome
  <2>3. QED
    BY <2>1, <2>2
<1>2. QED
  <2> HIDE DEF G
  <2>1. \A s \in SUBSET S : s \in G
    BY <1>1, SubsetInduction, Zenon
  <2>2. QED
    BY <2>1 DEF G

\* Any element may be taken out first.
LEMMA SumTakes ==
  ASSUME NEW f, NEW S, IsFiniteSet(S), NaturalOn(f, S), NEW x \in S
  PROVE  SumFunctionOnSet(f, S) = f[x] + SumFunctionOnSet(f, S \ {x})
<1> DEFINE G == {s \in SUBSET S : \A y \in s : SumFunctionOnSet(f, s)
                                    = f[y] + SumFunctionOnSet(f, s \ {y})}
<1>1. ASSUME NEW s \in SUBSET S, \A y \in s : s \ {y} \in G
      PROVE  s \in G
  <2> SUFFICES ASSUME NEW y \in s
               PROVE  SumFunctionOnSet(f, s) = f[y] + SumFunctionOnSet(f, s \ {y})
    OBVIOUS
  <2> DEFINE c == FirstOf(s)
  <2>1. /\ c \in s /\ IsFiniteSet(s) /\ IsFiniteSet((s \ {c}) \ {y})
        /\ SumFunctionOnSet(f, s) = f[c] + SumFunctionOnSet(f, s \ {c})
    BY FirstIsIn, FS_Subset, SumOfSome
  <2> HIDE DEF c
  <2>2. CASE y = c
    BY <2>1, <2>2
  <2>3. CASE y # c
    <3>1. /\ SumFunctionOnSet(f, s \ {c}) = f[y] + SumFunctionOnSet(f, (s \ {c}) \ {y})
          /\ SumFunctionOnSet(f, s \ {y}) = f[c] + SumFunctionOnSet(f, (s \ {y}) \ {c})
      <4>1. s \ {c} \in G /\ s \ {y} \in G /\ y \in s \ {c} /\ c \in s \ {y}
        BY <1>1, <2>1, <2>3
      <4>2. QED
        BY <4>1
    <3>2. SumFunctionOnSet(f, (s \ {y}) \ {c}) = SumFunctionOnSet(f, (s \ {c}) \ {y})
      <4>1. (s \ {y}) \ {c} = (s \ {c}) \ {y}
        OBVIOUS
      <4>2. QED
        BY <4>1
    <3>3. f[c] \in Nat /\ f[y] \in Nat /\ SumFunctionOnSet(f, (s \ {c}) \ {y}) \in Nat
      <4>1. NaturalOn(f, (s \ {c}) \ {y})
        BY DEF NaturalOn
      <4>2. QED
        BY <2>1, <4>1, SumIsNat DEF NaturalOn
    <3>4. SumFunctionOnSet(f, s) = f[c] + SumFunctionOnSet(f, s \ {c})
      BY <2>1
    <3>5. QED
      BY <3>1, <3>2, <3>3, <3>4
  <2>4. QED
    BY <2>2, <2>3
<1>2. S \in G
  <2> HIDE DEF G
  <2>1. QED
    BY <1>1, SubsetInduction
<1>3. QED
  BY <1>2

\* The sum is of the values, not of the function that holds them.
SameOn(f, g, S) == \A x \in S : f[x] = g[x]

LEMMA SumAgrees ==
  ASSUME NEW f, NEW g, NEW S, IsFiniteSet(S), SameOn(f, g, S)
  PROVE  SumFunctionOnSet(f, S) = SumFunctionOnSet(g, S)
<1> DEFINE G == {s \in SUBSET S : SumFunctionOnSet(f, s) = SumFunctionOnSet(g, s)}
<1>1. ASSUME NEW s \in SUBSET S, \A x \in s : s \ {x} \in G
      PROVE  s \in G
  <2>1. CASE s = {}
    BY <2>1, SumOfNone
  <2>2. CASE s # {}
    <3>1. FirstOf(s) \in s /\ IsFiniteSet(s)
      BY <2>2, FirstIsIn, FS_Subset
    <3>2. /\ f[FirstOf(s)] = g[FirstOf(s)]
          /\ SumFunctionOnSet(f, s \ {FirstOf(s)}) = SumFunctionOnSet(g, s \ {FirstOf(s)})
      BY <1>1, <3>1 DEF SameOn
    <3>3. QED
      BY <2>2, <3>1, <3>2, SumOfSome
  <2>3. QED
    BY <2>1, <2>2
<1>2. QED
  <2>1. \A s \in SUBSET S : (\A x \in s : s \ {x} \in G) => s \in G
    BY <1>1
  <2> HIDE DEF G
  <2>2. \A s \in SUBSET S : s \in G
    BY <2>1, SubsetInduction, Zenon
  <2>3. QED
    BY <2>2 DEF G

\* A part sums up to no more than the whole.
LEMMA SumOfPart ==
  ASSUME NEW f, NEW S, IsFiniteSet(S), NaturalOn(f, S), NEW T \in SUBSET S
  PROVE  SumFunctionOnSet(f, T) <= SumFunctionOnSet(f, S)
<1> DEFINE G == {s \in SUBSET S : T \subseteq s => SumFunctionOnSet(f, T) <= SumFunctionOnSet(f, s)}
<1>1. ASSUME NEW s \in SUBSET S, \A x \in s : s \ {x} \in G
      PROVE  s \in G
  <2> SUFFICES ASSUME T \subseteq s, T # s
               PROVE  SumFunctionOnSet(f, T) <= SumFunctionOnSet(f, s)
    <3>1. SumFunctionOnSet(f, T) \in Nat
      BY FS_Subset, SumIsNat DEF NaturalOn
    <3>2. QED
      BY <3>1
  <2>1. PICK x \in s : x \notin T
    OBVIOUS
  <2>2. IsFiniteSet(s) /\ IsFiniteSet(s \ {x}) /\ IsFiniteSet(T)
    BY FS_Subset
  <2>3. SumFunctionOnSet(f, s) = f[x] + SumFunctionOnSet(f, s \ {x})
    BY <2>2, SumTakes DEF NaturalOn
  <2>4. /\ f[x] \in Nat /\ SumFunctionOnSet(f, T) \in Nat
        /\ SumFunctionOnSet(f, s \ {x}) \in Nat
    BY <2>2, SumIsNat DEF NaturalOn
  <2>5. SumFunctionOnSet(f, T) <= SumFunctionOnSet(f, s \ {x})
    BY <1>1, <2>1
  <2>6. QED
    BY <2>3, <2>4, <2>5
<1>2. S \in G
  <2> HIDE DEF G
  <2>1. QED
    BY <1>1, SubsetInduction
<1>3. QED
  BY <1>2

-----------------------------------------------------------------------------
(* What is counted by name, as the Recorder and the sweep's Counter do. *)

\* A counter map, whose total is the sum of its counters.
IsCounterMap(c) == IsFiniteSet(DOMAIN c) /\ NaturalOn(c, DOMAIN c)

LEMMA TotalIsNat ==
  ASSUME NEW c, IsCounterMap(c)
  PROVE  SumFunction(c) \in Nat
BY SumIsNat DEF IsCounterMap, SumFunction

LEMMA TotalOfNone == ASSUME NEW c, DOMAIN c = {} PROVE SumFunction(c) = 0
BY SumOfNone DEF SumFunction

\* Without a counter, the total is less by what it held.
LEMMA TotalWithout ==
  ASSUME NEW c, IsCounterMap(c), NEW x
  PROVE  IsCounterMap(Without(c, x)) /\ SumFunction(c) = SumFunction(Without(c, x)) + CountOf(c, x)
<1> DEFINE rest == DOMAIN c \ {x}
<1>1. DOMAIN Without(c, x) = rest /\ IsFiniteSet(rest)
  BY FS_RemoveElement DEF Without, IsCounterMap
<1>2. SameOn(c, Without(c, x), rest) /\ NaturalOn(c, rest) /\ NaturalOn(Without(c, x), rest)
  BY DEF SameOn, Without, IsCounterMap, NaturalOn
<1>3. SumFunctionOnSet(c, rest) = SumFunction(Without(c, x))
  BY <1>1, <1>2, SumAgrees DEF SumFunction
<1>4. SumFunctionOnSet(c, rest) \in Nat
  BY <1>1, <1>2, SumIsNat
<1>5. SumFunction(c) = SumFunction(Without(c, x)) + CountOf(c, x)
  <2>1. CASE x \in DOMAIN c
    <3>1. SumFunctionOnSet(c, DOMAIN c) = c[x] + SumFunctionOnSet(c, rest)
      BY <2>1, SumTakes DEF IsCounterMap
    <3>2. c[x] \in Nat
      BY <2>1 DEF IsCounterMap, NaturalOn
    <3> HIDE DEF rest
    <3>3. QED
      BY <1>3, <1>4, <2>1, <3>1, <3>2 DEF CountOf, SumFunction
  <2>2. CASE x \notin DOMAIN c
    <3>1. rest = DOMAIN c
      BY <2>2
    <3> HIDE DEF rest
    <3>2. QED
      BY <1>3, <1>4, <2>2, <3>1 DEF CountOf, SumFunction
  <2>3. QED
    BY <2>1, <2>2
<1>6. QED
  BY <1>1, <1>2, <1>5 DEF IsCounterMap

\* A counter set to n adds n to the total of the others.
LEMMA TotalWithCount ==
  ASSUME NEW c, IsCounterMap(c), NEW x, NEW n \in Nat
  PROVE  /\ IsCounterMap(WithCount(c, x, n))
         /\ SumFunction(WithCount(c, x, n)) = SumFunction(c) - CountOf(c, x) + n
<1> DEFINE d == WithCount(c, x, n)
<1>1. DOMAIN d = DOMAIN c \cup {x} /\ d[x] = n
  BY DEF WithCount
<1>2. IsCounterMap(d)
  BY FS_AddElement DEF WithCount, IsCounterMap, NaturalOn
<1>3. Without(d, x) = Without(c, x)
  BY DEF WithCount, Without
<1>4. /\ SumFunction(d) = SumFunction(Without(c, x)) + n
      /\ SumFunction(c) = SumFunction(Without(c, x)) + CountOf(c, x)
  BY <1>1, <1>2, <1>3, TotalWithout DEF CountOf
<1>5. SumFunction(Without(c, x)) \in Nat /\ CountOf(c, x) \in Nat
  BY TotalWithout, TotalIsNat DEF CountOf, IsCounterMap, NaturalOn
<1>6. QED
  BY <1>2, <1>4, <1>5
-----------------------------------------------------------------------------
(* The Recorder, for any fleet, any cap and any loads. *)

USE DEF loadVars, seriesVars, failureVars

\* A counter for each of some of the workspaces.
CountersOfWorkspaces(f) ==
  DOMAIN f \subseteq Workspaces /\ \A w \in DOMAIN f : f[w] \in Nat

\* Adding or dropping a counter leaves a counter map.
LEMMA CounterMaps ==
  ASSUME NEW f, CountersOfWorkspaces(f), NEW w \in Workspaces
  PROVE  /\ CountOf(f, w) \in Nat
         /\ \A n \in Nat : /\ CountersOfWorkspaces(WithCount(f, w, n))
                           /\ DOMAIN WithCount(f, w, n) = DOMAIN f \cup {w}
         /\ CountersOfWorkspaces(Without(f, w))
         /\ DOMAIN Without(f, w) = DOMAIN f \ {w}
BY DEF CountersOfWorkspaces, CountOf, WithCount, Without

\* The ranking is a strict total order on the tracked workspaces.
LEMMA RankingIsTotal ==
  ASSUME CountersOfWorkspaces(load)
  PROVE  /\ \A v \in DOMAIN load : ~Precedes(v, v)
         /\ \A u, v, w \in DOMAIN load : Precedes(u, v) /\ Precedes(v, w) => Precedes(u, w)
         /\ \A v, w \in DOMAIN load : v # w => Precedes(v, w) \/ Precedes(w, v)
<1>1. DOMAIN load \subseteq Int /\ \A v \in DOMAIN load : load[v] \in Nat
  BY TelemetryAssumption DEF CountersOfWorkspaces
<1>2. QED
  BY <1>1 DEF Precedes

\* Two labelled workspaces never have the same number of workspaces ahead, so
\* at most TopN of them have fewer than TopN ahead.
LEMMA TopIsCapped ==
  ASSUME CountersOfWorkspaces(load)
  PROVE  IsFiniteSet(Top) /\ Cardinality(Top) <= TopN
<1> DEFINE rank == [w \in Top |-> Cardinality(Ahead(w))]
<1>1. IsFiniteSet(DOMAIN load)
  <2>1. DOMAIN load \in SUBSET Workspaces
    BY DEF CountersOfWorkspaces
  <2>2. QED
    BY <2>1, FS_Subset, TelemetryAssumption
<1>2. ASSUME NEW w \in DOMAIN load
      PROVE  IsFiniteSet(Ahead(w)) /\ Cardinality(Ahead(w)) \in Nat
  BY <1>1, FS_Subset, FS_CardinalityType DEF Ahead
<1>3. IsFiniteSet(0..(TopN - 1)) /\ Cardinality(0..(TopN - 1)) = TopN
  BY FS_Interval, TelemetryAssumption
<1>4. rank \in [Top -> 0..(TopN - 1)]
  BY <1>2, TelemetryAssumption DEF Top
<1>5. ASSUME NEW v \in Top, NEW w \in Top, Precedes(v, w)
      PROVE  Cardinality(Ahead(v)) < Cardinality(Ahead(w))
  <2>1. Ahead(v) \subseteq Ahead(w) /\ v \in Ahead(w) /\ v \notin Ahead(v)
    BY <1>5, RankingIsTotal DEF Ahead, Top
  <2>2. Ahead(v) # Ahead(w) /\ v \in DOMAIN load /\ w \in DOMAIN load
    BY <2>1 DEF Top
  <2>3. QED
    BY <1>2, <2>1, <2>2, FS_Subset
<1>6. IsInjective(rank)
  <2>1. ASSUME NEW v \in Top, NEW w \in Top, rank[v] = rank[w]
        PROVE  v = w
    <3>1. ~Precedes(v, w) /\ ~Precedes(w, v)
      BY <1>2, <1>5, <2>1 DEF Top
    <3>2. QED
      BY <3>1, RankingIsTotal DEF Top
  <2>2. QED
    BY <2>1 DEF IsInjective
<1>7. rank \in Injection(Top, 0..(TopN - 1))
  BY <1>4, <1>6 DEF Injection
<1>8. QED
  BY <1>3, <1>7, FS_Injection

-----------------------------------------------------------------------------

RecorderInv == TypeOK /\ CardinalityBounded /\ LabelsAreTracked /\ SeriesConserved

LEMMA InitRecorder == Init => RecorderInv
<1> SUFFICES ASSUME Init PROVE RecorderInv
  OBVIOUS
<1>1. DOMAIN load = {} /\ DOMAIN failuresByReason = {}
  BY DEF Init
<1>2. IsFiniteSet(labelled) /\ Cardinality(labelled) = 0
  BY FS_EmptySet DEF Init
<1>3. TypeOK
  BY <1>1 DEF Init, TypeOK
<1>4. CardinalityBounded /\ SeriesConserved
  BY <1>2, TelemetryAssumption DEF Init, CardinalityBounded, SeriesConserved
<1>5. LabelsAreTracked
  BY DEF Init, LabelsAreTracked
<1>6. QED
  BY <1>3, <1>4, <1>5 DEF RecorderInv

\* The labelled set is finite, which is what counting its series needs.
LEMMA LabelledIsFinite ==
  ASSUME TypeOK
  PROVE  IsFiniteSet(labelled) /\ Cardinality(labelled) \in Nat
<1>1. labelled \in SUBSET Workspaces
  BY DEF TypeOK
<1>2. QED
  BY <1>1, FS_Subset, FS_CardinalityType, TelemetryAssumption

\* A Snapshot retires the series it drops and exports the ones it adds: the
\* difference of the two counters follows the size of the labelled set.
LEMMA SnapshotConserves ==
  ASSUME RecorderInv, Snapshot
  PROVE  RecorderInv'
<1>1. CountersOfWorkspaces(load) /\ IsFiniteSet(labelled) /\ Cardinality(labelled) \in Nat
  BY LabelledIsFinite DEF RecorderInv, TypeOK, CountersOfWorkspaces
<1>2. IsFiniteSet(Top) /\ Cardinality(Top) <= TopN /\ Cardinality(Top) \in Nat
  BY <1>1, TopIsCapped, FS_CardinalityType
<1>3. /\ Cardinality(labelled \ Top) = Cardinality(labelled) - Cardinality(labelled \cap Top)
      /\ IsFiniteSet(labelled \ Top)
      /\ Cardinality(labelled \ Top) \in Nat
  BY <1>1, FS_Difference, FS_CardinalityType
<1>4. /\ Cardinality(Top \ labelled) = Cardinality(Top) - Cardinality(Top \cap labelled)
      /\ IsFiniteSet(Top \ labelled)
      /\ Cardinality(Top \ labelled) \in Nat
  BY <1>2, FS_Difference, FS_CardinalityType
<1>5. labelled \cap Top = Top \cap labelled /\ Cardinality(Top \cap labelled) \in Nat
  <2>1. IsFiniteSet(Top \cap labelled)
    BY <1>2, FS_Intersection
  <2>2. QED
    BY <2>1, FS_CardinalityType
<1>6. Top \subseteq DOMAIN load /\ DOMAIN load \subseteq Workspaces
  BY <1>1 DEF Top, CountersOfWorkspaces
<1>7. TypeOK'
  BY <1>3, <1>4, <1>6 DEF Snapshot, RecorderInv, TypeOK
<1>8. SeriesConserved'
  <2>1. /\ exported' = exported + Cardinality(Top \ labelled)
        /\ released' = released + Cardinality(labelled \ Top)
        /\ Cardinality(labelled') = Cardinality(Top)
    BY DEF Snapshot
  <2>2. exported = released + Cardinality(labelled) /\ released \in Nat
    BY DEF RecorderInv, TypeOK, SeriesConserved
  <2>3. Cardinality(labelled \cap Top) = Cardinality(Top \cap labelled)
    BY <1>5
  <2>4. exported' = released' + Cardinality(labelled')
    BY <1>1, <1>2, <1>3, <1>4, <1>5, <2>1, <2>2, <2>3
  <2>5. QED
    BY <2>4 DEF SeriesConserved
<1>9. CardinalityBounded' /\ LabelsAreTracked'
  BY <1>2, <1>6 DEF Snapshot, CardinalityBounded, LabelsAreTracked
<1>10. QED
  BY <1>7, <1>8, <1>9 DEF RecorderInv

\* Disengaged drops the label with the counter, and retires its series.
LEMMA DisengagedConserves ==
  ASSUME RecorderInv, NEW w \in Workspaces, Disengaged(w)
  PROVE  RecorderInv'
<1>1. CountersOfWorkspaces(load) /\ IsFiniteSet(labelled) /\ Cardinality(labelled) \in Nat
  BY LabelledIsFinite DEF RecorderInv, TypeOK, CountersOfWorkspaces
<1>2. /\ Cardinality(labelled \ {w}) =
           IF w \in labelled THEN Cardinality(labelled) - 1 ELSE Cardinality(labelled)
      /\ IsFiniteSet(labelled \ {w})
      /\ Cardinality(labelled \ {w}) \in Nat
  BY <1>1, FS_RemoveElement, FS_CardinalityType
<1>3. CountersOfWorkspaces(load') /\ DOMAIN load' = DOMAIN load \ {w}
  BY <1>1, CounterMaps DEF Disengaged
<1>4. TypeOK'
  BY <1>3 DEF Disengaged, RecorderInv, TypeOK, CountersOfWorkspaces
<1>5. LabelsAreTracked'
  BY <1>3 DEF Disengaged, RecorderInv, LabelsAreTracked
<1>6. CardinalityBounded' /\ SeriesConserved'
  BY <1>1, <1>2, TelemetryAssumption
     DEF Disengaged, RecorderInv, TypeOK, CardinalityBounded, SeriesConserved
<1>7. QED
  BY <1>4, <1>5, <1>6 DEF RecorderInv

\* The methods that leave the exported series alone only add counters.
LEMMA CountingConserves ==
  ASSUME RecorderInv, NEW w \in Workspaces, Engaged(w) \/ RecordReconcile(w)
  PROVE  RecorderInv'
<1>1. CountersOfWorkspaces(load)
  BY DEF RecorderInv, TypeOK, CountersOfWorkspaces
<1>2. CountersOfWorkspaces(load') /\ DOMAIN load' = DOMAIN load \cup {w}
  <2>1. CASE Engaged(w)
    BY <1>1, <2>1, CounterMaps DEF Engaged
  <2>2. CASE RecordReconcile(w)
    <3>1. CountOf(load, w) \in Nat
      BY <1>1, CounterMaps
    <3>2. CountOf(load, w) + 1 \in Nat
      BY <3>1
    <3>3. load' = WithCount(load, w, CountOf(load, w) + 1)
      BY <2>2 DEF RecordReconcile
    <3>4. QED
      BY <1>1, <3>2, <3>3, CounterMaps
  <2>3. QED
    BY <2>1, <2>2
<1>3. TypeOK'
  <2>1. CASE Engaged(w)
    BY <1>2, <2>1 DEF Engaged, RecorderInv, TypeOK, CountersOfWorkspaces
  <2>2. CASE RecordReconcile(w)
    BY <1>2, <2>2 DEF RecordReconcile, RecorderInv, TypeOK, CountersOfWorkspaces
  <2>3. QED
    BY <2>1, <2>2
<1>4. QED
  BY <1>2, <1>3 DEF Engaged, RecordReconcile, RecorderInv, CardinalityBounded,
                    LabelsAreTracked, SeriesConserved

LEMMA FailureConserves ==
  ASSUME RecorderInv, NEW w \in Workspaces, NEW r \in Reasons, EngagementFailed(w, r)
  PROVE  RecorderInv'
<1>1. /\ DOMAIN failuresByReason \subseteq Reasons
      /\ \A q \in DOMAIN failuresByReason : failuresByReason[q] \in Nat \ {0}
  BY DEF RecorderInv, TypeOK
<1>2. CountOf(failuresByReason, r) + 1 \in Nat \ {0}
  BY <1>1 DEF CountOf
<1>3. /\ DOMAIN failuresByReason' \subseteq Reasons
      /\ \A q \in DOMAIN failuresByReason' : failuresByReason'[q] \in Nat \ {0}
  BY <1>1, <1>2 DEF EngagementFailed, WithCount
<1>4. TypeOK'
  BY <1>3 DEF EngagementFailed, RecorderInv, TypeOK
<1>5. QED
  BY <1>4 DEF EngagementFailed, RecorderInv, CardinalityBounded, LabelsAreTracked, SeriesConserved

LEMMA RecorderInvariant == Spec => []RecorderInv
<1>1. RecorderInv /\ [Next]_vars => RecorderInv'
  <2> SUFFICES ASSUME RecorderInv, [Next]_vars PROVE RecorderInv'
    OBVIOUS
  <2>1. CASE UNCHANGED vars
    BY <2>1 DEF vars, RecorderInv, TypeOK, CardinalityBounded, LabelsAreTracked, SeriesConserved
  <2>2. QED
    BY <2>1, SnapshotConserves, DisengagedConserves, CountingConserves, FailureConserves
       DEF Next
<1>2. QED
  BY InitRecorder, <1>1, PTL DEF Spec

-----------------------------------------------------------------------------
(* The theorems *)

\* The recorder's state keeps its type.
THEOREM TypeCorrect == Spec => []TypeOK
<1>1. RecorderInv => TypeOK
  BY DEF RecorderInv
<1>2. QED
  BY <1>1, RecorderInvariant, PTL

\* The exported cardinality is capped for a fleet of any size: the ranking is a
\* total order, so no more than TopN workspaces can be among its first TopN.
THEOREM ExportIsCapped == Spec => []CardinalityBounded
<1>1. RecorderInv => CardinalityBounded
  BY DEF RecorderInv
<1>2. QED
  BY <1>1, RecorderInvariant, PTL

\* No label outlives the workspace it names, and every series ever exported is
\* either still exported or was retired exactly once.
THEOREM SeriesAreAccountedFor == Spec => [](LabelsAreTracked /\ SeriesConserved)
<1>1. RecorderInv => LabelsAreTracked /\ SeriesConserved
  BY DEF RecorderInv
<1>2. QED
  BY <1>1, RecorderInvariant, PTL

-----------------------------------------------------------------------------
(* The Recorder's books: the counters of the workspaces sum up to no more than *)
(* the reconciles there were, those of the reasons to the failures there were. *)

Books == TypeOK /\ SumFunction(load) <= totalReconciles /\ FailuresAttributed

\* What the Recorder counts is counted in finitely many counters.
LEMMA RecorderCounts ==
  ASSUME TypeOK
  PROVE  IsCounterMap(load) /\ IsCounterMap(failuresByReason)
<1>1. DOMAIN load \in SUBSET Workspaces /\ DOMAIN failuresByReason \in SUBSET Reasons
  BY DEF TypeOK
<1>2. IsFiniteSet(DOMAIN load) /\ IsFiniteSet(DOMAIN failuresByReason)
  BY <1>1, FS_Subset, TelemetryAssumption
<1>3. QED
  BY <1>2 DEF TypeOK, IsCounterMap, NaturalOn

LEMMA InitBooks == Init => Books
<1> SUFFICES ASSUME Init PROVE Books
  OBVIOUS
<1>1. DOMAIN load = {} /\ DOMAIN failuresByReason = {}
  BY DEF Init
<1>2. SumFunction(load) = 0 /\ SumFunction(failuresByReason) = 0
  BY <1>1, TotalOfNone
<1>3. Cardinality(DOMAIN failuresByReason) = 0
  BY <1>1, FS_EmptySet
<1>4. TypeOK
  BY <1>1 DEF Init, TypeOK
<1>5. QED
  BY <1>2, <1>3, <1>4, TelemetryAssumption DEF Init, Books, FailuresAttributed

\* The total follows what is recorded; a workspace that leaves takes its
\* counter with it, and not what the total owes to it.
LEMMA ReconcilesBalance ==
  ASSUME Books, NEW w \in Workspaces, Engaged(w) \/ RecordReconcile(w) \/ Disengaged(w)
  PROVE  SumFunction(load') <= totalReconciles'
<1>1. IsCounterMap(load) /\ totalReconciles \in Nat /\ SumFunction(load) <= totalReconciles
  BY RecorderCounts DEF Books, TypeOK
<1>2. SumFunction(load) \in Nat /\ CountOf(load, w) \in Nat
  BY <1>1, TotalIsNat DEF CountOf, IsCounterMap, NaturalOn
<1>3. CASE Engaged(w)
  <2>1. SumFunction(WithCount(load, w, CountOf(load, w))) = SumFunction(load)
    BY <1>1, <1>2, TotalWithCount
  <2>2. QED
    BY <1>1, <1>3, <2>1 DEF Engaged
<1>4. CASE RecordReconcile(w)
  <2>1. CountOf(load, w) + 1 \in Nat
    BY <1>2
  <2>2. SumFunction(WithCount(load, w, CountOf(load, w) + 1))
          = SumFunction(load) - CountOf(load, w) + (CountOf(load, w) + 1)
    BY <1>1, <2>1, TotalWithCount
  <2>3. QED
    BY <1>1, <1>2, <1>4, <2>2 DEF RecordReconcile
<1>5. CASE Disengaged(w)
  <2>1. /\ SumFunction(load) = SumFunction(Without(load, w)) + CountOf(load, w)
        /\ SumFunction(Without(load, w)) \in Nat
    BY <1>1, TotalWithout, TotalIsNat
  <2>2. QED
    BY <1>1, <1>2, <1>5, <2>1 DEF Disengaged
<1>6. QED
  BY <1>3, <1>4, <1>5

\* A failure is counted under its reason unless the reasons are at their cap.
LEMMA FailuresBalance ==
  ASSUME Books, NEW w \in Workspaces, NEW r \in Reasons, EngagementFailed(w, r)
  PROVE  FailuresAttributed'
<1> DEFINE f == failuresByReason
           retained == Cardinality(DOMAIN f)
<1>1. /\ IsCounterMap(f) /\ engagementFailures \in Nat
      /\ retained <= MaxFailureReasons /\ SumFunction(f) <= engagementFailures
      /\ retained < MaxFailureReasons => SumFunction(f) = engagementFailures
  BY RecorderCounts DEF Books, TypeOK, FailuresAttributed
<1>2. /\ SumFunction(f) \in Nat /\ CountOf(f, r) \in Nat /\ retained \in Nat
      /\ MaxFailureReasons \in Nat
  BY <1>1, TotalIsNat, FS_CardinalityType, TelemetryAssumption
     DEF CountOf, IsCounterMap, NaturalOn
<1>3. engagementFailures' = engagementFailures + 1
  BY DEF EngagementFailed
<1>4. CASE r \in DOMAIN f \/ retained < MaxFailureReasons
  <2>1. f' = WithCount(f, r, CountOf(f, r) + 1)
    BY <1>4 DEF EngagementFailed
  <2>2. CountOf(f, r) + 1 \in Nat
    BY <1>2
  <2>3. SumFunction(f') = SumFunction(f) - CountOf(f, r) + (CountOf(f, r) + 1)
    <3> HIDE DEF f
    <3>1. QED
      BY <1>1, <2>1, <2>2, TotalWithCount
  <2>4. SumFunction(f') = SumFunction(f) + 1
    <3> HIDE DEF f
    <3>1. QED
      BY <1>2, <2>3
  <2>5. /\ Cardinality(DOMAIN f') = IF r \in DOMAIN f THEN retained ELSE retained + 1
    <3>1. DOMAIN f' = DOMAIN f \cup {r}
      BY <2>1 DEF WithCount
    <3>2. QED
      BY <1>1, <3>1, FS_AddElement DEF IsCounterMap
  <2>6. /\ Cardinality(DOMAIN f') <= MaxFailureReasons
        /\ SumFunction(f') <= engagementFailures'
        /\ Cardinality(DOMAIN f') < MaxFailureReasons => SumFunction(f') = engagementFailures'
    <3> HIDE DEF f, retained
    <3>1. QED
      BY <1>1, <1>2, <1>3, <1>4, <2>4, <2>5
  <2>7. QED
    BY <2>6 DEF FailuresAttributed
<1>5. CASE ~(r \in DOMAIN f \/ retained < MaxFailureReasons)
  <2>1. f' = f
    BY <1>5 DEF EngagementFailed
  <2>2. QED
    BY <1>1, <1>2, <1>3, <1>5, <2>1 DEF FailuresAttributed
<1>6. QED
  BY <1>4, <1>5

\* The remainders that a Snapshot reports do not underflow: what is labelled
\* is part of what is tracked.
LEMMA BooksBalance == Books => AccountsBalance
<1> SUFFICES ASSUME Books PROVE AccountsBalance
  OBVIOUS
<1>1. IsCounterMap(load) /\ totalReconciles \in Nat /\ SumFunction(load) <= totalReconciles
  BY RecorderCounts DEF Books, TypeOK
<1>2. Top \in SUBSET DOMAIN load /\ IsFiniteSet(Top)
  BY <1>1, FS_Subset DEF Top, IsCounterMap
<1>3. SumFunctionOnSet(load, Top) <= SumFunction(load)
  BY <1>1, <1>2, SumOfPart DEF IsCounterMap, SumFunction
<1>4. SumFunctionOnSet(load, Top) \in Nat /\ SumFunction(load) \in Nat
  BY <1>1, <1>2, SumIsNat, TotalIsNat DEF IsCounterMap, NaturalOn
<1>5. RemainderReconciles >= 0
  BY <1>1, <1>3, <1>4 DEF RemainderReconciles, LabelledReconciles
<1>6. RemainderWorkspaces >= 0
  <2>1. /\ Cardinality(Top) <= Cardinality(DOMAIN load)
        /\ Cardinality(Top) \in Nat /\ Cardinality(DOMAIN load) \in Nat
    BY <1>1, <1>2, FS_Subset, FS_CardinalityType DEF IsCounterMap
  <2>2. QED
    BY <2>1 DEF RemainderWorkspaces
<1>7. QED
  BY <1>5, <1>6 DEF AccountsBalance, RemainderNeverUnderflows, Books

\* What a Snapshot reports adds up whenever it is taken, whatever the fleet, the
\* caps and the loads: no remainder wraps around, and no failure is lost
\* (telemetry.go:133-147 and 208-209).
THEOREM AccountsAlwaysBalance == Spec => []AccountsBalance
<1>1. ASSUME Books, TypeOK', [Next]_vars PROVE Books'
  <2>1. CASE UNCHANGED vars
    BY <1>1, <2>1 DEF vars, Books, FailuresAttributed
  <2>2. CASE Snapshot
    BY <1>1, <2>2 DEF Snapshot, Books, FailuresAttributed
  <2>3. ASSUME NEW w \in Workspaces, Engaged(w) \/ RecordReconcile(w) \/ Disengaged(w)
        PROVE  Books'
    <3>1. FailuresAttributed'
      BY <1>1, <2>3 DEF Engaged, RecordReconcile, Disengaged, Books, FailuresAttributed
    <3>2. QED
      BY <1>1, <2>3, <3>1, ReconcilesBalance DEF Books
  <2>4. ASSUME NEW w \in Workspaces, NEW r \in Reasons, EngagementFailed(w, r)
        PROVE  Books'
    BY <1>1, <2>4, FailuresBalance DEF EngagementFailed, Books
  <2>5. QED
    BY <1>1, <2>1, <2>2, <2>3, <2>4 DEF Next
<1>2. QED
  BY <1>1, InitBooks, BooksBalance, TypeCorrect, PTL DEF Spec

-----------------------------------------------------------------------------
(* Settle and SettleReleased, for any work, noise and pausing that the quiet they
   wait for outlasts. *)

\* The noise spent, so far, on hiding that the process moved: each move that
\* reads as quiet takes some of it, and there is no more than MaxNoise.
Hidden == IF waitsFor = "start" THEN MaxNoise - noise ELSE reading - lag

Turn == MaxPause + 1

\* While there is work left, the polls that read as quiet are those of the
\* pauses between the hidden moves and of the present one.
QuietInv ==
  /\ waitsFor = "start" => reading = noise - lag
  /\ waitsFor = "release" => reading >= 0
  /\ lag > 0 => Hidden \in 0..MaxNoise /\ quietFor <= Hidden * Turn + pause
  /\ verdict = "none" => quietFor < Quiet
  /\ SettledIsDone

\* From the poll that read the end on, every poll is quiet.
FloorInv ==
  /\ floorAt <= polls \/ floorAt = Deadline + 1
  /\ waitsFor = "release" /\ floorAt <= polls => reading = 0 /\ quietFor >= polls - floorAt
  /\ verdict = "gaveUp" => polls = Deadline /\ quietFor < Quiet

SettlingInv == SettlingTypeOK /\ QuietInv /\ FloorInv

\* One hidden move more pays for one pause more.
LEMMA TurnsAdd ==
  ASSUME NEW a \in Int, NEW b \in Int, a + 1 <= b
  PROVE  a * Turn + Turn <= b * Turn
<1>1. Turn \in Nat /\ Turn > 0
  BY SettlingAssumption DEF Turn
<1>2. (a + 1) * Turn <= b * Turn
  BY <1>1
<1>3. (a + 1) * Turn = a * Turn + Turn
  BY <1>1
<1>4. QED
  BY <1>2, <1>3

\* All the noise hides fewer polls than Quiet.
LEMMA QuietIsLonger ==
  ASSUME NEW h \in 0..MaxNoise
  PROVE  h * Turn \in Nat /\ h * Turn + MaxPause < Quiet
<1>1. Turn \in Nat /\ Turn = MaxPause + 1 /\ MaxNoise \in Nat
  BY SettlingAssumption DEF Turn
<1>2. h * Turn \in Nat
  BY <1>1
<1>3. h * Turn + Turn <= (MaxNoise + 1) * Turn
  BY <1>1, TurnsAdd
<1>4. (MaxNoise + 1) * Turn <= Quiet
  BY QuietOutlasts DEF Turn
<1>5. (MaxNoise + 1) * Turn \in Nat
  BY <1>1
<1>6. QED
  BY <1>1, <1>2, <1>3, <1>4, <1>5, SettlingAssumption

LEMMA InitSettles == SettlingInit => SettlingInv
<1> SUFFICES ASSUME SettlingInit PROVE SettlingInv
  OBVIOUS
<1>1. SettlingTypeOK
  BY SettlingAssumption DEF SettlingInit, SettlingTypeOK, NumGoroutine
<1>2. QuietInv
  <2>1. Hidden \in 0..MaxNoise
    BY SettlingAssumption DEF SettlingInit, Hidden, NumGoroutine
  <2>2. Hidden * Turn \in Nat
    BY <2>1, QuietIsLonger
  <2>3. QED
    BY <2>1, <2>2, SettlingAssumption DEF SettlingInit, QuietInv, NumGoroutine, SettledIsDone
<1>3. FloorInv
  BY SettlingAssumption DEF SettlingInit, FloorInv
<1>4. QED
  BY <1>1, <1>2, <1>3 DEF SettlingInv

\* What one turn of the loop does, with names for the values it ends in.
Turned(l, n, r, q, c) ==
  /\ lag' = l /\ noise' = n /\ reading' = r /\ quietFor' = q /\ pause' = c
  /\ l <= lag
  /\ l < lag => c = 0
  /\ l = lag /\ l > 0 => c = pause + 1
  /\ waitsFor = "start" => r = n - l /\ (q = 0 \/ (r = reading /\ q = quietFor + 1))
  /\ waitsFor = "release" => \/ r = n + l /\ r < reading /\ q = 0
                             \/ r = reading /\ r <= n + l /\ q = quietFor + 1

LEMMA PollReads ==
  ASSUME SettlingInv, Poll
  PROVE  \E l \in Nat, n \in 0..MaxNoise, r \in Int, q \in Nat, c \in 0..MaxPause :
           Turned(l, n, r, q, c)
<1>1. /\ reading \in Int /\ quietFor \in Nat /\ lag \in Nat /\ pause \in 0..MaxPause
      /\ waitsFor \in {"start", "release"}
  BY DEF SettlingInv, SettlingTypeOK
<1>2. PICK l \in Nat, n \in 0..MaxNoise, c \in 0..MaxPause :
        /\ lag' = l /\ noise' = n /\ pause' = c
        /\ l <= lag
        /\ l < lag => c = 0
        /\ l = lag /\ l > 0 => c = pause + 1
  <2>1. lag' \in Nat /\ lag' <= lag /\ noise' \in 0..MaxNoise
    BY <1>1 DEF Poll, Moves
  <2>2. pause' = IF lag' < lag \/ lag' = 0 THEN 0 ELSE pause + 1
    BY DEF Poll, Moves
  <2>3. pause' \in 0..MaxPause
    BY <1>1, <2>2, SettlingAssumption DEF Poll, Moves
  <2>4. QED
    BY <1>1, <2>1, <2>2, <2>3
<1>3. l \in Int /\ n \in Int
  BY SettlingAssumption
<1>4. CASE waitsFor = "start"
  <2>1. CASE n - l # reading
    <3>1. reading' = n - l /\ quietFor' = 0
      BY <1>2, <1>4, <2>1 DEF Poll, StillMoving, NumGoroutine
    <3>2. Turned(l, n, n - l, 0, c) /\ n - l \in Int
      BY <1>2, <1>3, <1>4, <3>1 DEF Turned
    <3>3. QED
      BY <3>2
  <2>2. CASE n - l = reading
    <3>1. reading' = reading /\ quietFor' = quietFor + 1
      BY <1>2, <1>4, <2>2 DEF Poll, StillMoving, NumGoroutine
    <3>2. Turned(l, n, reading, quietFor + 1, c)
      BY <1>2, <1>4, <2>2, <3>1 DEF Turned
    <3>3. QED
      BY <1>1, <3>2
  <2>3. QED
    BY <2>1, <2>2
<1>5. CASE waitsFor = "release"
  <2>0. waitsFor # "start"
    BY <1>5
  <2>1. CASE n + l < reading
    <3>1. reading' = n + l /\ quietFor' = 0
      BY <1>2, <2>0, <2>1 DEF Poll, StillMoving, NumGoroutine
    <3>2. Turned(l, n, n + l, 0, c) /\ n + l \in Int
      BY <1>2, <1>3, <1>5, <2>1, <3>1 DEF Turned
    <3>3. QED
      BY <3>2
  <2>2. CASE ~(n + l < reading)
    <3>1. reading' = reading /\ quietFor' = quietFor + 1
      BY <1>2, <2>0, <2>2 DEF Poll, StillMoving, NumGoroutine
    <3>2. reading <= n + l
      BY <1>1, <1>3, <2>2
    <3>3. Turned(l, n, reading, quietFor + 1, c)
      BY <1>2, <1>5, <3>1, <3>2 DEF Turned
    <3>4. QED
      BY <1>1, <3>3
  <2>3. QED
    BY <2>1, <2>2
<1>6. QED
  BY <1>1, <1>4, <1>5

LEMMA PollSettles == SettlingInv /\ Poll => SettlingInv'
<1> SUFFICES ASSUME SettlingInv, Poll PROVE SettlingInv'
  OBVIOUS
<1>1. /\ waitsFor \in {"start", "release"} /\ lag \in Nat /\ noise \in 0..MaxNoise
      /\ pause \in 0..MaxPause /\ reading \in Int /\ quietFor \in Nat
      /\ polls \in 0..Deadline /\ floorAt \in 0..(Deadline + 1)
      /\ waitsFor = "start" => reading = noise - lag
      /\ waitsFor = "release" => reading >= 0
  BY DEF SettlingInv, SettlingTypeOK, QuietInv
<1>2. PICK l \in Nat, n \in 0..MaxNoise, r \in Int, q \in Nat, c \in 0..MaxPause :
        Turned(l, n, r, q, c)
  BY PollReads
<1>3. l \in Int /\ n \in Int /\ n <= MaxNoise /\ n >= 0 /\ MaxNoise \in Nat
  BY SettlingAssumption
<1>4. /\ waitsFor' = waitsFor /\ polls' = polls + 1 /\ polls < Deadline
      /\ verdict = "none"
      /\ q >= Quiet => verdict' = "settled"
      /\ ~(q >= Quiet) => verdict' = "none"
  BY <1>1, <1>2, SettlingAssumption DEF Poll, Turned
<1>5. floorAt' = IF floorAt > Deadline /\ l = 0 /\ n = 0 THEN polls + 1 ELSE floorAt
  BY <1>2 DEF Poll, Moves, Turned
<1>6. SettlingTypeOK'
  <2>1. floorAt' \in 0..(Deadline + 1) /\ polls' \in 0..Deadline
    BY <1>1, <1>4, <1>5, SettlingAssumption
  <2>2. verdict' \in {"none", "settled", "gaveUp"}
    BY <1>4
  <2>3. QED
    BY <1>1, <1>2, <1>4, <2>1, <2>2 DEF SettlingTypeOK, Turned
<1>7. ASSUME l > 0
      PROVE  Hidden' \in 0..MaxNoise /\ q <= Hidden' * Turn + c
  <2>1. lag > 0
    BY <1>1, <1>2, <1>7 DEF Turned
  <2>2. Hidden \in 0..MaxNoise
    BY <2>1 DEF SettlingInv, QuietInv
  <2>3. quietFor <= Hidden * Turn + pause
    BY <2>1 DEF SettlingInv, QuietInv
  <2>4. PICK h \in 0..MaxNoise : /\ Hidden' = h
                                 /\ q = 0 \/ (q = quietFor + 1 /\ h = Hidden + (lag - l))
    <3>1. CASE waitsFor = "start"
      <4>1. /\ r = n - l /\ reading = noise - lag
            /\ q = 0 \/ (r = reading /\ q = quietFor + 1)
        BY <1>1, <1>2, <3>1 DEF Turned
      <4>2. Hidden = MaxNoise - noise /\ Hidden' = MaxNoise - n
        BY <1>2, <1>4, <3>1 DEF Hidden, Turned
      <4>3. MaxNoise - n \in 0..MaxNoise
        BY <1>3
      <4>4. r = reading => MaxNoise - n = (MaxNoise - noise) + (lag - l)
        BY <1>1, <1>3, <4>1
      <4>5. QED
        BY <4>1, <4>2, <4>3, <4>4
    <3>2. CASE waitsFor = "release"
      <4>1. \/ r = n + l /\ q = 0
            \/ r = reading /\ r <= n + l /\ q = quietFor + 1
        BY <1>2, <3>2 DEF Turned
      <4>2. Hidden = reading - lag /\ Hidden' = r - l
        BY <1>2, <1>4, <3>2 DEF Hidden, Turned
      <4>3. CASE r = n + l /\ q = 0
        <5>1. r - l = n
          BY <1>3, <4>3
        <5>2. QED
          BY <4>2, <4>3, <5>1
      <4>4. CASE r = reading /\ r <= n + l /\ q = quietFor + 1
        <5>1. r - l = Hidden + (lag - l) /\ l <= lag
          BY <1>1, <1>2, <1>3, <4>2, <4>4 DEF Turned
        <5>2. r - l \in 0..MaxNoise
          BY <1>1, <1>3, <2>2, <4>4, <5>1
        <5>3. QED
          BY <4>2, <4>4, <5>1, <5>2
      <4>5. QED
        BY <4>1, <4>3, <4>4
    <3>3. QED
      BY <1>1, <3>1, <3>2
  <2>5. Hidden * Turn \in Nat /\ h * Turn \in Nat
    BY <2>2, <2>4, QuietIsLonger
  <2>6. c \in Nat /\ pause \in Nat
    BY <1>1, SettlingAssumption
  <2>7. CASE q = 0
    BY <2>4, <2>5, <2>6, <2>7
  <2>8. CASE q = quietFor + 1 /\ h = Hidden + (lag - l) /\ l = lag
    <3>1. h = Hidden /\ c = pause + 1
      BY <1>1, <1>2, <1>7, <2>2, <2>8, SettlingAssumption DEF Turned
    <3>2. quietFor + 1 <= Hidden * Turn + (pause + 1)
      BY <1>1, <2>3, <2>5, <2>6
    <3>3. QED
      BY <2>4, <2>8, <3>1, <3>2
  <2>9. CASE q = quietFor + 1 /\ h = Hidden + (lag - l) /\ l < lag
    <3>1. Hidden + 1 <= h /\ c = 0
      BY <1>1, <1>2, <2>2, <2>9, SettlingAssumption DEF Turned
    <3>2. Hidden * Turn + Turn <= h * Turn
      BY <2>2, <3>1, SettlingAssumption, TurnsAdd
    <3>3. pause + 1 <= Turn /\ Turn \in Nat
      BY <1>1, SettlingAssumption DEF Turn
    <3>4. quietFor + 1 <= h * Turn
      BY <1>1, <2>3, <2>5, <2>6, <3>2, <3>3
    <3>5. QED
      BY <2>4, <2>5, <2>9, <3>1, <3>4
  <2>10. q = 0 \/ (q = quietFor + 1 /\ h = Hidden + (lag - l) /\ (l = lag \/ l < lag))
    BY <1>1, <1>2, <2>4 DEF Turned
  <2>11. QED
    BY <2>7, <2>8, <2>9, <2>10
<1>8. l > 0 => q < Quiet
  <2> SUFFICES ASSUME l > 0 PROVE q < Quiet
    OBVIOUS
  <2>1. PICK h \in 0..MaxNoise : q <= h * Turn + c
    BY <1>7
  <2>2. h * Turn \in Nat /\ h * Turn + MaxPause < Quiet
    BY <2>1, QuietIsLonger
  <2>3. QED
    BY <1>2, <2>1, <2>2, SettlingAssumption
<1>9. QuietInv'
  <2>1. waitsFor' = "start" => reading' = noise' - lag'
    BY <1>2, <1>4 DEF Turned
  <2>2. waitsFor' = "release" => r >= 0
    BY <1>1, <1>2, <1>3, <1>4 DEF Turned
  <2>3. (verdict' = "none" => q < Quiet) /\ (verdict' = "settled" => l = 0)
    BY <1>4, <1>8, SettlingAssumption
  <2>4. QED
    BY <1>2, <1>7, <2>1, <2>2, <2>3 DEF QuietInv, SettledIsDone, Turned
<1>10. FloorInv'
  <2>1. floorAt' <= polls' \/ floorAt' = Deadline + 1
    BY <1>1, <1>4, <1>5, SettlingAssumption DEF SettlingInv, FloorInv
  <2>2. ASSUME waitsFor' = "release", floorAt' <= polls'
        PROVE  r = 0 /\ q >= polls' - floorAt'
    <3>1. \/ r = n + l /\ r < reading /\ q = 0
          \/ r = reading /\ r <= n + l /\ q = quietFor + 1
      BY <1>2, <1>4, <2>2 DEF Turned
    <3>2. CASE floorAt <= Deadline
      <4>1. floorAt <= polls /\ floorAt' = floorAt
        BY <1>1, <1>5, <3>2, SettlingAssumption DEF SettlingInv, FloorInv
      <4>2. reading = 0 /\ quietFor >= polls - floorAt
        BY <1>4, <2>2, <4>1 DEF SettlingInv, FloorInv
      <4>3. r = 0 /\ q = quietFor + 1
        BY <1>3, <3>1, <4>2
      <4>4. QED
        BY <1>1, <1>4, <4>1, <4>2, <4>3, SettlingAssumption
    <3>3. CASE floorAt > Deadline
      <4>1. l = 0 /\ n = 0 /\ floorAt' = polls + 1
        BY <1>1, <1>4, <1>5, <2>2, <3>3, SettlingAssumption
      <4>2. reading >= 0
        BY <1>1, <1>4, <2>2
      <4>3. r = 0
        BY <1>1, <3>1, <4>1, <4>2
      <4>4. QED
        BY <1>1, <1>4, <4>1, <4>3, SettlingAssumption
    <3>4. QED
      BY <1>1, <3>2, <3>3, SettlingAssumption
  <2>3. verdict' # "gaveUp"
    BY <1>4
  <2>4. QED
    BY <1>2, <2>1, <2>2, <2>3 DEF FloorInv, Turned
<1>11. QED
  BY <1>6, <1>9, <1>10 DEF SettlingInv

LEMMA GiveUpSettles == SettlingInv /\ GiveUp => SettlingInv'
<1> SUFFICES ASSUME SettlingInv, GiveUp PROVE SettlingInv'
  OBVIOUS
<1>1. SettlingTypeOK'
  BY DEF SettlingInv, SettlingTypeOK, GiveUp
<1>2. Hidden' = Hidden
  BY DEF GiveUp, Hidden
<1>3. QuietInv'
  BY <1>2 DEF SettlingInv, QuietInv, GiveUp, SettledIsDone
<1>4. FloorInv'
  BY DEF SettlingInv, QuietInv, FloorInv, GiveUp
<1>5. QED
  BY <1>1, <1>3, <1>4 DEF SettlingInv

\* The invariant holds throughout: the quiet that has passed is paid for by the
\* pauses that noise has hidden (Settle and SettleReleased, report.go:198-266).
THEOREM SettlingInvariant == SettlingSpec => []SettlingInv
<1>1. SettlingInv /\ UNCHANGED settlingVars => SettlingInv'
  <2> SUFFICES ASSUME SettlingInv, UNCHANGED settlingVars PROVE SettlingInv'
    OBVIOUS
  <2>1. Hidden' = Hidden
    BY DEF settlingVars, Hidden
  <2>2. QED
    BY <2>1 DEF settlingVars, SettlingInv, SettlingTypeOK, QuietInv, FloorInv, SettledIsDone
<1>2. SettlingInv /\ [SettlingNext]_settlingVars => SettlingInv'
  BY <1>1, PollSettles, GiveUpSettles DEF SettlingNext
<1>3. QED
  BY <1>2, InitSettles, PTL DEF SettlingSpec

\* A process that is called settled has nothing left to start or to give back,
\* and a finished teardown is given up only for a deadline within quiet of its
\* end, whatever the process does that the assumptions allow (Settle and
\* SettleReleased, report.go:144-266).
THEOREM VerdictsAreRight == SettlingSpec => []VerdictIsRight
<1>1. SettlingInv => VerdictIsRight
  <2> SUFFICES ASSUME SettlingInv PROVE VerdictIsRight
    OBVIOUS
  <2>1. ReleaseIsRecognised
    BY SettlingAssumption DEF SettlingInv, SettlingTypeOK, QuietInv, FloorInv, ReleaseIsRecognised
  <2>2. QED
    BY <2>1 DEF SettlingInv, QuietInv, VerdictIsRight
<1>2. QED
  BY <1>1, SettlingInvariant, PTL

-----------------------------------------------------------------------------
(* Await, for any number of waiters, measurements and completions. *)

\* The count is of the current measurement, and t.done is its channel until
\* the target is reached and nil from then on.
ThroughputInv ==
  /\ begins \in Nat /\ finished \in Nat /\ finishedAt \in Nat /\ count \in Nat
  /\ target \in Nat /\ running \in BOOLEAN
  /\ running <=> begins > 0
  /\ closedDone \subseteq 1..begins
  /\ running =>
       /\ target > 0 /\ count = finished - finishedAt
       /\ count < target => done = begins /\ begins \notin closedDone
       /\ count >= target => done = 0 /\ begins \in closedDone
  /\ \A w \in Waiters : awaits[w] = "waiting" => awaited[w] \in 1..begins
  /\ DOMAIN awaits = Waiters /\ DOMAIN awaited = Waiters

LEMMA InitThroughput == ThroughputInit => ThroughputInv
<1> SUFFICES ASSUME ThroughputInit PROVE ThroughputInv
  OBVIOUS
<1>1. /\ begins = 0 /\ finished = 0 /\ finishedAt = 0 /\ count = 0 /\ target = 0
      /\ running = FALSE /\ closedDone = {}
  BY DEF ThroughputInit
<1>2. /\ DOMAIN awaits = Waiters /\ DOMAIN awaited = Waiters
      /\ \A w \in Waiters : awaits[w] # "waiting"
  BY DEF ThroughputInit
<1>3. running <=> begins > 0
  BY <1>1
<1>4. /\ begins \in Nat /\ finished \in Nat /\ finishedAt \in Nat /\ count \in Nat
      /\ target \in Nat /\ running \in BOOLEAN /\ closedDone \subseteq 1..begins
  BY <1>1
<1>5. QED
  BY <1>1, <1>2, <1>3, <1>4, Zenon DEF ThroughputInv

LEMMA BeginThroughput ==
  ASSUME ThroughputInv, NEW n \in Targets, Begin(n)
  PROVE  ThroughputInv'
<1>1. n \in Nat /\ n > 0
  BY ThroughputAssumption
<1>2. /\ begins' = begins + 1 /\ running' = TRUE /\ count' = 0 /\ target' = n
      /\ done' = begins + 1 /\ finishedAt' = finished
      /\ UNCHANGED <<closedDone, finished, awaits, awaited>>
  BY DEF Begin
<1>3. begins + 1 \in Nat /\ 1..begins \subseteq 1..(begins + 1) /\ begins + 1 \notin 1..begins
  BY DEF ThroughputInv
<1>4. closedDone \subseteq 1..(begins + 1) /\ begins + 1 \notin closedDone
  BY <1>3 DEF ThroughputInv
<1>5. \A w \in Waiters : awaits[w] = "waiting" => awaited[w] \in 1..(begins + 1)
  BY <1>3 DEF ThroughputInv
<1>6. finished - finished = 0 /\ begins + 1 > 0
  BY <1>3 DEF ThroughputInv
<1>7. QED
  BY <1>1, <1>2, <1>3, <1>4, <1>5, <1>6 DEF ThroughputInv

LEMMA CompletedThroughput ==
  ASSUME ThroughputInv, Completed
  PROVE  ThroughputInv'
<1>1. /\ finished' = finished + 1
      /\ UNCHANGED <<running, target, begins, finishedAt, awaits, awaited>>
      /\ begins \in Nat /\ finished \in Nat /\ finishedAt \in Nat /\ count \in Nat
      /\ target \in Nat /\ running \in BOOLEAN
  BY DEF Completed, ThroughputInv
<1>2. CASE ~running
  <2>1. count' = count /\ closedDone' = closedDone
    BY <1>2 DEF Completed
  <2>2. finished + 1 \in Nat /\ ~(begins > 0)
    BY <1>1, <1>2 DEF ThroughputInv
  <2>3. QED
    BY <1>1, <1>2, <2>1, <2>2 DEF ThroughputInv
<1>3. CASE running
  <2>1. /\ count' = count + 1 /\ begins > 0 /\ target > 0
        /\ count = finished - finishedAt /\ closedDone \subseteq 1..begins
    BY <1>3 DEF Completed, ThroughputInv
  <2>2. count + 1 = (finished + 1) - finishedAt /\ count + 1 \in Nat
    BY <1>1, <2>1
  <2>3. CASE count + 1 >= target /\ done # 0
    <3>1. closedDone' = closedDone \cup {done} /\ done' = 0
      BY <1>3, <2>1, <2>3 DEF Completed
    <3>2. count < target /\ done = begins
      BY <1>1, <1>3, <2>3 DEF ThroughputInv
    <3>3. begins \in 1..begins
      BY <1>1, <2>1
    <3>4. QED
      BY <1>1, <1>3, <2>1, <2>2, <2>3, <3>1, <3>2, <3>3 DEF ThroughputInv
  <2>4. CASE ~(count + 1 >= target /\ done # 0)
    <3>1. closedDone' = closedDone /\ done' = done
      BY <1>3, <2>1, <2>4 DEF Completed
    <3>2. count < target => done = begins /\ count + 1 < target
      BY <1>1, <1>3, <2>1, <2>4 DEF ThroughputInv
    <3>3. count + 1 < target \/ count >= target
      BY <1>1, <3>2
    <3>4. /\ count + 1 < target => done = begins /\ begins \notin closedDone
          /\ count + 1 >= target => done = 0 /\ begins \in closedDone
      BY <1>1, <1>3, <3>2, <3>3 DEF ThroughputInv
    <3>5. QED
      BY <1>1, <1>3, <2>1, <2>2, <3>1, <3>4 DEF ThroughputInv
  <2>5. QED
    BY <2>3, <2>4
<1>4. QED
  BY <1>1, <1>2, <1>3

LEMMA AwaitThroughput ==
  ASSUME ThroughputInv, NEW w \in Waiters, Await(w) \/ Woken(w) \/ TimedOut(w) \/ Judged(w)
  PROVE  ThroughputInv'
<1>1. UNCHANGED <<running, count, target, done, closedDone, begins, finished, finishedAt>>
  BY DEF Await, Woken, TimedOut, Judged
<1>2. PICK where :
        awaits' = [awaits EXCEPT ![w] = where]
          /\ (where = "waiting" => running /\ done # 0 /\ awaited' = [awaited EXCEPT ![w] = done])
          /\ (awaited' = awaited \/ awaited' = [awaited EXCEPT ![w] = done])
  BY DEF Await, Woken, TimedOut, Judged, Reaches
<1>3. running /\ done # 0 => done \in 1..begins
  BY DEF ThroughputInv
<1>4. ASSUME NEW v \in Waiters, awaits'[v] = "waiting"
      PROVE  awaited'[v] \in 1..begins
  <2>1. CASE v = w
    BY <1>2, <1>3, <1>4, <2>1 DEF ThroughputInv
  <2>2. CASE v # w
    BY <1>2, <1>4, <2>2 DEF ThroughputInv
  <2>3. QED
    BY <2>1, <2>2
<1>5. DOMAIN awaits' = Waiters /\ DOMAIN awaited' = Waiters
  BY <1>2 DEF ThroughputInv
<1>6. QED
  BY <1>1, <1>4, <1>5 DEF ThroughputInv

\* The invariant holds throughout (Throughput, throughput.go:64-124).
THEOREM ThroughputInvariant == ThroughputSpec => []ThroughputInv
<1>1. ThroughputInv /\ [ThroughputNext]_throughputVars => ThroughputInv'
  <2> SUFFICES ASSUME ThroughputInv, [ThroughputNext]_throughputVars PROVE ThroughputInv'
    OBVIOUS
  <2>1. CASE UNCHANGED throughputVars
    BY <2>1 DEF throughputVars, ThroughputInv
  <2>2. CASE \E n \in Targets : Begin(n)
    BY <2>2, BeginThroughput
  <2>3. CASE Completed
    BY <2>3, CompletedThroughput
  <2>4. CASE \E w \in Waiters : Await(w) \/ Woken(w) \/ TimedOut(w) \/ Judged(w)
    BY <2>4, AwaitThroughput
  <2>5. QED
    BY <2>1, <2>2, <2>3, <2>4 DEF ThroughputNext
<1>2. QED
  BY <1>1, InitThroughput, PTL DEF ThroughputSpec

\* The channel of a measurement is closed exactly when its target is reached,
\* and whoever waits does so on a channel (Throughput, throughput.go:74-124).
THEOREM NoWakeUpIsLost == ThroughputSpec => []ReachedIsWoken
<1>1. ThroughputInv => ReachedIsWoken
  BY DEF ThroughputInv, ReachedIsWoken
<1>2. QED
  BY <1>1, ThroughputInvariant, PTL

-----------------------------------------------------------------------------
(* The shard caches, for any number of shards, fields and engagements. *)

RefusedForIndexing(h) == \E c \in Calls : host[c] = h /\ result[c] = "index"

\* A call is on a shard from the time it is made, and is the only one there
\* until it returns.
ShardTurns ==
  /\ \A c \in Calls : /\ stepOf[c] = "idle" <=> host[c] = Nobody
                      /\ result[c] # "none" <=> stepOf[c] = "returned"
  /\ \A c, d \in Calls :
       c # d /\ host[c] = host[d] /\ host[c] # Nobody => stepOf[c] = "returned" \/ stepOf[d] = "returned"

\* A shard is marked before its first index, and whoever marked it goes on to
\* the last, unless one fails.
IndexesInTurn ==
  /\ \A h \in Hosts : h \notin indexed => fields[h] = 0
  /\ \A h \in indexed : \/ fields[h] = Indexes \/ RefusedForIndexing(h)
                        \/ \E c \in Calls : host[c] = h /\ stepOf[c] = "index"
  /\ \A c \in Calls :
       /\ stepOf[c] = "index" => host[c] \in indexed /\ fields[host[c]] < Indexes
       /\ stepOf[c] = "watch" => fields[host[c]] = Indexes \/ RefusedForIndexing(host[c])

\* A shard that refused a workspace for an index is not indexed any further.
RefusedStaysMarked ==
  \A c \in Calls :
    result[c] = "index" =>
      /\ host[c] \in indexed
      /\ \A d \in Calls : host[d] = host[c] => stepOf[d] # "index"

\* A broken shard is reported by the call that told its cause.
ReportedByOne ==
  /\ \A c \in Calls : result[c] \in {"detailed", "brief"} => host[c] \in reported
  /\ \A h \in reported : \E c \in Calls : host[c] = h /\ result[c] = "detailed"

ShardInv ==
  /\ ShardTypeOK /\ ShardTurns /\ IndexesInTurn /\ RefusedStaysMarked /\ ReportedByOne
  /\ ShardVerdictsAreTrue

LEMMA InitShards == ShardInit => ShardInv
BY ShardAssumption
   DEF ShardInit, ShardInv, ShardTypeOK, ShardTurns, IndexesInTurn, RefusedStaysMarked, ReportedByOne,
       ShardVerdictsAreTrue, MissingIndexToldOnce, NoneRefusedForIndexing, CauseReportedOnce

LEMMA NewClusterKeeps ==
  ASSUME ShardInv, NEW c \in Calls, NEW h \in Hosts, NewCluster(c, h)
  PROVE  ShardInv'
<1> USE ShardAssumption
    DEF ShardInv, ShardTypeOK, NewCluster, Continue, Under, ShardTurns
<1>1. host[c] = Nobody /\ result[c] = "none" /\ result' = result
  OBVIOUS
<1>2. \A d \in Calls : host'[d] = IF d = c THEN h ELSE host[d]
  OBVIOUS
<1>3. \A d \in Calls : stepOf'[d] = IF d = c THEN "mark" ELSE stepOf[d]
  OBVIOUS
<1>4. \A k \in Hosts : RefusedForIndexing(k)' <=> RefusedForIndexing(k)
  BY <1>1, <1>2 DEF RefusedForIndexing
<1>5. ShardTypeOK' /\ ShardTurns'
  BY <1>1, <1>2, <1>3
<1>6. IndexesInTurn' /\ RefusedStaysMarked'
  BY <1>1, <1>2, <1>3, <1>4 DEF IndexesInTurn, RefusedStaysMarked
<1>7. ReportedByOne'
  BY <1>1, <1>2 DEF ReportedByOne
<1>8. ShardVerdictsAreTrue'
  BY <1>1, <1>2
     DEF ShardVerdictsAreTrue, MissingIndexToldOnce, NoneRefusedForIndexing, CauseReportedOnce
<1> QED
  BY <1>5, <1>6, <1>7, <1>8

LEMMA MarkIndexedKeeps ==
  ASSUME ShardInv, NEW c \in Calls, MarkIndexed(c)
  PROVE  ShardInv'
<1> USE ShardAssumption DEF ShardInv, ShardTypeOK, MarkIndexed, Continue, ShardTurns
<1>1. host[c] \in Hosts /\ UNCHANGED <<host, result, reported, fields, watched, errors>>
  OBVIOUS
<1>2. ShardTypeOK' /\ ShardTurns'
  OBVIOUS
<1>3. IndexesInTurn'
  <2>1. \A d \in Calls : d # c /\ host[d] = host[c] => stepOf[d] = "returned"
    BY <1>1
  <2>2. \A h \in Hosts : RefusedForIndexing(h)' <=> RefusedForIndexing(h)
    BY <1>1 DEF RefusedForIndexing
  <2>3. \A d \in Calls : d # c => stepOf'[d] = stepOf[d]
    OBVIOUS
  <2> QED
    BY <1>1, <2>1, <2>2, <2>3 DEF IndexesInTurn
<1>4. RefusedStaysMarked'
  BY <1>1 DEF RefusedStaysMarked
<1>5. ReportedByOne' /\ ShardVerdictsAreTrue'
  BY <1>1 DEF ReportedByOne, ShardVerdictsAreTrue, MissingIndexToldOnce, NoneRefusedForIndexing,
              CauseReportedOnce
<1> QED
  BY <1>2, <1>3, <1>4, <1>5

LEMMA IndexFieldKeeps ==
  ASSUME ShardInv, NEW c \in Calls, IndexField(c)
  PROVE  ShardInv'
<1> USE ShardAssumption DEF ShardInv, ShardTypeOK, IndexField, Continue, ShardTurns
<1>1. /\ host[c] \in Hosts /\ UNCHANGED <<host, result, indexed, reported, watched, errors>>
      /\ fields[host[c]] \in 0..Indexes /\ fields[host[c]] < Indexes
  OBVIOUS
<1>2. ShardTypeOK' /\ ShardTurns'
  OBVIOUS
<1>3. \A d \in Calls : d # c /\ host[d] = host[c] => stepOf[d] = "returned"
  BY <1>1
<1>4. \A h \in Hosts : RefusedForIndexing(h)' <=> RefusedForIndexing(h)
  BY <1>1 DEF RefusedForIndexing
<1>5. IndexesInTurn' /\ RefusedStaysMarked'
  BY <1>1, <1>3, <1>4 DEF IndexesInTurn, RefusedStaysMarked
<1>6. MissingIndexToldOnce'
  BY <1>1 DEF ShardVerdictsAreTrue, MissingIndexToldOnce
<1>7. ReportedByOne' /\ ShardVerdictsAreTrue'
  BY <1>1, <1>6 DEF ReportedByOne, ShardVerdictsAreTrue, NoneRefusedForIndexing, CauseReportedOnce
<1> QED
  BY <1>2, <1>5, <1>7

\* IndexField fails of itself: a shard is never indexed twice.
LEMMA IndexFailsKeeps ==
  ASSUME ShardInv, NEW c \in Calls, IndexFails(c)
  PROVE  ShardInv'
<1> USE ShardAssumption DEF ShardInv, ShardTypeOK, IndexFails, Return, ShardTurns
<1>1. /\ host[c] \in Hosts /\ UNCHANGED <<host, indexed, reported, fields, watched>>
      /\ stepOf[c] = "index" /\ fields[host[c]] < Indexes /\ errors' = errors + 1
      /\ result[c] = "none" /\ result' = [result EXCEPT ![c] = "index"]
      /\ stepOf' = [stepOf EXCEPT ![c] = "returned"]
  BY DEF IndexesInTurn
<1>2. ShardTypeOK' /\ ShardTurns'
  BY <1>1
<1>3. /\ \A h \in Hosts : RefusedForIndexing(h) => RefusedForIndexing(h)'
      /\ RefusedForIndexing(host[c])'
  BY <1>1 DEF RefusedForIndexing
<1>4. \A d \in Calls : host[d] = host[c] => result[d] # "index"
  BY <1>1 DEF RefusedStaysMarked
<1>5. IndexesInTurn' /\ RefusedStaysMarked' /\ MissingIndexToldOnce'
  <2>1. IndexesInTurn'
    BY <1>1, <1>3 DEF IndexesInTurn
  <2>2. RefusedStaysMarked'
    BY <1>1 DEF RefusedStaysMarked, IndexesInTurn
  <2>3. MissingIndexToldOnce'
    BY <1>1, <1>3, <1>4 DEF ShardVerdictsAreTrue, MissingIndexToldOnce, RefusedForIndexing
  <2> QED
    BY <2>1, <2>2, <2>3
<1>6. NoneRefusedForIndexing'
  BY <1>1 DEF NoneRefusedForIndexing
<1>7. ReportedByOne' /\ CauseReportedOnce'
  BY <1>1 DEF ReportedByOne, ShardVerdictsAreTrue, CauseReportedOnce
<1> QED
  BY <1>2, <1>5, <1>6, <1>7 DEF ShardVerdictsAreTrue

LEMMA AddCacheKeeps ==
  ASSUME ShardInv, NEW c \in Calls, AddCache(c)
  PROVE  ShardInv'
<1> USE ShardAssumption DEF ShardInv, ShardTypeOK, AddCache, Return, ShardTurns
<1>1. /\ host[c] \in Hosts /\ UNCHANGED <<host, indexed, reported, fields, errors>>
      /\ stepOf[c] = "watch" /\ watched' = watched \cup {host[c]}
      /\ result[c] = "none"
      /\ \E r \in {"cluster", "scoped"} : result' = [result EXCEPT ![c] = r]
      /\ stepOf' = [stepOf EXCEPT ![c] = "returned"]
  OBVIOUS
<1>2. ShardTypeOK' /\ ShardTurns'
  BY <1>1
<1>3. \A h \in Hosts : RefusedForIndexing(h)' <=> RefusedForIndexing(h)
  BY <1>1 DEF RefusedForIndexing
<1>4. IndexesInTurn' /\ RefusedStaysMarked'
  BY <1>1, <1>3 DEF IndexesInTurn, RefusedStaysMarked
<1>5. MissingIndexToldOnce'
  <2>1. \A h \in watched' : fields'[h] = Indexes \/ RefusedForIndexing(h)'
    BY <1>1, <1>3 DEF IndexesInTurn, ShardVerdictsAreTrue, MissingIndexToldOnce, RefusedForIndexing
  <2>2. \A d \in Calls : result'[d] = "index" <=> result[d] = "index"
    BY <1>1
  <2> QED
    BY <1>1, <2>1, <2>2
       DEF ShardVerdictsAreTrue, MissingIndexToldOnce, RefusedForIndexing
<1>6. ReportedByOne' /\ NoneRefusedForIndexing' /\ CauseReportedOnce'
  BY <1>1 DEF ReportedByOne, ShardVerdictsAreTrue, NoneRefusedForIndexing, CauseReportedOnce
<1> QED
  BY <1>2, <1>4, <1>5, <1>6 DEF ShardVerdictsAreTrue

LEMMA AddCacheFailsKeeps ==
  ASSUME ShardInv, NEW c \in Calls, AddCacheFails(c)
  PROVE  ShardInv'
<1> USE ShardAssumption DEF ShardInv, ShardTypeOK, AddCacheFails, Return, ShardTurns
<1>1. /\ host[c] \in Hosts /\ UNCHANGED <<host, indexed, fields, watched, errors>>
      /\ stepOf[c] = "watch" /\ reported' = reported \cup {host[c]}
      /\ stepOf' = [stepOf EXCEPT ![c] = "returned"] /\ result[c] = "none"
      /\ result' = [result EXCEPT ![c] = IF host[c] \in reported THEN "brief" ELSE "detailed"]
  OBVIOUS
<1>2. ShardTypeOK' /\ ShardTurns'
  BY <1>1
<1>3. \A h \in Hosts : RefusedForIndexing(h)' <=> RefusedForIndexing(h)
  BY <1>1 DEF RefusedForIndexing
<1>4. IndexesInTurn' /\ RefusedStaysMarked'
  BY <1>1, <1>3 DEF IndexesInTurn, RefusedStaysMarked
<1>5. MissingIndexToldOnce' /\ NoneRefusedForIndexing'
  BY <1>1, <1>3
     DEF ShardVerdictsAreTrue, MissingIndexToldOnce, NoneRefusedForIndexing, RefusedForIndexing
<1>6. ReportedByOne'
  BY <1>1 DEF ReportedByOne
<1>7. CauseReportedOnce'
  <2>1. \A d, e \in Calls :
          result'[d] = "detailed" /\ result'[e] = "detailed" /\ host'[d] = host'[e] => d = e
    BY <1>1 DEF ReportedByOne, ShardVerdictsAreTrue, CauseReportedOnce
  <2>2. \A d \in Calls :
          result'[d] = "brief" => \E e \in Calls : host'[e] = host'[d] /\ result'[e] = "detailed"
    BY <1>1, <1>6 DEF ReportedByOne
  <2> QED
    BY <2>1, <2>2 DEF CauseReportedOnce
<1> QED
  BY <1>2, <1>4, <1>5, <1>6, <1>7 DEF ShardVerdictsAreTrue

\* With any number of workspaces on any number of shards and whichever calls fail:
\* a shard that works refuses no workspace for its indexes, one whose index is
\* missing has told exactly one workspace before it serves another without it, and
\* a broken one is explained once (shardcaches.go:119-148, 226-255).
THEOREM ShardsAreTruthful == ShardSpec => []ShardVerdictsAreTrue
<1>1. ShardInv /\ [ShardNext]_shardVars => ShardInv'
  <2> SUFFICES ASSUME ShardInv, [ShardNext]_shardVars PROVE ShardInv'
    OBVIOUS
  <2>1. CASE UNCHANGED shardVars
    BY <2>1
       DEF shardVars, ShardInv, ShardTypeOK, ShardTurns, IndexesInTurn, RefusedStaysMarked,
           RefusedForIndexing, ReportedByOne, ShardVerdictsAreTrue, MissingIndexToldOnce,
           NoneRefusedForIndexing, CauseReportedOnce
  <2> QED
    BY <2>1, NewClusterKeeps, MarkIndexedKeeps, IndexFieldKeeps, IndexFailsKeeps, AddCacheKeeps,
       AddCacheFailsKeeps DEF ShardNext
<1>2. ShardInv => ShardVerdictsAreTrue
  BY DEF ShardInv
<1> QED
  BY <1>1, <1>2, InitShards, PTL DEF ShardSpec

-----------------------------------------------------------------------------
(* The difference of two snapshots, for any clusters, kinds and requests. *)

\* A counter only grows, and a snapshot was taken of it.
Counts(c) == c = [r \in DOMAIN c |-> c[r]] /\ \A r \in DOMAIN c : c[r] \in Nat \ {0}

MarkIsOlder ==
  /\ Counts(counts) /\ Counts(mark) /\ DOMAIN mark \subseteq DOMAIN counts
  /\ \A r \in DOMAIN mark : mark[r] <= counts[r]

TrafficInv == MarkIsOlder /\ DeltaIsWhatHappened

LEMMA InitTraffic == TrafficInit => TrafficInv
  BY DEF TrafficInit, TrafficInv, MarkIsOlder, Counts, Nothing, DeltaIsWhatHappened, Sub, Seen

\* A request counted in both is counted in their difference.
LEMMA ObserveInBoth ==
  ASSUME NEW c, NEW m, NEW r, Counts(c), Counts(m), DOMAIN m \subseteq DOMAIN c,
         \A q \in DOMAIN m : m[q] <= c[q]
  PROVE  Sub(Observe(c, r), m) = Observe(Sub(c, m), r)
<1> DEFINE after == Observe(c, r)
           changed == {q \in DOMAIN c : c[q] # Seen(m, q)}
           changedAfter == {q \in DOMAIN after : after[q] # Seen(m, q)}
<1>1. /\ DOMAIN after = DOMAIN c \cup {r}
      /\ \A q \in DOMAIN c : q # r => after[q] = c[q]
      /\ after[r] = Seen(c, r) + 1
  BY DEF Observe
<1>2. /\ \A q \in DOMAIN c : c[q] \in Nat
      /\ Seen(m, r) \in Nat /\ Seen(c, r) \in Nat /\ Seen(m, r) <= Seen(c, r)
  BY DEF Seen, Counts
<1>3. changedAfter = changed \cup {r}
  <2>1. r \in changedAfter
    BY <1>1, <1>2
  <2>2. \A q : q # r => (q \in changedAfter <=> q \in changed)
    BY <1>1
  <2>3. QED
    BY <2>1, <2>2
<1>4. Sub(c, m) = [q \in changed |-> c[q] - Seen(m, q)]
  BY DEF Sub
<1>5. Observe(Sub(c, m), r)
        = [q \in changed \cup {r} |-> IF q = r THEN Seen(Sub(c, m), r) + 1 ELSE Sub(c, m)[q]]
  BY <1>4 DEF Observe
<1>6. Seen(Sub(c, m), r) = Seen(c, r) - Seen(m, r)
  BY <1>2, <1>4 DEF Seen
<1>7. \A q \in changed \cup {r} :
        after[q] - Seen(m, q) = IF q = r THEN Seen(Sub(c, m), r) + 1 ELSE Sub(c, m)[q]
  <2>1. after[r] - Seen(m, r) = Seen(Sub(c, m), r) + 1
    BY <1>1, <1>2, <1>6
  <2>2. \A q \in changed : q # r => after[q] - Seen(m, q) = Sub(c, m)[q]
    BY <1>1, <1>4
  <2>3. QED
    BY <2>1, <2>2
<1>8. Sub(after, m) = [q \in changedAfter |-> after[q] - Seen(m, q)]
  BY DEF Sub
<1> HIDE DEF after, changed, changedAfter
<1>9. Sub(after, m) = Observe(Sub(c, m), r)
  BY <1>3, <1>5, <1>7, <1>8
<1>10. QED
  BY <1>9 DEF after

LEMMA RoundTripKeeps ==
  ASSUME TrafficInv, NEW method, NEW path, NEW watch, RoundTrip(method, path, watch)
  PROVE  TrafficInv'
<1> DEFINE r == Classify(method, path, watch)
<1>1. counts' = Observe(counts, r) /\ since' = Observe(since, r) /\ mark' = mark
  BY DEF RoundTrip
<1> HIDE DEF r
<1>2. MarkIsOlder
  BY DEF TrafficInv
<1>3. DeltaIsWhatHappened'
  <2>1. Sub(Observe(counts, r), mark) = Observe(Sub(counts, mark), r)
    BY <1>2, ObserveInBoth DEF MarkIsOlder
  <2>2. QED
    BY <1>1, <2>1 DEF TrafficInv, DeltaIsWhatHappened
<1>4. MarkIsOlder'
  <2>1. /\ DOMAIN counts' = DOMAIN counts \cup {r}
        /\ \A q \in DOMAIN counts : q # r => counts'[q] = counts[q]
        /\ counts'[r] = Seen(counts, r) + 1
    BY <1>1 DEF Observe
  <2>2. Seen(counts, r) \in Nat /\ (r \in DOMAIN counts => Seen(counts, r) = counts[r])
    BY <1>2 DEF MarkIsOlder, Counts, Seen
  <2>3. Counts(counts')
    <3>1. counts' = [q \in DOMAIN counts' |-> counts'[q]]
      BY <1>1 DEF Observe
    <3>2. \A q \in DOMAIN counts' : counts'[q] \in Nat \ {0}
      BY <1>2, <2>1, <2>2 DEF MarkIsOlder, Counts
    <3>3. QED
      BY <3>1, <3>2 DEF Counts
  <2>4. \A q \in DOMAIN mark : mark[q] <= counts'[q]
    BY <1>2, <2>1, <2>2 DEF MarkIsOlder, Counts
  <2>5. QED
    BY <1>1, <1>2, <2>1, <2>3, <2>4 DEF MarkIsOlder
<1>5. QED
  BY <1>3, <1>4 DEF TrafficInv

LEMMA SnapshotKeeps == TrafficInv /\ SnapshotTaken => TrafficInv'
<1> SUFFICES ASSUME TrafficInv, SnapshotTaken PROVE TrafficInv'
  OBVIOUS
<1>1. mark' = counts /\ since' = Nothing /\ counts' = counts /\ Counts(counts)
  BY DEF SnapshotTaken, TrafficInv, MarkIsOlder
<1>2. MarkIsOlder'
  BY <1>1 DEF MarkIsOlder, Counts
<1>3. Sub(counts, counts) = Nothing
  BY DEF Sub, Seen, Nothing
<1>4. QED
  BY <1>1, <1>2, <1>3 DEF TrafficInv, DeltaIsWhatHappened

\* What a sweep reports between two samples is what its clients asked for in
\* between, whatever they asked for before and however often (Counts.Sub).
THEOREM DeltaIsTrue == TrafficSpec => []DeltaIsWhatHappened
<1>1. TrafficInv /\ [TrafficNext]_trafficVars => TrafficInv'
  <2> SUFFICES ASSUME TrafficInv, [TrafficNext]_trafficVars PROVE TrafficInv'
    OBVIOUS
  <2>1. CASE \E method, path, watch : RoundTrip(method, path, watch)
    BY <2>1, RoundTripKeeps
  <2>2. CASE SnapshotTaken
    BY <2>2, SnapshotKeeps
  <2>3. CASE UNCHANGED trafficVars
    BY <2>3 DEF trafficVars, TrafficInv, MarkIsOlder, DeltaIsWhatHappened
  <2>4. QED
    BY <2>1, <2>2, <2>3 DEF TrafficNext, Open, Reopen, Discover, Call
<1>2. TrafficInv => DeltaIsWhatHappened
  BY DEF TrafficInv
<1>3. QED
  BY InitTraffic, <1>1, <1>2, PTL DEF TrafficSpec


-----------------------------------------------------------------------------
(* The streams a sweep reports, for any clusters and kinds. *)

\* Where the segments of an informer's path are, below an endpoint of n segments.
CollectionPath(p, n, cluster, kind) ==
  /\ \A i \in 1..n : p[i] # "clusters"
  /\ p[n + 1] = "clusters" /\ p[n + 2] = cluster
  /\ kind[1] = "" => Len(p) = n + 5 /\ p[n + 3] = "api" /\ p[n + 5] = kind[2]
  /\ kind[1] # "" => /\ Len(p) = n + 6 /\ p[n + 3] = "apis" /\ p[n + 4] = kind[1]
                     /\ p[n + 6] = kind[2]

\* p is s with t behind it.
Joins(p, s, t) ==
  /\ Len(p) = Len(s) + Len(t)
  /\ \A i \in 1..Len(s) : p[i] = s[i]
  /\ \A i \in 1..Len(t) : p[Len(s) + i] = t[i]

LEMMA ConcatJoins ==
  ASSUME NEW S, NEW s \in Seq(S), NEW t \in Seq(S)
  PROVE  s \o t \in Seq(S) /\ Joins(s \o t, s, t)
<1>1. /\ s \o t \in Seq(S) /\ Len(s \o t) = Len(s) + Len(t)
      /\ Len(s) \in Nat /\ Len(t) \in Nat
      /\ \A i \in 1..Len(s) + Len(t) :
           (s \o t)[i] = IF i <= Len(s) THEN s[i] ELSE t[i - Len(s)]
  BY ConcatProperties, LenProperties
<1> DEFINE st == s \o t
           m == Len(s)
           n == Len(t)
<1> HIDE DEF st, m, n
<1>2. m \in Nat /\ n \in Nat /\ \A i \in 1..m + n : st[i] = IF i <= m THEN s[i] ELSE t[i - m]
  BY <1>1 DEF st, m, n
<1>3. \A i \in 1..m : st[i] = s[i]
  BY <1>2
<1>4. \A i \in 1..n : st[m + i] = t[i]
  <2> SUFFICES ASSUME NEW i \in 1..n PROVE st[m + i] = t[i]
    OBVIOUS
  <2>1. m + i \in 1..m + n /\ ~(m + i <= m) /\ (m + i) - m = i
    BY <1>2
  <2>2. QED
    BY <1>2, <2>1
<1>5. QED
  BY <1>1, <1>3, <1>4 DEF st, m, n, Joins

\* Where the parts of a path are: below a, the cluster b, the group c and the
\* resource d.
IsPathOf(p, a, b, c, d) ==
  /\ Len(p) = Len(a) + 3 + Len(c)
  /\ \A i \in 1..Len(a) : p[i] = a[i]
  /\ p[Len(a) + 1] = b[1] /\ p[Len(a) + 2] = b[2]
  /\ \A i \in 1..Len(c) : p[Len(a) + 2 + i] = c[i]
  /\ p[Len(a) + 3 + Len(c)] = d[1]

LEMMA PathParts ==
  ASSUME NEW S, NEW a \in Seq(S), NEW b \in Seq(S), NEW c \in Seq(S), NEW d \in Seq(S),
         Len(b) = 2, Len(d) = 1
  PROVE  /\ a \o ((b \o c) \o d) \in Seq(S)
         /\ IsPathOf(a \o ((b \o c) \o d), a, b, c, d)
<1> DEFINE bc == b \o c
           bcd == bc \o d
           p == a \o bcd
<1>1. Len(a) \in Nat /\ Len(c) \in Nat
  BY LenProperties
<1>2. /\ bc \in Seq(S) /\ Len(bc) = 2 + Len(c)
      /\ \A i \in 1..2 : bc[i] = b[i]
      /\ \A i \in 1..Len(c) : bc[2 + i] = c[i]
  <2>1. bc \in Seq(S) /\ Joins(bc, b, c)
    BY ConcatJoins
  <2> HIDE DEF bc
  <2>2. QED
    BY <2>1 DEF Joins
<1>3. /\ bcd \in Seq(S) /\ Len(bcd) = Len(bc) + 1
      /\ \A i \in 1..Len(bc) : bcd[i] = bc[i]
      /\ bcd[Len(bc) + 1] = d[1]
  <2>1. bcd \in Seq(S) /\ Joins(bcd, bc, d)
    <3> HIDE DEF bc
    <3>1. QED
      BY <1>2, ConcatJoins
  <2> HIDE DEF bc, bcd
  <2>2. QED
    BY <2>1 DEF Joins
<1>5. /\ p \in Seq(S) /\ Len(p) = Len(a) + Len(bcd)
      /\ \A i \in 1..Len(a) : p[i] = a[i]
      /\ \A i \in 1..Len(bcd) : p[Len(a) + i] = bcd[i]
  <2>1. p \in Seq(S) /\ Joins(p, a, bcd)
    <3> HIDE DEF bc, bcd
    <3>1. QED
      BY <1>3, ConcatJoins
  <2> HIDE DEF bc, bcd, p
  <2>2. QED
    BY <2>1 DEF Joins
<1> HIDE DEF bc, bcd, p
<1>6. Len(bcd) = 3 + Len(c)
  BY <1>1, <1>2, <1>3
<1>7. /\ bcd[1] = b[1] /\ bcd[2] = b[2] /\ bcd[3 + Len(c)] = d[1]
      /\ \A i \in 1..Len(c) : bcd[2 + i] = c[i]
  <2>1. 1 \in 1..Len(bc) /\ 2 \in 1..Len(bc) /\ Len(bc) + 1 = 3 + Len(c)
    BY <1>1, <1>2
  <2>2. \A i \in 1..Len(c) : 2 + i \in 1..Len(bc)
    BY <1>1, <1>2
  <2>3. QED
    BY <1>2, <1>3, <2>1, <2>2
<1>8. /\ p[Len(a) + 1] = bcd[1] /\ p[Len(a) + 2] = bcd[2]
      /\ p[Len(a) + (3 + Len(c))] = bcd[3 + Len(c)]
      /\ \A i \in 1..Len(c) : p[Len(a) + (2 + i)] = bcd[2 + i]
  <2>1. /\ 1 \in 1..Len(bcd) /\ 2 \in 1..Len(bcd) /\ 3 + Len(c) \in 1..Len(bcd)
        /\ \A i \in 1..Len(c) : 2 + i \in 1..Len(bcd)
    BY <1>1, <1>6
  <2>2. QED
    BY <1>5, <2>1
<1>9. /\ Len(a) + (3 + Len(c)) = Len(a) + 3 + Len(c)
      /\ \A i \in 1..Len(c) : Len(a) + (2 + i) = Len(a) + 2 + i
  BY <1>1
<1>10. IsPathOf(p, a, b, c, d)
  BY <1>1, <1>5, <1>6, <1>7, <1>8, <1>9 DEF IsPathOf
<1>11. QED
  BY <1>5, <1>10 DEF p, bcd, bc

LEMMA InformersPath ==
  ASSUME NEW prefix \in Endpoints, NEW cluster, NEW kind,
         NEW p, p = prefix \o Collection(cluster, kind, FALSE)
  PROVE  /\ Len(prefix) \in Nat /\ CollectionPath(p, Len(prefix), cluster, kind)
         /\ \E S : p \in Seq(S)
<1>1. PICK S : /\ {"services", "apiexport", "root", "core", "clusters", "api", "apis", "v1"} \subseteq S
               /\ cluster \in S /\ kind[1] \in S /\ kind[2] \in S
  <2> DEFINE S == {"services", "apiexport", "root", "core", "clusters", "api", "apis", "v1"}
                    \cup {cluster, kind[1], kind[2]}
  <2>1. /\ {"services", "apiexport", "root", "core", "clusters", "api", "apis", "v1"} \subseteq S
        /\ cluster \in S /\ kind[1] \in S /\ kind[2] \in S
    OBVIOUS
  <2>2. QED
    BY <2>1
<1>2. /\ prefix \in Seq(S) /\ Len(prefix) \in Nat
      /\ \A i \in 1..Len(prefix) : prefix[i] # "clusters"
  <2>1. CASE prefix = <<>>
    BY <2>1
  <2>2. CASE prefix = <<"services", "apiexport", "root", "core">>
    BY <1>1, <2>2
  <2>3. QED
    BY <2>1, <2>2 DEF Endpoints
<1> DEFINE b == <<"clusters", cluster>>
           d == <<kind[2]>>
<1>3. b \in Seq(S) /\ Len(b) = 2 /\ b[1] = "clusters" /\ b[2] = cluster
  BY <1>1
<1>4. d \in Seq(S) /\ Len(d) = 1 /\ d[1] = kind[2]
  BY <1>1
<1>5. CASE kind[1] = ""
  <2> DEFINE c == <<"api", "v1">>
  <2>1. c \in Seq(S) /\ Len(c) = 2 /\ c[1] = "api"
    BY <1>1
  <2>2. b \o c \in Seq(S)
    BY <1>3, <2>1, ConcatJoins
  <2>3. Collection(cluster, kind, FALSE) = (b \o c) \o d
    BY <1>5, <2>2, ConcatEmptySeq DEF Collection, Root
  <2> HIDE DEF b, c, d
  <2>4. p = prefix \o ((b \o c) \o d)
    BY <2>3
  <2>5. p \in Seq(S) /\ IsPathOf(p, prefix, b, c, d)
    <3>1. /\ prefix \in Seq(S) /\ b \in Seq(S) /\ c \in Seq(S) /\ d \in Seq(S)
          /\ Len(b) = 2 /\ Len(d) = 1
      BY <1>2, <1>3, <1>4, <2>1
    <3>2. /\ prefix \o ((b \o c) \o d) \in Seq(S)
          /\ IsPathOf(prefix \o ((b \o c) \o d), prefix, b, c, d)
      BY <3>1, PathParts
    <3>3. QED
      BY <2>4, <3>2
  <2>6. Len(prefix) + 3 + 2 = Len(prefix) + 5 /\ Len(prefix) + 2 + 1 = Len(prefix) + 3
    BY <1>2
  <2>7. /\ Len(p) = Len(prefix) + 3 + 2
        /\ \A i \in 1..Len(prefix) : p[i] = prefix[i]
        /\ p[Len(prefix) + 1] = "clusters" /\ p[Len(prefix) + 2] = cluster
        /\ \A i \in 1..2 : p[Len(prefix) + 2 + i] = c[i]
        /\ p[Len(prefix) + 3 + 2] = kind[2]
    BY <1>3, <1>4, <2>1, <2>5 DEF IsPathOf
  <2>8. CollectionPath(p, Len(prefix), cluster, kind)
    <3>1. p[Len(prefix) + 3] = "api"
      <4>1. 1 \in 1..2
        OBVIOUS
      <4>2. p[Len(prefix) + 2 + 1] = c[1]
        BY <2>7, <4>1, Zenon
      <4>3. QED
        BY <2>1, <2>6, <4>2
    <3>2. Len(p) = Len(prefix) + 5 /\ p[Len(prefix) + 5] = kind[2]
      BY <2>6, <2>7
    <3>3. QED
      BY <1>2, <1>5, <2>7, <3>1, <3>2 DEF CollectionPath
  <2>9. QED
    BY <1>2, <2>5, <2>8
<1>6. CASE kind[1] # ""
  <2> DEFINE c == <<"apis", kind[1], "v1">>
  <2>1. c \in Seq(S) /\ Len(c) = 3 /\ c[1] = "apis" /\ c[2] = kind[1]
    BY <1>1
  <2>2. b \o c \in Seq(S)
    BY <1>3, <2>1, ConcatJoins
  <2>3. Collection(cluster, kind, FALSE) = (b \o c) \o d
    BY <1>6, <2>2, ConcatEmptySeq DEF Collection, Root
  <2> HIDE DEF b, c, d
  <2>4. p = prefix \o ((b \o c) \o d)
    BY <2>3
  <2>5. p \in Seq(S) /\ IsPathOf(p, prefix, b, c, d)
    <3>1. /\ prefix \in Seq(S) /\ b \in Seq(S) /\ c \in Seq(S) /\ d \in Seq(S)
          /\ Len(b) = 2 /\ Len(d) = 1
      BY <1>2, <1>3, <1>4, <2>1
    <3>2. /\ prefix \o ((b \o c) \o d) \in Seq(S)
          /\ IsPathOf(prefix \o ((b \o c) \o d), prefix, b, c, d)
      BY <3>1, PathParts
    <3>3. QED
      BY <2>4, <3>2
  <2>6. /\ Len(prefix) + 3 + 3 = Len(prefix) + 6 /\ Len(prefix) + 2 + 1 = Len(prefix) + 3
        /\ Len(prefix) + 2 + 2 = Len(prefix) + 4
    BY <1>2
  <2>7. /\ Len(p) = Len(prefix) + 3 + 3
        /\ \A i \in 1..Len(prefix) : p[i] = prefix[i]
        /\ p[Len(prefix) + 1] = "clusters" /\ p[Len(prefix) + 2] = cluster
        /\ \A i \in 1..3 : p[Len(prefix) + 2 + i] = c[i]
        /\ p[Len(prefix) + 3 + 3] = kind[2]
    BY <1>3, <1>4, <2>1, <2>5 DEF IsPathOf
  <2>8. CollectionPath(p, Len(prefix), cluster, kind)
    <3>1. p[Len(prefix) + 3] = "apis" /\ p[Len(prefix) + 4] = kind[1]
      <4>1. 1 \in 1..3 /\ 2 \in 1..3
        OBVIOUS
      <4>2. p[Len(prefix) + 2 + 1] = c[1] /\ p[Len(prefix) + 2 + 2] = c[2]
        BY <2>7, <4>1, Zenon
      <4>3. QED
        BY <2>1, <2>6, <4>2
    <3>2. Len(p) = Len(prefix) + 6 /\ p[Len(prefix) + 6] = kind[2]
      BY <2>6, <2>7
    <3>3. QED
      BY <1>2, <1>6, <2>7, <3>1, <3>2 DEF CollectionPath
  <2>9. QED
    BY <1>2, <2>5, <2>8
<1>7. QED
  BY <1>5, <1>6

LEMMA OneIsNotEmpty == ASSUME NEW t, Len(t) = 1 PROVE t # <<>>
OBVIOUS

\* A watch of a collection is classified as what it is a watch of.
IsWatchOf(r, cluster, kind) ==
  IsWatch(r) /\ r.cluster = cluster /\ r.group = kind[1] /\ r.resource = kind[2]

LEMMA RequestOfAWatch ==
  ASSUME NEW verb, NEW cluster, NEW group, NEW resource, NEW r,
         verb \in {"watch", "watch-list"}, r = Request(verb, cluster, group, resource)
  PROVE  IsWatch(r) /\ r.cluster = cluster /\ r.group = group /\ r.resource = resource
<1>1. /\ r.verb = verb /\ r.cluster = cluster
      /\ r.group = group /\ r.resource = resource
  BY DEF Request
<1>2. QED
  BY <1>1 DEF IsWatch

LEMMA WatchIsClassified ==
  ASSUME NEW S, NEW p \in Seq(S), NEW n \in Nat, NEW cluster, NEW kind,
         NEW watch \in {"initial", "plain"}, CollectionPath(p, n, cluster, kind)
  PROVE  IsWatchOf(Classify("GET", p, watch), cluster, kind)
<1> DEFINE rest == BelowCluster(p)
<1>1. Len(p) \in Nat /\ Len(p) >= n + 5 /\ \A i \in 1..Len(p) : p[i] \in S
  <2>1. Len(p) \in Nat /\ \A i \in 1..Len(p) : p[i] \in S
    BY LenProperties, ElementOfSeq
  <2>2. Len(p) = n + 5 \/ Len(p) = n + 6
    BY DEF CollectionPath
  <2>3. QED
    BY <2>1, <2>2
<1>a. /\ \A i \in 1..n : p[i] # "clusters"
      /\ p[n + 1] = "clusters" /\ p[n + 2] = cluster
  BY DEF CollectionPath
<1>2. Segment(p, "clusters") = n + 1
  <2> DEFINE I == {i \in 1..Len(p) : p[i] = "clusters"}
  <2>1. n + 1 \in I /\ \A i \in I : n + 1 <= i
    BY <1>1, <1>a
  <2>2. Segment(p, "clusters") = CHOOSE x \in I : \A y \in I : x <= y
    BY <2>1 DEF Segment, SelectInSeq, Min
  <2>3. \A x \in I : (\A y \in I : x <= y) => x = n + 1
    BY <2>1
  <2> HIDE DEF I
  <2>4. QED
    BY <2>1, <2>2, <2>3
<1>3. HasCluster(p) /\ ClusterOf(p) = cluster
  <2>1. n + 1 > 0 /\ n + 1 < Len(p) /\ n + 1 + 1 = n + 2
    BY <1>1
  <2>2. HasCluster(p)
    BY <1>2, <2>1 DEF HasCluster
  <2>3. QED
    BY <1>2, <1>a, <2>1, <2>2 DEF ClusterOf
<1>4. rest = SubSeq(p, n + 3, Len(p))
  BY <1>2, <1>3 DEF BelowCluster
<1> HIDE DEF rest
<1>5. /\ rest \in Seq(S) /\ Len(rest) = Len(p) - n - 2
      /\ \A i \in 1..Len(p) - n - 2 : rest[i] = p[n + 2 + i]
  <2>1. \A i \in n + 3 .. Len(p) : p[i] \in S
    BY <1>1
  <2>2. /\ rest \in Seq(S) /\ Len(rest) = Len(p) - (n + 3) + 1
        /\ \A i \in 1 .. Len(p) - (n + 3) + 1 : rest[i] = p[n + 3 + i - 1]
    BY <1>1, <1>4, <2>1, SubSeqProperties
  <2>3. QED
    BY <1>1, <2>2
<1>6. rest # <<>> /\ \A i \in 1..Len(rest) : rest[i] \in S
  BY <1>1, <1>5, EmptySeq, ElementOfSeq
<1>7. /\ rest[1] \in {"api", "apis"} /\ PathGroup(rest) = kind[1]
      /\ Len(rest) >= (IF rest[1] = "apis" THEN 3 ELSE 2)
      /\ ObjectTail(rest) # <<>> /\ Len(ObjectTail(rest)) = 1 /\ ObjectTail(rest)[1] = kind[2]
  <2>1. CASE kind[1] = ""
    <3>1. Len(rest) = 3 /\ rest[1] = "api" /\ rest[3] = kind[2]
      <4>1. Len(p) = n + 5 /\ p[n + 3] = "api" /\ p[n + 5] = kind[2]
        BY <2>1 DEF CollectionPath
      <4>2. Len(p) - n - 2 = 3 /\ n + 2 + 1 = n + 3 /\ n + 2 + 3 = n + 5
        BY <4>1
      <4>3. Len(rest) = 3 /\ \A i \in 1..3 : rest[i] = p[n + 2 + i]
        BY <1>5, <4>2
      <4>4. QED
        BY <4>1, <4>2, <4>3
    <3>2. /\ SubSeq(rest, 3, Len(rest)) \in Seq(S) /\ Len(SubSeq(rest, 3, Len(rest))) = 1
          /\ SubSeq(rest, 3, Len(rest))[1] = kind[2]
      <4>1. /\ SubSeq(rest, 3, 3) \in Seq(S) /\ Len(SubSeq(rest, 3, 3)) = 3 - 3 + 1
            /\ \A i \in 1..3 - 3 + 1 : SubSeq(rest, 3, 3)[i] = rest[3 + i - 1]
        BY <1>6, <3>1, SubSeqProperties
      <4>2. QED
        BY <3>1, <4>1
    <3>3. ObjectTail(rest) = SubSeq(rest, 3, Len(rest))
      BY <3>1, <3>2 DEF ObjectTail
    <3>4. ObjectTail(rest) # <<>>
      <4>1. Len(ObjectTail(rest)) = 1
        BY <3>2, <3>3
      <4>2. QED
        BY <4>1, OneIsNotEmpty
    <3>5. rest[1] # "apis"
      BY <3>1
    <3>6. PathGroup(rest) = kind[1]
      BY <2>1, <3>5 DEF PathGroup
    <3>7. QED
      BY <3>1, <3>2, <3>3, <3>4, <3>5, <3>6
  <2>2. CASE kind[1] # ""
    <3>1. Len(rest) = 4 /\ rest[1] = "apis" /\ rest[2] = kind[1] /\ rest[4] = kind[2]
      <4>1. /\ Len(p) = n + 6 /\ p[n + 3] = "apis" /\ p[n + 4] = kind[1]
            /\ p[n + 6] = kind[2]
        BY <2>2 DEF CollectionPath
      <4>2. /\ Len(p) - n - 2 = 4 /\ n + 2 + 1 = n + 3 /\ n + 2 + 2 = n + 4
            /\ n + 2 + 4 = n + 6
        BY <4>1
      <4>3. Len(rest) = 4 /\ \A i \in 1..4 : rest[i] = p[n + 2 + i]
        BY <1>5, <4>2
      <4>4. QED
        BY <4>1, <4>2, <4>3
    <3>2. /\ SubSeq(rest, 4, Len(rest)) \in Seq(S) /\ Len(SubSeq(rest, 4, Len(rest))) = 1
          /\ SubSeq(rest, 4, Len(rest))[1] = kind[2]
      <4>1. /\ SubSeq(rest, 4, 4) \in Seq(S) /\ Len(SubSeq(rest, 4, 4)) = 4 - 4 + 1
            /\ \A i \in 1..4 - 4 + 1 : SubSeq(rest, 4, 4)[i] = rest[4 + i - 1]
        BY <1>6, <3>1, SubSeqProperties
      <4>2. QED
        BY <3>1, <4>1
    <3>3. ObjectTail(rest) = SubSeq(rest, 4, Len(rest))
      BY <3>1, <3>2 DEF ObjectTail
    <3>4. ObjectTail(rest) # <<>>
      <4>1. Len(ObjectTail(rest)) = 1
        BY <3>2, <3>3
      <4>2. QED
        BY <4>1, OneIsNotEmpty
    <3>5. QED
      BY <3>1, <3>2, <3>3, <3>4 DEF PathGroup
  <2>3. QED
    BY <2>1, <2>2
<1>8. IsObjectPath(rest)
  BY <1>6, <1>7 DEF IsObjectPath
<1>9. (Len(ObjectTail(rest)) > 1) = FALSE
  BY <1>7
<1>10. Classify("GET", p, watch)
         = Request(VerbOf("GET", Len(ObjectTail(rest)) > 1, watch), ClusterOf(p),
                   PathGroup(rest), ObjectTail(rest)[1])
  BY <1>8 DEF Classify, rest
<1>11. VerbOf("GET", FALSE, watch) \in {"watch", "watch-list"}
  BY DEF VerbOf, Writes
<1>12. Classify("GET", p, watch) = Request(VerbOf("GET", FALSE, watch), cluster, kind[1], kind[2])
  BY <1>3, <1>7, <1>9, <1>10
<1> DEFINE verb == VerbOf("GET", FALSE, watch)
           request == Classify("GET", p, watch)
<1>13. verb \in {"watch", "watch-list"} /\ request = Request(verb, cluster, kind[1], kind[2])
  BY <1>11, <1>12
<1> HIDE DEF verb, request
<1>14. /\ IsWatch(request) /\ request.cluster = cluster
       /\ request.group = kind[1] /\ request.resource = kind[2]
  BY <1>13, RequestOfAWatch
<1>15. IsWatchOf(request, cluster, kind)
  BY <1>14 DEF IsWatchOf
<1>16. QED
  BY <1>15 DEF request

\* Nothing but a watch is classified as one.
LEMMA OthersAreNoWatch ==
  ASSUME NEW method, NEW path
  PROVE  ~IsWatch(Classify(method, path, "no"))
<1>1. \A named \in BOOLEAN : VerbOf(method, named, "no") \notin {"watch", "watch-list"}
  BY DEF VerbOf, Writes
<1> DEFINE rest == BelowCluster(path)
           named == Len(ObjectTail(rest)) > 1
<1>2. CASE IsObjectPath(rest)
  <2>1. Classify(method, path, "no").verb = VerbOf(method, named, "no")
    BY <1>2 DEF Classify, Request
  <2>2. named \in BOOLEAN
    OBVIOUS
  <2>3. QED
    BY <1>1, <2>1, <2>2 DEF IsWatch
<1>3. CASE ~IsObjectPath(rest)
  <2>1. Classify(method, path, "no").verb \in {"discovery", "other"}
    BY <1>3 DEF Classify, Request
  <2>2. QED
    BY <2>1 DEF IsWatch
<1>4. QED
  BY <1>2, <1>3

-----------------------------------------------------------------------------
\* An informer as what it watches.
ThingOf(o) == <<o[1], o[2][1], o[2][2]>>
Things(informers) == {ThingOf(o) : o \in informers}
Watches == {r \in DOMAIN counts : IsWatch(r)}
Watched(requested) == {<<r.cluster, r.group, r.resource>> : r \in requested}

\* Every request is counted, and what is watched is what the informers watch.
CountsAreReal ==
  /\ opened \subseteq Clusters \X Kinds /\ IsFiniteSet(opened)
  /\ requests \in Nat
  /\ IsCounterMap(counts) /\ SumFunction(counts) = requests
  /\ Watched(Watches) = Things(opened)

\* Two informers watch two things.
LEMMA ThingsAreAsMany ==
  ASSUME NEW informers \in SUBSET (Clusters \X Kinds), IsFiniteSet(informers)
  PROVE  IsFiniteSet(Things(informers)) /\ Cardinality(Things(informers)) = Cardinality(informers)
<1> DEFINE f == [o \in informers |-> ThingOf(o)]
<1>1. f \in [informers -> Things(informers)]
  BY DEF Things
<1>2. \A o, q \in informers : f[o] = f[q] => o = q
  <2> SUFFICES ASSUME NEW o \in informers, NEW q \in informers, f[o] = f[q]
               PROVE  o = q
    OBVIOUS
  <2>1. /\ o = <<o[1], o[2]>> /\ q = <<q[1], q[2]>> /\ o[2] \in Kinds /\ q[2] \in Kinds
    OBVIOUS
  <2>2. o[1] = q[1] /\ o[2][1] = q[2][1] /\ o[2][2] = q[2][2]
    BY DEF ThingOf
  <2>3. o[2] = <<o[2][1], o[2][2]>> /\ q[2] = <<q[2][1], q[2][2]>>
    BY <2>1, TrafficAssumption
  <2>4. QED
    BY <2>1, <2>2, <2>3
<1>3. \A t \in Things(informers) : \E o \in informers : f[o] = t
  BY DEF Things
<1>4. f \in Bijection(informers, Things(informers))
  BY <1>1, <1>2, <1>3 DEF Bijection, Injection, Surjection, IsInjective
<1>5. ExistsBijection(informers, Things(informers))
  BY <1>4 DEF ExistsBijection
<1>6. QED
  BY <1>5, FS_Bijection

\* The streams, apart by what their cluster is.
LEMMA StreamsApart ==
  ASSUME CountsAreReal
  PROVE  StreamsAreInformers
<1> DEFINE wild == {o \in opened : o[1] = "*"}
           scoped == opened \ wild
<1>1. /\ opened \in SUBSET (Clusters \X Kinds) /\ IsFiniteSet(opened)
      /\ wild \in SUBSET (Clusters \X Kinds) /\ IsFiniteSet(wild)
      /\ scoped \in SUBSET (Clusters \X Kinds) /\ IsFiniteSet(scoped)
  BY FS_Subset DEF CountsAreReal
<1>2. Watched(Watches) = Things(opened)
  BY DEF CountsAreReal
<1>3. Watched({r \in Watches : IsWildcard(r)}) = Things(wild)
  <2>1. Watched({r \in Watches : IsWildcard(r)}) = {t \in Watched(Watches) : t[1] = "*"}
    BY DEF Watched, IsWildcard
  <2>2. Things(wild) = {t \in Things(opened) : t[1] = "*"}
    BY DEF Things, ThingOf
  <2>3. QED
    BY <1>2, <2>1, <2>2
<1>4. Watched({r \in Watches : IsWorkspaceScoped(r)}) = Things(scoped)
  <2>1. Watched({r \in Watches : IsWorkspaceScoped(r)})
          = {t \in Watched(Watches) : t[1] # "" /\ t[1] # "*"}
    <3> DEFINE thing == [r \in Watches |-> <<r.cluster, r.group, r.resource>>]
               there == {r \in Watches : IsWorkspaceScoped(r)}
    <3>1. \A r \in Watches : r \in there <=> thing[r][1] # "" /\ thing[r][1] # "*"
      BY DEF IsWorkspaceScoped
    <3>2. Watched(there) = {thing[r] : r \in there} /\ Watched(Watches) = {thing[r] : r \in Watches}
      BY DEF Watched
    <3>3. there \subseteq Watches
      OBVIOUS
    <3> HIDE DEF thing, there
    <3>4. Watched(there) = {t \in Watched(Watches) : t[1] # "" /\ t[1] # "*"}
      BY <3>1, <3>2, <3>3
    <3>5. QED
      BY <3>4 DEF there
  <2>2. \A o \in opened : o[1] # ""
    BY <1>1, TrafficAssumption
  <2>3. Things(scoped) = {t \in Things(opened) : t[1] # "" /\ t[1] # "*"}
    <3> DEFINE thing == [o \in opened |-> ThingOf(o)]
    <3>1. \A o \in opened : o \in scoped <=> thing[o][1] # "" /\ thing[o][1] # "*"
      BY <2>2 DEF ThingOf
    <3>2. Things(scoped) = {thing[o] : o \in scoped} /\ Things(opened) = {thing[o] : o \in opened}
      BY DEF Things
    <3>3. scoped \subseteq opened
      OBVIOUS
    <3> HIDE DEF thing, scoped
    <3>4. QED
      BY <3>1, <3>2, <3>3
  <2>4. QED
    BY <1>2, <2>1, <2>3
<1>5. Cardinality(scoped) = Cardinality(opened) - Cardinality(wild)
  <2>1. opened \cap wild = wild
    OBVIOUS
  <2> HIDE DEF wild
  <2>2. QED
    BY <1>1, <2>1, FS_Difference
<1>6. /\ Cardinality(Watched(Watches)) = Cardinality(opened)
      /\ Cardinality(Watched({r \in Watches : IsWildcard(r)})) = Cardinality(wild)
      /\ Cardinality(Watched({r \in Watches : IsWorkspaceScoped(r)})) = Cardinality(scoped)
  <2> HIDE DEF wild, scoped
  <2>1. QED
    BY <1>1, <1>2, <1>3, <1>4, ThingsAreAsMany
<1>7. TotalOf(counts, DOMAIN counts) = requests
  BY DEF TotalOf, CountsAreReal, SumFunction, SumFunctionOnSet
<1>8. /\ TrafficOf(counts).watchStreams = Cardinality(Watched(Watches))
      /\ TrafficOf(counts).wildcardWatchStreams
           = Cardinality(Watched({r \in Watches : IsWildcard(r)}))
      /\ TrafficOf(counts).scopedWatchStreams
           = Cardinality(Watched({r \in Watches : IsWorkspaceScoped(r)}))
      /\ TrafficOf(counts).total = TotalOf(counts, DOMAIN counts)
  BY DEF TrafficOf, DistinctStreams, Watches, Watched
<1>9. QED
  BY <1>5, <1>6, <1>7, <1>8 DEF StreamsAreInformers

\* A request more is one more in the total, and watched is what it watches.
LEMMA RequestIsCounted ==
  ASSUME CountsAreReal, NEW r, counts' = Observe(counts, r), requests' = requests + 1
  PROVE  /\ requests' \in Nat /\ IsCounterMap(counts') /\ SumFunction(counts') = requests'
         /\ ~IsWatch(r) => Watched(Watches)' = Watched(Watches)
         /\ IsWatch(r) => Watched(Watches)' = Watched(Watches) \cup {<<r.cluster, r.group, r.resource>>}
<1>1. counts' = WithCount(counts, r, CountOf(counts, r) + 1)
  BY DEF Observe, Seen, WithCount, CountOf
<1>2. IsCounterMap(counts) /\ SumFunction(counts) = requests /\ requests \in Nat
  BY DEF CountsAreReal
<1>3. CountOf(counts, r) \in Nat /\ CountOf(counts, r) + 1 \in Nat
  BY <1>2 DEF CountOf, IsCounterMap, NaturalOn
<1>4. /\ IsCounterMap(counts')
      /\ SumFunction(counts') = SumFunction(counts) - CountOf(counts, r) + (CountOf(counts, r) + 1)
  BY <1>1, <1>2, <1>3, TotalWithCount
<1>5. DOMAIN counts' = DOMAIN counts \cup {r}
  BY DEF Observe
<1>6. /\ ~IsWatch(r) => Watches' = Watches
      /\ IsWatch(r) => Watches' = Watches \cup {r}
  BY <1>5 DEF Watches, IsWatch
<1>7. Watched(Watches)' = {<<q.cluster, q.group, q.resource>> : q \in Watches'}
  BY DEF Watched
<1>8. /\ ~IsWatch(r) => Watched(Watches)' = Watched(Watches)
      /\ IsWatch(r) => Watched(Watches)' = Watched(Watches) \cup {<<r.cluster, r.group, r.resource>>}
  BY <1>6, <1>7 DEF Watched
<1>9. QED
  BY <1>2, <1>3, <1>4, <1>8

\* A stream opened, for the first time or again, is watched as what it is of.
LEMMA StreamIsCounted ==
  ASSUME CountsAreReal, NEW cluster \in Clusters, NEW kind \in Kinds,
         Open(cluster, kind) \/ Reopen(cluster, kind)
  PROVE  CountsAreReal'
<1> DEFINE o == <<cluster, kind>>
<1>1. PICK prefix \in Endpoints, watch \in {"initial", "plain"} :
        RoundTrip("GET", prefix \o Collection(cluster, kind, FALSE), watch)
  BY DEF Open, Reopen
<1>2. opened' = opened \cup {o}
  BY DEF Open, Reopen
<1> DEFINE p == prefix \o Collection(cluster, kind, FALSE)
           r == Classify("GET", p, watch)
<1>3. IsWatchOf(r, cluster, kind)
  <2>1. /\ Len(prefix) \in Nat /\ CollectionPath(p, Len(prefix), cluster, kind)
        /\ \E S : p \in Seq(S)
    BY InformersPath
  <2> HIDE DEF p
  <2>2. QED
    BY <2>1, WatchIsClassified
<1>4. IsWatch(r) /\ <<r.cluster, r.group, r.resource>> = <<cluster, kind[1], kind[2]>>
  <2> HIDE DEF r
  <2>1. QED
    BY <1>3 DEF IsWatchOf
<1>5. counts' = Observe(counts, r) /\ requests' = requests + 1
  BY <1>1 DEF RoundTrip
<1> HIDE DEF r
<1>7. /\ requests' \in Nat /\ IsCounterMap(counts') /\ SumFunction(counts') = requests'
      /\ Watched(Watches)' = Watched(Watches) \cup {<<cluster, kind[1], kind[2]>>}
  BY <1>4, <1>5, RequestIsCounted
<1>8. Things(opened)' = Things(opened) \cup {<<cluster, kind[1], kind[2]>>}
  <2>1. ThingOf(o) = <<cluster, kind[1], kind[2]>>
    BY DEF ThingOf
  <2> HIDE DEF o
  <2>2. Things(opened \cup {o}) = Things(opened) \cup {ThingOf(o)}
    BY DEF Things
  <2>3. Things(opened)' = Things(opened')
    BY DEF Things, ThingOf
  <2>4. QED
    BY <1>2, <2>1, <2>2, <2>3
<1>9. opened' \subseteq Clusters \X Kinds /\ IsFiniteSet(opened')
  <2>1. o \in Clusters \X Kinds
    OBVIOUS
  <2>2. opened \subseteq Clusters \X Kinds /\ IsFiniteSet(opened)
    BY DEF CountsAreReal
  <2> HIDE DEF o
  <2>3. QED
    BY <1>2, <2>1, <2>2, FS_AddElement
<1>10. Watched(Watches)' = Things(opened)'
  BY <1>7, <1>8 DEF CountsAreReal
<1>11. QED
  BY <1>7, <1>9, <1>10 DEF CountsAreReal

\* Whatever else is asked for opens no stream.
LEMMA OthersAreCounted ==
  ASSUME CountsAreReal, NEW cluster, NEW kind, NEW method,
         Call(cluster, kind, method) \/ Discover(cluster, kind)
  PROVE  CountsAreReal'
<1>1. PICK m, path : RoundTrip(m, path, "no")
  BY DEF Call, Discover
<1>2. opened' = opened
  BY DEF Call, Discover
<1> DEFINE r == Classify(m, path, "no")
<1>3. ~IsWatch(r) /\ counts' = Observe(counts, r) /\ requests' = requests + 1
  BY <1>1, OthersAreNoWatch DEF RoundTrip
<1> HIDE DEF r
<1>4. /\ requests' \in Nat /\ IsCounterMap(counts') /\ SumFunction(counts') = requests'
      /\ Watched(Watches)' = Watched(Watches)
  BY <1>3, RequestIsCounted
<1>5. QED
  BY <1>2, <1>4 DEF CountsAreReal, Things

LEMMA InitCounts == TrafficInit => CountsAreReal
<1> SUFFICES ASSUME TrafficInit PROVE CountsAreReal
  OBVIOUS
<1>1. DOMAIN counts = {} /\ opened = {} /\ requests = 0
  BY DEF TrafficInit, Nothing
<1>2. IsCounterMap(counts) /\ SumFunction(counts) = 0
  BY <1>1, FS_EmptySet, TotalOfNone DEF IsCounterMap, NaturalOn
<1>3. Watched(Watches) = {} /\ Things(opened) = {}
  BY <1>1 DEF Watches, Watched, Things
<1>4. QED
  BY <1>1, <1>2, <1>3, FS_EmptySet DEF CountsAreReal

\* What a sweep reports of the traffic is what its clients did, for any
\* clusters and kinds and however often their streams were opened again: in all
\* and between two samples (classify.go:283-305 and 345-358; report.go:56-75).
THEOREM TrafficIsAlwaysReal == TrafficSpec => []TrafficIsReal
<1>1. CountsAreReal /\ [TrafficNext]_trafficVars => CountsAreReal'
  <2> SUFFICES ASSUME CountsAreReal, [TrafficNext]_trafficVars PROVE CountsAreReal'
    OBVIOUS
  <2>1. CASE counts' = counts /\ opened' = opened /\ requests' = requests
    BY <2>1 DEF CountsAreReal, Watches, Watched, Things
  <2>2. CASE SnapshotTaken \/ UNCHANGED trafficVars
    BY <2>1, <2>2 DEF SnapshotTaken, trafficVars
  <2>3. QED
    BY <2>2, StreamIsCounted, OthersAreCounted DEF TrafficNext
<1>2. CountsAreReal /\ DeltaIsWhatHappened => TrafficIsReal
  BY StreamsApart DEF TrafficIsReal
<1>3. QED
  BY <1>1, <1>2, InitCounts, DeltaIsTrue, PTL DEF TrafficSpec

-----------------------------------------------------------------------------
(* The log of the changeWriter, for any lines and any cutting of the writes. *)

\* What is recorded at the n-th byte, given what was recorded before it.
RecordedAt(out, text, g, n) ==
  IF n = 0 THEN out
  ELSE IF text[n] = "nl" THEN RecordLine(g[n - 1], LineEndingAt(text, n))
  ELSE g[n - 1]

Records(out, text) == CHOOSE g : g = [n \in 0..Len(text) |-> RecordedAt(out, text, g, n)]

LEMMA RecordedIsRecords ==
  ASSUME NEW out, NEW text
  PROVE  Recorded(out, text) = Records(out, text)[Len(text)]
BY DEF Recorded, Records, RecordedAt

\* The recursive function satisfies its own equation.
LEMMA RecordsExist ==
  ASSUME NEW out, NEW text, Len(text) \in Nat
  PROVE  Records(out, text)
           = [n \in 0..Len(text) |-> RecordedAt(out, text, Records(out, text), n)]
<1> DEFINE Follows(n, g) == \A i \in 0..n : g[i] = RecordedAt(out, text, g, i)
           G == {n \in Nat : \E g : Follows(n, g)}
<1>1. 0 \in G
  <2> DEFINE g == [i \in 0..0 |-> out]
  <2>1. Follows(0, g)
    BY DEF RecordedAt
  <2>2. QED
    BY <2>1
<1>2. ASSUME NEW n \in Nat, n \in G PROVE n + 1 \in G
  <2>1. PICK g : Follows(n, g)
    BY <1>2
  <2> DEFINE h == [i \in 0..n + 1 |-> IF i <= n THEN g[i] ELSE RecordedAt(out, text, g, n + 1)]
  <2>2. ASSUME NEW i \in 0..n + 1 PROVE h[i] = RecordedAt(out, text, h, i)
    <3>1. h[i] = RecordedAt(out, text, g, i)
      <4>1. i <= n \/ i = n + 1
        OBVIOUS
      <4>2. CASE i <= n
        BY <2>1, <4>2
      <4>3. CASE i = n + 1
        BY <4>3
      <4>4. QED
        BY <4>1, <4>2, <4>3
    <3>2. i # 0 => h[i - 1] = g[i - 1]
      OBVIOUS
    <3> HIDE DEF h
    <3>3. QED
      BY <3>1, <3>2 DEF RecordedAt
  <2>3. \E f : Follows(n + 1, f)
    BY <2>2
  <2>4. QED
    BY <2>3
<1>3. Len(text) \in G
  <2> HIDE DEF G
  <2>1. QED
    BY <1>1, <1>2, UpToInduction
<1>4. PICK g : Follows(Len(text), g)
  BY <1>3
<1> DEFINE h == [n \in 0..Len(text) |-> g[n]]
<1>5. ASSUME NEW n \in 0..Len(text) PROVE h[n] = RecordedAt(out, text, h, n)
  <2>1. g[n] = RecordedAt(out, text, g, n)
    BY <1>4
  <2>2. h[n] = g[n] /\ (n # 0 => h[n - 1] = g[n - 1])
    OBVIOUS
  <2> HIDE DEF h
  <2>3. QED
    BY <2>1, <2>2 DEF RecordedAt
<1>6. h = [n \in 0..Len(text) |-> RecordedAt(out, text, h, n)]
  BY <1>5
<1>7. QED
  <2> HIDE DEF h
  <2>1. QED
    BY <1>6 DEF Records

LEMMA RecordsStep ==
  ASSUME NEW out, NEW text, Len(text) \in Nat, NEW n \in 0..Len(text)
  PROVE  Records(out, text)[n] = RecordedAt(out, text, Records(out, text), n)
<1>1. ASSUME NEW h, h = [i \in 0..Len(text) |-> RecordedAt(out, text, h, i)]
      PROVE  h[n] = RecordedAt(out, text, h, n)
  BY <1>1
<1>2. QED
  BY <1>1, RecordsExist

\* b is the last break among the first n bytes, 0 before there is one.
IsLastBreak(text, n, b) ==
  /\ b \in 0..n /\ (b = 0 \/ text[b] = "nl")
  /\ \A i \in 1..n : text[i] = "nl" => i <= b

LEMMA OneLastBreak ==
  ASSUME NEW text, NEW n \in Nat, NEW b, IsLastBreak(text, n, b)
  PROVE  LastBreak(text, n) = b
<1> DEFINE B == {0} \cup {i \in 1..n : text[i] = "nl"}
<1>1. b \in B /\ \A i \in B : b >= i
  BY DEF IsLastBreak
<1>2. \A x \in B : (\A y \in B : x >= y) => x = b
  BY <1>1
<1>3. LastBreak(text, n) = CHOOSE x \in B : \A y \in B : x >= y
  BY DEF LastBreak, Max
<1> HIDE DEF B
<1>4. QED
  BY <1>1, <1>2, <1>3

LEMMA LastBreakIsLast ==
  ASSUME NEW text
  PROVE  \A n \in Nat : IsLastBreak(text, n, LastBreak(text, n))
<1> DEFINE G == {n \in Nat : \E b : IsLastBreak(text, n, b)}
<1>1. 0 \in G
  <2>1. IsLastBreak(text, 0, 0)
    BY DEF IsLastBreak
  <2>2. QED
    BY <2>1
<1>2. ASSUME NEW n \in Nat, n \in G PROVE n + 1 \in G
  <2>1. PICK b : IsLastBreak(text, n, b)
    BY <1>2
  <2>2. IsLastBreak(text, n + 1, IF text[n + 1] = "nl" THEN n + 1 ELSE b)
    <3>1. \A i \in 1..n + 1 : i \in 1..n \/ i = n + 1
      OBVIOUS
    <3>2. QED
      BY <2>1, <3>1 DEF IsLastBreak
  <2>3. QED
    BY <2>2
<1>3. \A n \in Nat : n \in G
  <2> HIDE DEF G
  <2>1. QED
    BY <1>1, <1>2, UpToInduction
<1>4. QED
  BY <1>3, OneLastBreak

\* After its first k bytes, which end a line, the whole goes on as text does.
GoesOn(whole, k, text) ==
  /\ k \in Nat /\ (k = 0 \/ whole[k] = "nl")
  /\ \A i \in 1..Len(text) : whole[k + i] = text[i]

LEMMA BreaksGoOn ==
  ASSUME NEW whole, NEW k, NEW text, Len(text) \in Nat, GoesOn(whole, k, text),
         NEW n \in 0..Len(text)
  PROVE  LastBreak(whole, k + n) = k + LastBreak(text, n)
<1>1. PICK b : b = LastBreak(text, n) /\ IsLastBreak(text, n, b)
  BY LastBreakIsLast
<1>2. k \in Nat /\ k + n \in Nat /\ b \in 0..n
  BY <1>1 DEF GoesOn, IsLastBreak
<1>3. k + b = 0 \/ whole[k + b] = "nl"
  BY <1>1, <1>2 DEF GoesOn, IsLastBreak
<1>4. ASSUME NEW i \in 1..k + n, whole[i] = "nl" PROVE i <= k + b
  <2>1. CASE i <= k
    BY <1>2, <2>1
  <2>2. CASE i > k
    <3>1. i - k \in 1..n /\ i - k \in 1..Len(text) /\ k + (i - k) = i
      BY <1>2, <2>2
    <3>2. text[i - k] = "nl"
      BY <1>4, <3>1 DEF GoesOn
    <3>3. i - k <= b
      BY <1>1, <3>1, <3>2 DEF IsLastBreak
    <3>4. QED
      BY <1>2, <3>3
  <2>3. QED
    BY <1>2, <2>1, <2>2
<1>5. IsLastBreak(whole, k + n, k + b)
  BY <1>2, <1>3, <1>4 DEF IsLastBreak
<1>6. QED
  BY <1>1, <1>2, <1>5, OneLastBreak

\* The parts of a text are those of the whole, k bytes further on.
HasItsParts(whole, k, text) ==
  \A a \in Nat, b \in 0..Len(text) : SubSeq(whole, k + a + 1, k + b) = SubSeq(text, a + 1, b)

LEMMA PartsGoOn ==
  ASSUME NEW S, NEW whole \in Seq(S), NEW k, NEW text \in Seq(S),
         GoesOn(whole, k, text), k + Len(text) <= Len(whole)
  PROVE  HasItsParts(whole, k, text)
<1> SUFFICES ASSUME NEW a \in Nat, NEW b \in 0..Len(text)
             PROVE  SubSeq(whole, k + a + 1, k + b) = SubSeq(text, a + 1, b)
  BY DEF HasItsParts
<1> DEFINE s == SubSeq(whole, k + a + 1, k + b)
           t == SubSeq(text, a + 1, b)
<1>1. /\ k \in Nat /\ Len(text) \in Nat /\ Len(whole) \in Nat
      /\ \A i \in 1..Len(whole) : whole[i] \in S
      /\ \A i \in 1..Len(text) : text[i] \in S
  BY LenProperties, ElementOfSeq DEF GoesOn
<1>2. /\ s \in Seq(S) /\ Len(s) = (IF k + a + 1 <= k + b THEN (k + b) - (k + a + 1) + 1 ELSE 0)
      /\ \A i \in 1..(k + b) - (k + a + 1) + 1 : s[i] = whole[k + a + 1 + i - 1]
  <2>1. \A i \in k + a + 1 .. k + b : whole[i] \in S
    BY <1>1
  <2>2. k + a + 1 \in Int /\ k + b \in Int
    BY <1>1
  <2>3. QED
    BY <2>1, <2>2, SubSeqProperties
<1>3. /\ t \in Seq(S) /\ Len(t) = (IF a + 1 <= b THEN b - (a + 1) + 1 ELSE 0)
      /\ \A i \in 1..b - (a + 1) + 1 : t[i] = text[a + 1 + i - 1]
  <2>1. \A i \in a + 1 .. b : text[i] \in S
    BY <1>1
  <2>2. a + 1 \in Int /\ b \in Int
    OBVIOUS
  <2>3. QED
    BY <2>1, <2>2, SubSeqProperties
<1> HIDE DEF s, t
<1>4. Len(s) = Len(t)
  BY <1>1, <1>2, <1>3
<1>5. ASSUME NEW i \in 1..Len(s) PROVE s[i] = t[i]
  <2>1. i \in 1..(k + b) - (k + a + 1) + 1 /\ i \in 1..b - (a + 1) + 1
    BY <1>1, <1>2, <1>3, <1>4
  <2>2. s[i] = whole[k + (a + i)] /\ t[i] = text[a + i]
    <3>1. k + a + 1 + i - 1 = k + (a + i) /\ a + 1 + i - 1 = a + i
      BY <1>1
    <3>2. QED
      BY <1>2, <1>3, <2>1, <3>1
  <2>3. a + i \in 1..Len(text)
    BY <1>1, <2>1
  <2>4. QED
    BY <2>2, <2>3 DEF GoesOn
<1>6. s = t
  BY <1>2, <1>3, <1>4, <1>5, SeqEqual
<1>7. QED
  BY <1>6 DEF s, t

LEMMA LinesGoOn ==
  ASSUME NEW S, NEW whole \in Seq(S), NEW k, NEW text \in Seq(S), GoesOn(whole, k, text),
         k + Len(text) <= Len(whole), NEW n \in 1..Len(text)
  PROVE  LineEndingAt(whole, k + n) = LineEndingAt(text, n)
<1>1. k \in Nat /\ Len(text) \in Nat
  BY LenProperties DEF GoesOn
<1>2. PICK m : m = n - 1 /\ m \in 0..Len(text) /\ (k + n) - 1 = k + m
  BY <1>1
<1>3. PICK b : b = LastBreak(text, m) /\ b \in Nat
  BY <1>1, <1>2, LastBreakIsLast DEF IsLastBreak
<1>4. LastBreak(whole, k + m) = k + b
  BY <1>1, <1>2, <1>3, BreaksGoOn
<1>5. SubSeq(whole, k + b + 1, k + m) = SubSeq(text, b + 1, m)
  <2>1. HasItsParts(whole, k, text)
    BY PartsGoOn
  <2>2. QED
    BY <1>2, <1>3, <2>1, Zenon DEF HasItsParts
<1>6. /\ LineEndingAt(whole, k + n) = TrimRight(SubSeq(whole, k + b + 1, k + m))
      /\ LineEndingAt(text, n) = TrimRight(SubSeq(text, b + 1, m))
  BY <1>2, <1>3, <1>4 DEF LineEndingAt
<1>7. QED
  BY <1>5, <1>6

\* Recording the whole is recording up to k, and the text from there.
LEMMA RecordsGoOn ==
  ASSUME NEW S, NEW out, NEW whole \in Seq(S), NEW k, NEW text \in Seq(S),
         GoesOn(whole, k, text), k + Len(text) <= Len(whole)
  PROVE  \A n \in 0..Len(text) :
           Records(out, whole)[k + n] = Records(Records(out, whole)[k], text)[n]
<1> DEFINE f == Records(out, whole)
           g == Records(f[k], text)
           G == {n \in Nat : n <= Len(text) => f[k + n] = g[n]}
<1>1. k \in Nat /\ Len(text) \in Nat /\ Len(whole) \in Nat
  BY LenProperties DEF GoesOn
<1>2. \A n \in 0..Len(whole) : f[n] = RecordedAt(out, whole, f, n)
  BY <1>1, RecordsStep
<1>3. \A n \in 0..Len(text) : g[n] = RecordedAt(f[k], text, g, n)
  BY <1>1, RecordsStep
<1> HIDE DEF f, g
<1>4. 0 \in G
  BY <1>1, <1>3 DEF RecordedAt
<1>5. ASSUME NEW n \in Nat, n \in G PROVE n + 1 \in G
  <2> SUFFICES ASSUME n + 1 <= Len(text) PROVE f[k + (n + 1)] = g[n + 1]
    OBVIOUS
  <2>1. /\ f[k + n] = g[n] /\ n + 1 \in 1..Len(text)
        /\ k + (n + 1) \in 0..Len(whole) /\ k + (n + 1) # 0 /\ (k + (n + 1)) - 1 = k + n
        /\ n + 1 \in 0..Len(text) /\ n + 1 # 0 /\ (n + 1) - 1 = n
    BY <1>1, <1>5
  <2>2. LineEndingAt(whole, k + (n + 1)) = LineEndingAt(text, n + 1)
    BY <2>1, LinesGoOn
  <2>3. whole[k + (n + 1)] = text[n + 1]
    BY <2>1 DEF GoesOn
  <2>4. f[k + (n + 1)] = RecordedAt(out, whole, f, k + (n + 1))
    BY <1>2, <2>1
  <2>5. g[n + 1] = RecordedAt(f[k], text, g, n + 1)
    BY <1>3, <2>1
  <2>6. QED
    BY <2>1, <2>2, <2>3, <2>4, <2>5 DEF RecordedAt
<1>6. \A n \in Nat : n \in G
  <2> HIDE DEF G
  <2>1. QED
    BY <1>4, <1>5, UpToInduction
<1>7. QED
  BY <1>1, <1>6 DEF f, g

\* Nothing is recorded after the last break.
LEMMA NothingAfterTheLast ==
  ASSUME NEW out, NEW text, Len(text) \in Nat
  PROVE  Records(out, text)[LastBreak(text, Len(text))] = Recorded(out, text)
<1>1. PICK b : b = LastBreak(text, Len(text)) /\ IsLastBreak(text, Len(text), b)
  BY LastBreakIsLast
<1> DEFINE f == Records(out, text)
           G == {n \in Nat : b + n <= Len(text) => f[b + n] = f[b]}
<1>2. b \in Nat /\ \A n \in 0..Len(text) : f[n] = RecordedAt(out, text, f, n)
  BY <1>1, RecordsStep DEF IsLastBreak
<1> HIDE DEF f
<1>3. 0 \in G
  BY <1>2
<1>4. ASSUME NEW n \in Nat, n \in G PROVE n + 1 \in G
  <2> SUFFICES ASSUME b + (n + 1) <= Len(text) PROVE f[b + (n + 1)] = f[b]
    OBVIOUS
  <2>1. /\ f[b + n] = f[b]
        /\ b + (n + 1) \in 0..Len(text) /\ b + (n + 1) # 0 /\ (b + (n + 1)) - 1 = b + n
    BY <1>2, <1>4
  <2>2. text[b + (n + 1)] # "nl"
    <3>1. b + (n + 1) \in 1..Len(text) /\ ~(b + (n + 1) <= b)
      BY <1>2
    <3>2. QED
      BY <1>1, <3>1 DEF IsLastBreak
  <2>3. f[b + (n + 1)] = RecordedAt(out, text, f, b + (n + 1))
    BY <1>2, <2>1
  <2>4. QED
    BY <2>1, <2>2, <2>3 DEF RecordedAt
<1>5. \A n \in Nat : n \in G
  <2> HIDE DEF G
  <2>1. QED
    BY <1>3, <1>4, UpToInduction
<1>6. Len(text) - b \in Nat /\ b + (Len(text) - b) = Len(text)
  BY <1>1 DEF IsLastBreak
<1>7. f[Len(text)] = f[b]
  BY <1>5, <1>6
<1>8. QED
  BY <1>1, <1>7, RecordedIsRecords DEF f

\* What was written so far, the log of it and what waits for its end.
LogIsTimeline ==
  /\ written \in Seq(Bytes)
  /\ partial = Unfinished(written)
  /\ emitted = Recorded(<<>>, written)

\* What waits for its end is where the next write goes on.
LEMMA UnfinishedGoesOn ==
  ASSUME NEW S, NEW w \in Seq(S), NEW p \in Seq(S), NEW k, k = LastBreak(w, Len(w))
  PROVE  /\ Unfinished(w) \o p \in Seq(S) /\ GoesOn(w \o p, k, Unfinished(w) \o p)
         /\ k <= Len(w) /\ k + Len(Unfinished(w) \o p) = Len(w \o p)
<1> DEFINE u == Unfinished(w)
<1>1. /\ Len(w) \in Nat /\ Len(p) \in Nat /\ k \in 0..Len(w) /\ (k = 0 \/ w[k] = "nl")
      /\ \A i \in 1..Len(w) : w[i] \in S
  BY LenProperties, ElementOfSeq, LastBreakIsLast DEF IsLastBreak
<1>2. /\ u \in Seq(S) /\ Len(u) = Len(w) - k
      /\ \A i \in 1..Len(w) - k : u[i] = w[k + i]
  <2>1. u = SubSeq(w, k + 1, Len(w))
    BY DEF Unfinished
  <2>2. \A i \in k + 1 .. Len(w) : w[i] \in S
    BY <1>1
  <2>3. k + 1 \in Int /\ Len(w) \in Int
    BY <1>1
  <2> HIDE DEF u
  <2>4. /\ u \in Seq(S) /\ Len(u) = (IF k + 1 <= Len(w) THEN Len(w) - (k + 1) + 1 ELSE 0)
        /\ \A i \in 1..Len(w) - (k + 1) + 1 : u[i] = w[k + 1 + i - 1]
    BY <2>1, <2>2, <2>3, SubSeqProperties
  <2>5. QED
    BY <1>1, <2>4
<1> HIDE DEF u
<1>3. u \o p \in Seq(S) /\ Joins(u \o p, u, p) /\ Joins(w \o p, w, p)
  BY <1>2, ConcatJoins
<1> DEFINE up == u \o p
           wp == w \o p
<1> HIDE DEF up, wp
<1>4. Joins(up, u, p) /\ Joins(wp, w, p)
  BY <1>3 DEF up, wp
<1>5. Len(up) = Len(w) - k + Len(p) /\ Len(wp) = Len(w) + Len(p)
  BY <1>2, <1>4 DEF Joins
<1>6. ASSUME NEW i \in 1..Len(up) PROVE wp[k + i] = up[i]
  <2>1. CASE i <= Len(w) - k
    <3>1. i \in 1..Len(w) - k /\ k + i \in 1..Len(w)
      BY <1>1, <2>1
    <3>2. up[i] = u[i] /\ wp[k + i] = w[k + i]
      BY <1>2, <1>4, <3>1 DEF Joins
    <3>3. QED
      BY <1>2, <3>1, <3>2
  <2>2. CASE i > Len(w) - k
    <3>1. PICK j \in 1..Len(p) : i = (Len(w) - k) + j
      <4>1. PICK m : m = Len(w) - k /\ m \in Nat
        BY <1>1
      <4>2. i \in 1..m + Len(p) /\ i > m /\ Len(p) \in Nat
        BY <1>1, <1>5, <2>2, <4>1
      <4>3. i - m \in 1..Len(p) /\ i = m + (i - m)
        BY <4>1, <4>2
      <4>4. QED
        BY <4>1, <4>3
    <3>2. up[i] = p[j]
      BY <1>2, <1>4, <3>1 DEF Joins
    <3>3. wp[Len(w) + j] = p[j] /\ k + i = Len(w) + j
      BY <1>1, <1>4, <3>1 DEF Joins
    <3>4. QED
      BY <3>2, <3>3
  <2>3. QED
    BY <1>1, <2>1, <2>2
<1>7. k = 0 \/ wp[k] = "nl"
  <2>1. CASE k # 0
    <3>1. k \in 1..Len(w)
      BY <1>1, <2>1
    <3>2. wp[k] = w[k]
      BY <1>4, <3>1 DEF Joins
    <3>3. QED
      BY <1>1, <2>1, <3>2
  <2>2. QED
    BY <2>1
<1>8. GoesOn(wp, k, up)
  BY <1>1, <1>6, <1>7 DEF GoesOn
<1>9. k <= Len(w) /\ k + Len(up) = Len(wp)
  BY <1>1, <1>5
<1>10. QED
  BY <1>3, <1>8, <1>9 DEF up, wp, u

\* A write in pieces is recorded as a write of the whole is.
LEMMA PiecesAreTheWhole ==
  ASSUME NEW S, NEW w \in Seq(S), NEW p \in Seq(S)
  PROVE  /\ Unfinished(Unfinished(w) \o p) = Unfinished(w \o p)
         /\ Recorded(Recorded(<<>>, w), Unfinished(w) \o p) = Recorded(<<>>, w \o p)
<1> DEFINE text == Unfinished(w) \o p
           whole == w \o p
           k == LastBreak(w, Len(w))
<1>1. /\ text \in Seq(S) /\ GoesOn(whole, k, text)
      /\ k <= Len(w) /\ k + Len(text) = Len(whole)
  <2>1. \A l : l = k => /\ text \in Seq(S) /\ GoesOn(whole, l, text)
                        /\ l <= Len(w) /\ l + Len(text) = Len(whole)
    BY UnfinishedGoesOn
  <2>2. QED
    BY <2>1
<1>2. whole \in Seq(S) /\ GoesOn(whole, 0, w) /\ 0 + Len(w) <= Len(whole)
  <2>1. whole \in Seq(S) /\ Joins(whole, w, p)
    BY ConcatJoins
  <2>2. Len(w) \in Nat /\ Len(p) \in Nat
    BY LenProperties
  <2> HIDE DEF whole
  <2>3. \A i \in 1..Len(w) : whole[0 + i] = w[i]
    BY <2>1, <2>2 DEF Joins
  <2>4. Len(w) <= Len(whole)
    BY <2>1, <2>2 DEF Joins
  <2>5. QED
    BY <2>1, <2>2, <2>3, <2>4 DEF GoesOn
<1>3. Len(w) \in Nat /\ Len(text) \in Nat /\ Len(whole) \in Nat
  BY <1>1, <1>2, LenProperties
<1>4. k \in 0..Len(w)
  BY <1>3, LastBreakIsLast DEF IsLastBreak
<1>5. Records(<<>>, w)[k] = Recorded(<<>>, w)
  BY <1>3, NothingAfterTheLast
<1> HIDE DEF text, whole, k
<1>6. Records(<<>>, whole)[k] = Recorded(<<>>, w)
  <2>1. Records(<<>>, whole)[0] = <<>>
    <3>1. Records(<<>>, whole)[0] = RecordedAt(<<>>, whole, Records(<<>>, whole), 0)
      BY <1>3, RecordsStep
    <3>2. QED
      BY <3>1 DEF RecordedAt
  <2>2. Records(<<>>, whole)[0 + k] = Records(Records(<<>>, whole)[0], w)[k]
    BY <1>2, <1>4, RecordsGoOn
  <2>3. 0 + k = k
    BY <1>4
  <2>4. QED
    BY <1>5, <2>1, <2>2, <2>3
<1>7. Recorded(Recorded(<<>>, w), text) = Recorded(<<>>, whole)
  <2>1. \A n \in 0..Len(text) :
          Records(<<>>, whole)[k + n] = Records(Records(<<>>, whole)[k], text)[n]
    BY <1>1, <1>2, <1>3, RecordsGoOn
  <2>2. Records(<<>>, whole)[Len(whole)] = Records(Recorded(<<>>, w), text)[Len(text)]
    BY <1>1, <1>3, <1>6, <2>1
  <2>3. QED
    BY <2>2, RecordedIsRecords
<1>8. Unfinished(text) = Unfinished(whole)
  <2>1. PICK b : b = LastBreak(text, Len(text)) /\ b \in Nat
    BY <1>3, LastBreakIsLast DEF IsLastBreak
  <2>2. Len(text) \in 0..Len(text)
    BY <1>3
  <2>3. LastBreak(whole, Len(whole)) = k + b
    BY <1>1, <1>3, <2>1, <2>2, BreaksGoOn
  <2>4. SubSeq(whole, k + b + 1, Len(whole)) = SubSeq(text, b + 1, Len(text))
    <3>1. HasItsParts(whole, k, text)
      BY <1>1, <1>2, <1>3, PartsGoOn
    <3>2. SubSeq(whole, k + b + 1, k + Len(text)) = SubSeq(text, b + 1, Len(text))
      BY <2>1, <2>2, <3>1, Zenon DEF HasItsParts
    <3>3. QED
      BY <1>1, <3>2
  <2>5. QED
    BY <2>1, <2>3, <2>4 DEF Unfinished
<1>9. QED
  BY <1>7, <1>8 DEF text, whole

\* The log is the timeline, for any bytes written in any pieces: each line that
\* was ever complete is in it once, at its first appearance, and what is not yet
\* a line waits for its end (changewriter.go:50-73).
THEOREM TimelineIsAlwaysWhole == ProgressSpec => []TimelineIsWhole
<1>1. ProgressInit => LogIsTimeline
  <2> SUFFICES ASSUME ProgressInit PROVE LogIsTimeline
    OBVIOUS
  <2>1. /\ written = <<>> /\ partial = <<>> /\ emitted = <<>>
        /\ <<>> \in Seq(Bytes) /\ Len(<<>>) = 0
    BY EmptySeq DEF ProgressInit
  <2>2. Unfinished(<<>>) = <<>>
    <3>1. IsLastBreak(<<>>, 0, 0)
      BY DEF IsLastBreak
    <3>2. LastBreak(<<>>, 0) = 0
      BY <3>1, OneLastBreak
    <3>3. SubSeq(<<>>, 0 + 1, 0) = <<>>
      BY SubSeqEmpty
    <3>4. QED
      BY <2>1, <3>2, <3>3 DEF Unfinished
  <2>3. Recorded(<<>>, <<>>) = <<>>
    <3>1. Len(<<>>) \in Nat /\ 0 \in 0..Len(<<>>)
      BY <2>1
    <3>2. Records(<<>>, <<>>)[0] = RecordedAt(<<>>, <<>>, Records(<<>>, <<>>), 0)
      BY <3>1, RecordsStep
    <3>3. QED
      BY <2>1, <3>2, RecordedIsRecords DEF RecordedAt
  <2>4. QED
    BY <2>1, <2>2, <2>3 DEF LogIsTimeline
<1>2. LogIsTimeline /\ [ProgressNext]_progressVars => LogIsTimeline'
  <2> SUFFICES ASSUME LogIsTimeline, [ProgressNext]_progressVars PROVE LogIsTimeline'
    OBVIOUS
  <2>1. ASSUME NEW n \in 1..MaxPiece, NEW p \in [1..n -> Bytes], Write(p)
        PROVE  LogIsTimeline'
    <3>1. p \in Seq(Bytes)
      <4>1. n \in Nat
        OBVIOUS
      <4>2. QED
        BY <4>1, SeqDef
    <3>2. /\ written \in Seq(Bytes)
          /\ written' = written \o p
          /\ partial' = Unfinished(Unfinished(written) \o p)
          /\ emitted' = Recorded(Recorded(<<>>, written), Unfinished(written) \o p)
      BY <2>1 DEF Write, LogIsTimeline
    <3>3. /\ partial' = Unfinished(written \o p)
          /\ emitted' = Recorded(<<>>, written \o p)
      BY <3>1, <3>2, PiecesAreTheWhole
    <3>4. written' \in Seq(Bytes)
      BY <3>1, <3>2, ConcatProperties
    <3>5. partial' = Unfinished(written') /\ emitted' = Recorded(<<>>, written')
      BY <3>2, <3>3
    <3>6. QED
      BY <3>4, <3>5 DEF LogIsTimeline
  <2>2. CASE UNCHANGED progressVars
    BY <2>2 DEF progressVars, LogIsTimeline
  <2>3. QED
    BY <2>1, <2>2 DEF ProgressNext
<1>3. LogIsTimeline => TimelineIsWhole
  BY DEF LogIsTimeline, TimelineIsWhole
<1>4. QED
  BY <1>1, <1>2, <1>3, PTL DEF ProgressSpec

-----------------------------------------------------------------------------
(* What a departed workspace keeps, for any costs, noise and peak. *)

\* A set of numbers that is not empty and has a bound has a lowest and a highest.
LEMMA HighestIsIn ==
  ASSUME NEW n \in Nat, NEW A \in SUBSET (1..n), A # {}
  PROVE  Max(A) \in A /\ \A i \in A : i <= Max(A)
<1> DEFINE Bounds(B) == \E m \in B : \A i \in B : m >= i
           G == {l \in Nat : \A B \in SUBSET (1..l) : B # {} => Bounds(B)}
<1>1. 0 \in G
  <2>1. \A B \in SUBSET (1..0) : B = {}
    OBVIOUS
  <2>2. QED
    BY <2>1
<1>2. ASSUME NEW l \in Nat, l \in G PROVE l + 1 \in G
  <2> SUFFICES ASSUME NEW B \in SUBSET (1..l + 1), B # {} PROVE Bounds(B)
    OBVIOUS
  <2>1. CASE l + 1 \in B
    <3>1. \A i \in B : l + 1 >= i
      OBVIOUS
    <3>2. QED
      BY <2>1, <3>1
  <2>2. CASE l + 1 \notin B
    <3>1. B \in SUBSET (1..l)
      BY <2>2
    <3>2. QED
      BY <1>2, <3>1
  <2>3. QED
    BY <2>1, <2>2
<1>3. \A l \in Nat : l \in G
  <2> HIDE DEF G
  <2>1. QED
    BY <1>1, <1>2, UpToInduction
<1>4. Bounds(A)
  BY <1>3
<1>5. PICK m \in A : \A i \in A : m >= i
  BY <1>4
<1>6. Max(A) = CHOOSE x \in A : \A y \in A : x >= y
  BY DEF Max
<1>7. Max(A) \in A /\ \A i \in A : Max(A) >= i
  BY <1>5, <1>6
<1>8. QED
  BY <1>7

LEMMA LowestIsIn ==
  ASSUME NEW A \in SUBSET Nat, A # {}
  PROVE  \E m \in A : \A i \in A : m <= i
<1> DEFINE Smaller == {ss \in Nat \X Nat : ss[1] < ss[2]}
<1>1. IsWellFoundedOn(Smaller, Nat)
  BY NatLessThanWellFounded DEF OpToRel
<1>2. PICK m \in A : \A i \in A : <<i, m>> \notin Smaller
  <2> HIDE DEF Smaller
  <2>1. QED
    BY <1>1, WFMin
<1>3. ASSUME NEW i \in A PROVE m <= i
  <2>1. i \in Nat /\ m \in Nat /\ ~(i < m)
    BY <1>2
  <2>2. QED
    BY <2>1
<1>4. QED
  BY <1>3

\* A sample says what it costs to serve as many, and is off by what it caught.
Phases == {"baseline", "engaged", "active", "disengaged"}
Samples == [phase : Phases, workspaces : Nat, goroutines : Nat]

SampleIsTrue(s, clean) ==
  /\ s.phase = "active" =>
       (clean => s.goroutines = curve[s.workspaces] + Work * s.workspaces)
  /\ s.phase = "disengaged" =>
       /\ step = "depart" /\ s.workspaces \in serving..Peak - 1
       /\ s.goroutines >= Remaining(s.workspaces)
       /\ clean => s.goroutines = Remaining(s.workspaces)

\* The counts that were sampled while active.
Activated == CASE step = "depart" -> Peak [] step = "activate" -> serving - 1 [] OTHER -> serving

SweepTypeOK ==
  /\ curve \in [0..Peak -> Nat] /\ retains \in Nat
  /\ step \in {"baseline", "engage", "activate", "depart"}
  /\ serving \in 0..Peak
  /\ samples \in Seq(Samples)

SweepInv ==
  /\ SweepTypeOK
  /\ step = "baseline" => serving = 0
  /\ step = "activate" => serving > 0
  /\ \A i \in DOMAIN samples : SampleIsTrue(samples[i], Clean(i))
  /\ \A i, j \in Of("disengaged") : samples[i].workspaces = samples[j].workspaces => i = j
  /\ CountsIn(samples, "active") = 1..Activated

\* There is one sample more, off by so much.
OneMore(s, off) ==
  /\ samples' \in Seq(Samples)
  /\ Len(samples) + 1 \notin DOMAIN samples
  /\ DOMAIN samples' = DOMAIN samples \cup {Len(samples) + 1}
  /\ samples'[Len(samples) + 1] = s
  /\ \A i \in DOMAIN samples : samples'[i] = samples[i] /\ (i \notin muddied' => i \notin muddied)
  /\ Len(samples) + 1 \notin muddied' => off = 0

LEMMA SampleIsOneMore ==
  ASSUME SweepTypeOK, NEW phase \in Phases, NEW workspaces \in Nat, NEW cost \in Nat,
         NEW off \in Nat, NEW reads, Sample(phase, workspaces, cost, off, reads)
  PROVE  OneMore([phase |-> phase, workspaces |-> workspaces, goroutines |-> cost + off], off)
<1> DEFINE s == [phase |-> phase, workspaces |-> workspaces, goroutines |-> cost + off]
<1>1. s \in Samples
  BY DEF Samples
<1>2. samples' = Append(samples, s)
  BY DEF Sample
<1> HIDE DEF s
<1>3. samples \in Seq(Samples) /\ Len(samples) \in Nat /\ DOMAIN samples = 1..Len(samples)
  BY LenProperties DEF SweepTypeOK
<1>4. /\ samples' \in Seq(Samples) /\ Len(samples') = Len(samples) + 1
      /\ \A i \in 1..Len(samples) : samples'[i] = samples[i]
      /\ samples'[Len(samples) + 1] = s
  BY <1>1, <1>2, <1>3, AppendProperties
<1>5. DOMAIN samples' = 1..Len(samples) + 1
  BY <1>4, LenProperties
<1>6. muddied' = IF off = 0 THEN muddied ELSE muddied \cup {Len(samples) + 1}
  BY <1>4 DEF Sample
<1>7. QED
  BY <1>3, <1>4, <1>5, <1>6 DEF OneMore, s

LEMMA OneMoreIsCounted ==
  ASSUME NEW s, NEW off, OneMore(s, off)
  PROVE  CountsIn(samples, "active")'
           = CountsIn(samples, "active") \cup (IF s.phase = "active" THEN {s.workspaces} ELSE {})
<1>1. CountsIn(samples, "active")'
        = {samples'[i].workspaces : i \in {i \in DOMAIN samples' : samples'[i].phase = "active"}}
  BY DEF CountsIn
<1>2. {i \in DOMAIN samples' : samples'[i].phase = "active"}
        = {i \in DOMAIN samples : samples[i].phase = "active"}
            \cup (IF s.phase = "active" THEN {Len(samples) + 1} ELSE {})
  BY DEF OneMore
<1>3. QED
  BY <1>1, <1>2 DEF OneMore, CountsIn

\* What was true of the samples stays so while nothing but a workspace leaves.
LEMMA TrueSamplesStay ==
  ASSUME SweepInv, NEW s, NEW off, OneMore(s, off), curve' = curve, retains' = retains,
         SampleIsTrue(s, off = 0)',
         step = "depart" => step' = "depart" /\ serving' \in Nat /\ serving' <= serving
  PROVE  (\A i \in DOMAIN samples : SampleIsTrue(samples[i], Clean(i)))'
<1> SUFFICES ASSUME NEW i \in DOMAIN samples' PROVE SampleIsTrue(samples[i], Clean(i))'
  OBVIOUS
<1>1. CASE i \in DOMAIN samples
  <2>1. SampleIsTrue(samples[i], Clean(i)) /\ samples'[i] = samples[i] /\ (Clean(i)' => Clean(i))
    BY <1>1 DEF SweepInv, OneMore, Clean
  <2>2. /\ samples[i].phase = "disengaged" =>
             /\ step' = "depart" /\ samples[i].workspaces \in serving'..Peak - 1
             /\ Remaining(samples[i].workspaces)' = Remaining(samples[i].workspaces)
    <3>1. Remaining(samples[i].workspaces)' = Remaining(samples[i].workspaces)
      BY <2>1 DEF Remaining
    <3>2. ASSUME samples[i].phase = "disengaged"
          PROVE  step' = "depart" /\ samples[i].workspaces \in serving'..Peak - 1
      <4>1. step = "depart" /\ samples[i].workspaces \in serving..Peak - 1
        BY <2>1, <3>2 DEF SampleIsTrue
      <4>2. Peak - 1 \in Int /\ serving \in Int /\ serving' \in Int /\ serving' <= serving
        BY <4>1, SweepAssumption DEF SweepInv, SweepTypeOK
      <4>3. \A k \in serving..Peak - 1 : k \in serving'..Peak - 1
        BY <4>2
      <4>4. QED
        BY <4>1, <4>3
    <3>3. QED
      BY <3>1, <3>2
  <2>3. QED
    BY <2>1, <2>2 DEF SampleIsTrue
<1>2. CASE i = Len(samples) + 1
  <2>1. samples'[i] = s /\ (Clean(i)' => off = 0)
    BY <1>2 DEF OneMore, Clean
  <2>2. QED
    BY <2>1 DEF SampleIsTrue
<1>3. QED
  BY <1>1, <1>2 DEF OneMore

\* The departures sampled are apart as long as the one more is another.
LEMMA DeparturesStayApart ==
  ASSUME SweepInv, NEW s, NEW off, OneMore(s, off),
         s.phase = "disengaged" => \A i \in Of("disengaged") : samples[i].workspaces # s.workspaces
  PROVE  (\A i, j \in Of("disengaged") : samples[i].workspaces = samples[j].workspaces => i = j)'
<1>1. Of("disengaged")' = Of("disengaged")
                            \cup (IF s.phase = "disengaged" THEN {Len(samples) + 1} ELSE {})
  BY DEF Of, OneMore
<1>2. /\ \A i \in Of("disengaged") : samples'[i] = samples[i]
      /\ samples'[Len(samples) + 1] = s
  BY DEF Of, OneMore
<1>3. \A i, j \in Of("disengaged") : samples[i].workspaces = samples[j].workspaces => i = j
  BY DEF SweepInv
<1>4. \A i, j \in Of("disengaged")' : samples'[i].workspaces = samples'[j].workspaces => i = j
  BY <1>1, <1>2, <1>3
<1>5. QED
  BY <1>4

LEMMA InitSweep == SweepInit => SweepInv
<1> SUFFICES ASSUME SweepInit PROVE SweepInv
  OBVIOUS
<1>1. samples = <<>> /\ <<>> \in Seq(Samples) /\ DOMAIN samples = {}
  BY EmptySeq, LenProperties DEF SweepInit
<1>2. SweepTypeOK
  BY <1>1, SweepAssumption DEF SweepInit, SweepTypeOK
<1>3. CountsIn(samples, "active") = {} /\ Activated = 0
  BY <1>1 DEF CountsIn, Activated, SweepInit
<1>4. QED
  BY <1>1, <1>2, <1>3 DEF SweepInv, SweepInit, Of

LEMMA BaselineSweeps == SweepInv /\ Baseline => SweepInv'
<1> SUFFICES ASSUME SweepInv, Baseline PROVE SweepInv'
  OBVIOUS
<1>1. /\ SweepTypeOK /\ step = "baseline" /\ step' = "engage" /\ serving = 0
      /\ curve' = curve /\ retains' = retains /\ serving' = serving
  BY DEF Baseline, SweepInv
<1>2. PICK off \in Noise : Sample("baseline", 0, curve[0], off, off)
  BY DEF Baseline, Take
<1> DEFINE t == [phase |-> "baseline", workspaces |-> 0, goroutines |-> curve[0] + off]
<1>b. OneMore(t, off)
  <2>1. curve[0] \in Nat /\ off \in Nat /\ "baseline" \in Phases
    BY <1>1, SweepAssumption DEF SweepTypeOK, Noise, Phases
  <2>2. QED
    BY <1>1, <1>2, <2>1, SampleIsOneMore
<1>3. PICK s : OneMore(s, off) /\ s.phase = "baseline"
  BY <1>b
<1>4. s.phase = "baseline"
  BY <1>3
<1>5. (\A i \in DOMAIN samples : SampleIsTrue(samples[i], Clean(i)))'
  <2>1. SampleIsTrue(s, off = 0)'
    BY <1>4 DEF SampleIsTrue
  <2>2. QED
    BY <1>1, <1>3, <2>1, TrueSamplesStay
<1>6. (\A i, j \in Of("disengaged") : samples[i].workspaces = samples[j].workspaces => i = j)'
  BY <1>3, <1>4, DeparturesStayApart
<1>7. CountsIn(samples, "active")' = 1..Activated'
  <2>1. CountsIn(samples, "active")' = CountsIn(samples, "active")
    BY <1>3, <1>4, OneMoreIsCounted
  <2>2. Activated' = Activated
    BY <1>1 DEF Activated
  <2>3. QED
    BY <2>1, <2>2 DEF SweepInv
<1>8. SweepTypeOK'
  BY <1>1, <1>3 DEF SweepTypeOK, OneMore
<1>9. QED
  BY <1>1, <1>5, <1>6, <1>7, <1>8 DEF SweepInv

LEMMA EngageSweeps == SweepInv /\ EngageOne => SweepInv'
<1> SUFFICES ASSUME SweepInv, EngageOne PROVE SweepInv'
  OBVIOUS
<1>1. /\ SweepTypeOK /\ step = "engage" /\ step' = "activate" /\ serving < Peak
      /\ curve' = curve /\ retains' = retains /\ serving' = serving + 1
  BY DEF EngageOne, SweepInv
<1>2. PICK off \in Noise :
        Sample("engaged", serving + 1, curve[serving + 1] + Work * serving, off, off)
  BY <1>1 DEF EngageOne, Take
<1> DEFINE t == [phase |-> "engaged", workspaces |-> serving + 1,
                 goroutines |-> curve[serving + 1] + Work * serving + off]
<1>b. OneMore(t, off)
  <2>1. /\ serving + 1 \in Nat /\ off \in Nat /\ "engaged" \in Phases
        /\ serving + 1 \in 0..Peak /\ curve[serving + 1] \in Nat /\ Work * serving \in Nat
    BY <1>1, SweepAssumption DEF SweepTypeOK, Noise, Phases
  <2>2. QED
    BY <1>1, <1>2, <2>1, SampleIsOneMore
<1>3. PICK s : OneMore(s, off) /\ s.phase = "engaged"
  BY <1>b
<1>4. s.phase = "engaged"
  BY <1>3
<1>5. (\A i \in DOMAIN samples : SampleIsTrue(samples[i], Clean(i)))'
  <2>1. SampleIsTrue(s, off = 0)'
    BY <1>4 DEF SampleIsTrue
  <2>2. QED
    BY <1>1, <1>3, <2>1, TrueSamplesStay
<1>6. (\A i, j \in Of("disengaged") : samples[i].workspaces = samples[j].workspaces => i = j)'
  BY <1>3, <1>4, DeparturesStayApart
<1>7. CountsIn(samples, "active")' = 1..Activated'
  <2>1. CountsIn(samples, "active")' = CountsIn(samples, "active")
    BY <1>3, <1>4, OneMoreIsCounted
  <2>2. Activated' = Activated
    BY <1>1 DEF Activated, SweepTypeOK
  <2>3. QED
    BY <2>1, <2>2 DEF SweepInv
<1>8. SweepTypeOK'
  BY <1>1, <1>3, SweepAssumption DEF SweepTypeOK, OneMore
<1>9. serving' > 0
  BY <1>1 DEF SweepTypeOK
<1>10. QED
  BY <1>1, <1>5, <1>6, <1>7, <1>8, <1>9 DEF SweepInv

LEMMA ActivateSweeps == SweepInv /\ Activate => SweepInv'
<1> SUFFICES ASSUME SweepInv, Activate PROVE SweepInv'
  OBVIOUS
<1>1. /\ SweepTypeOK /\ step = "activate" /\ serving > 0
      /\ step' = (IF serving = Peak THEN "depart" ELSE "engage")
      /\ curve' = curve /\ retains' = retains /\ serving' = serving
  BY DEF Activate, SweepInv
<1>2. PICK off \in Noise : Sample("active", serving, curve[serving] + Work * serving, off, off)
  BY DEF Activate, Take
<1> DEFINE t == [phase |-> "active", workspaces |-> serving,
                 goroutines |-> curve[serving] + Work * serving + off]
<1>a. serving \in Nat /\ off \in Nat /\ curve[serving] \in Nat /\ Work * serving \in Nat
  BY <1>1, SweepAssumption DEF SweepTypeOK, Noise
<1>b. OneMore(t, off)
  <2>1. "active" \in Phases
    BY DEF Phases
  <2>2. QED
    BY <1>1, <1>2, <1>a, <2>1, SampleIsOneMore
<1>c. /\ t.phase = "active" /\ t.workspaces = serving
      /\ (off = 0 => t.goroutines = curve[serving] + Work * serving)
  BY <1>a
<1> HIDE DEF t
<1>3. PICK s : OneMore(s, off) /\ s = t
  BY <1>b
<1>4. /\ s.phase = "active" /\ s.workspaces = serving
      /\ (off = 0 => s.goroutines = curve[serving] + Work * serving)
  BY <1>c, <1>3
<1>5. (\A i \in DOMAIN samples : SampleIsTrue(samples[i], Clean(i)))'
  <2>1. SampleIsTrue(s, off = 0)'
    BY <1>1, <1>4 DEF SampleIsTrue
  <2>2. QED
    BY <1>1, <1>3, <2>1, TrueSamplesStay
<1>6. (\A i, j \in Of("disengaged") : samples[i].workspaces = samples[j].workspaces => i = j)'
  BY <1>3, <1>4, DeparturesStayApart
<1>7. CountsIn(samples, "active")' = 1..Activated'
  <2>1. CountsIn(samples, "active")' = CountsIn(samples, "active") \cup {serving}
    BY <1>3, <1>4, OneMoreIsCounted
  <2>2. Activated = serving - 1 /\ Activated' = serving
    BY <1>1 DEF Activated, SweepTypeOK
  <2>3. CountsIn(samples, "active") = 1..serving - 1
    BY <2>2 DEF SweepInv
  <2>4. (1..serving - 1) \cup {serving} = 1..serving
    BY <1>1, <1>a
  <2>5. QED
    BY <2>1, <2>2, <2>3, <2>4
<1>8. SweepTypeOK'
  BY <1>1, <1>3 DEF SweepTypeOK, OneMore
<1>9. QED
  BY <1>1, <1>5, <1>6, <1>7, <1>8 DEF SweepInv

LEMMA DepartSweeps == SweepInv /\ Depart => SweepInv'
<1> SUFFICES ASSUME SweepInv, Depart PROVE SweepInv'
  OBVIOUS
<1>1. /\ SweepTypeOK /\ step = "depart" /\ step' = step /\ serving > 0
      /\ curve' = curve /\ retains' = retains /\ serving' = serving - 1
  BY DEF Depart, SweepInv
<1>2. PICK n1 \in Noise, n2 \in Noise :
        Sample("disengaged", serving - 1, Remaining(serving - 1),
               IF n1 < n2 THEN n1 ELSE n2, n1 + n2)
  BY <1>1 DEF Depart, TakeLowest, Remaining
<1> DEFINE off == IF n1 < n2 THEN n1 ELSE n2
           t == [phase |-> "disengaged", workspaces |-> serving - 1,
                 goroutines |-> Remaining(serving - 1) + off]
<1>a. /\ serving - 1 \in Nat /\ serving - 1 \in 0..Peak - 1 /\ off \in Nat
      /\ Remaining(serving - 1) \in Nat
  <2>1. serving - 1 \in Nat /\ serving - 1 \in 0..Peak - 1 /\ Peak - (serving - 1) \in Nat
    BY <1>1, SweepAssumption DEF SweepTypeOK
  <2>2. off \in Nat
    BY DEF Noise
  <2>3. /\ curve[0] \in Nat /\ curve[serving - 1] \in Nat
        /\ Work * (serving - 1) \in Nat /\ retains * (Peak - (serving - 1)) \in Nat
    BY <1>1, <2>1, SweepAssumption DEF SweepTypeOK
  <2>4. QED
    BY <2>1, <2>2, <2>3 DEF Remaining
<1>b. OneMore(t, off)
  <2>1. "disengaged" \in Phases
    BY DEF Phases
  <2>2. Sample("disengaged", serving - 1, Remaining(serving - 1), off, n1 + n2)
    BY <1>2
  <2> HIDE DEF off
  <2>3. QED
    BY <1>1, <1>a, <2>1, <2>2, SampleIsOneMore
<1> HIDE DEF off
<1>c. /\ t.phase = "disengaged" /\ t.workspaces = serving - 1
      /\ t.goroutines = Remaining(serving - 1) + off
  OBVIOUS
<1> HIDE DEF t
<1>3. PICK s : OneMore(s, off) /\ s = t
  BY <1>b
<1>4. /\ s.phase = "disengaged" /\ s.workspaces = serving - 1
      /\ s.goroutines = Remaining(serving - 1) + off
  BY <1>c, <1>3
<1>5. (\A i \in DOMAIN samples : SampleIsTrue(samples[i], Clean(i)))'
  <2>1. PICK k : k = serving - 1 /\ k = serving' /\ k \in Nat /\ k \in 0..Peak - 1
    BY <1>1, <1>a
  <2>a. /\ s.phase = "disengaged" /\ s.workspaces = k
        /\ s.goroutines = Remaining(k) + off /\ Remaining(k) \in Nat /\ off \in Nat
    BY <1>4, <1>a, <2>1
  <2>b. Remaining(s.workspaces)' = Remaining(s.workspaces)
    BY <1>1 DEF Remaining
  <2>c. /\ s.goroutines >= Remaining(s.workspaces)'
        /\ (off = 0 => s.goroutines = Remaining(s.workspaces)')
    BY <2>a, <2>b
  <2>d. s.workspaces \in serving'..Peak - 1
    BY <2>1, <2>a
  <2>2. SampleIsTrue(s, off = 0)'
    BY <1>1, <2>a, <2>c, <2>d DEF SampleIsTrue
  <2>3. serving' \in Nat /\ serving' <= serving
    BY <1>1, <2>1 DEF SweepTypeOK
  <2>4. QED
    BY <1>1, <1>3, <2>2, <2>3, TrueSamplesStay
<1>6. (\A i, j \in Of("disengaged") : samples[i].workspaces = samples[j].workspaces => i = j)'
  <2>1. \A i \in Of("disengaged") : samples[i].workspaces \in serving..Peak - 1
    BY DEF SweepInv, Of, SampleIsTrue
  <2>2. \A i \in Of("disengaged") : samples[i].workspaces # serving - 1
    <3>1. serving \in Nat /\ serving - 1 \notin serving..Peak - 1
      BY <1>1 DEF SweepTypeOK
    <3>2. QED
      BY <2>1, <3>1
  <2>3. QED
    BY <1>3, <1>4, <2>2, DeparturesStayApart
<1>7. CountsIn(samples, "active")' = 1..Activated'
  <2>1. CountsIn(samples, "active")' = CountsIn(samples, "active")
    BY <1>3, <1>4, OneMoreIsCounted
  <2>2. Activated' = Activated
    BY <1>1 DEF Activated
  <2>3. QED
    BY <2>1, <2>2 DEF SweepInv
<1>8. SweepTypeOK'
  BY <1>1, <1>3, <1>a, SweepAssumption DEF SweepTypeOK, OneMore
<1>9. QED
  BY <1>1, <1>5, <1>6, <1>7, <1>8 DEF SweepInv

\* Of two estimates, over d and e departures, the one that is off by n is no
\* lower than the one that is not off; where it is no higher, it is not off.
NoLowerThan(p, q, r, n) ==
  /\ Less(p, q) \/ Same(p, q) => n = 0
  /\ n > 0 => Less(q, p)
  /\ n = 0 => Same(q, p) /\ Same(p, Ratio(r, 1))

LEMMA LowestIsNotOff ==
  ASSUME NEW r \in Nat, NEW d \in Nat \ {0}, NEW e \in Nat \ {0}, NEW n \in Nat,
         NEW p, p = Ratio(r * d + n, d), NEW q, q = Ratio(r * e, e)
  PROVE  NoLowerThan(p, q, r, n)
<1>1. /\ p.num = r * d + n /\ p.den = d /\ q.num = r * e /\ q.den = e
      /\ Ratio(r, 1).num = r /\ Ratio(r, 1).den = 1
  BY DEF Ratio
<1>2. (r * d + n) * e = (r * e) * d + n * e
  <2>1. r * d \in Nat
    OBVIOUS
  <2>2. (r * d + n) * e = (r * d) * e + n * e
    BY <2>1
  <2>3. (r * d) * e = (r * e) * d
    OBVIOUS
  <2>4. QED
    BY <2>2, <2>3
<1>3. n * e \in Nat /\ (r * e) * d \in Nat /\ (n > 0 => n * e > 0)
  OBVIOUS
<1>4. Less(p, q) \/ Same(p, q) => n = 0
  BY <1>1, <1>2, <1>3 DEF Less, Same
<1>5. n > 0 => Less(q, p)
  BY <1>1, <1>2, <1>3 DEF Less
<1>6. n = 0 => Same(q, p) /\ Same(p, Ratio(r, 1))
  BY <1>1, <1>2, <1>3 DEF Same
<1>7. QED
  BY <1>4, <1>5, <1>6 DEF NoLowerThan

\* The samples of a phase at a count, by index.
SampledAt(phase, k) ==
  {i \in DOMAIN samples : samples[i].phase = phase /\ samples[i].workspaces = k}

LEMMA LastIsOfThem ==
  ASSUME SweepInv, NEW phase, NEW k, SampledAt(phase, k) # {}
  PROVE  \E i \in SampledAt(phase, k) : LastAt(samples, phase, k) = samples[i]
<1>1. DOMAIN samples = 1..Len(samples) /\ Len(samples) \in Nat
  BY LenProperties DEF SweepInv, SweepTypeOK
<1>2. Max(SampledAt(phase, k)) \in SampledAt(phase, k)
  BY <1>1, HighestIsIn DEF SampledAt
<1>3. LastAt(samples, phase, k) = samples[Max(SampledAt(phase, k))]
  BY DEF LastAt, SampledAt
<1>4. QED
  BY <1>2, <1>3

\* By how much the last sample of a departure is off.
OffAt(k) == LastAt(samples, "disengaged", k).goroutines - Remaining(k)

LEMMA OffIsNoise ==
  ASSUME SweepInv, NEW k, SampledAt("disengaged", k) # {}, k # 0
  PROVE  /\ k \in 1..Peak - 1 /\ OffAt(k) \in Nat
         /\ LastAt(samples, "disengaged", k).goroutines = curve[k] + Work * k + retains * (Peak - k) + OffAt(k)
         /\ (\E i \in SampledAt("disengaged", k) : Clean(i)) => OffAt(k) = 0
<1>1. PICK i \in SampledAt("disengaged", k) : LastAt(samples, "disengaged", k) = samples[i]
  BY LastIsOfThem
<1>2. /\ i \in DOMAIN samples /\ samples[i].workspaces = k
      /\ samples[i].phase = "disengaged" /\ SampleIsTrue(samples[i], Clean(i))
      /\ samples[i] \in Samples /\ serving \in 0..Peak
  BY <1>1, ElementOfSeq, LenProperties DEF SampledAt, SweepInv, SweepTypeOK
<1>3. /\ k \in serving..Peak - 1 /\ samples[i].goroutines >= Remaining(k)
      /\ (Clean(i) => samples[i].goroutines = Remaining(k))
      /\ samples[i].goroutines \in Nat
  BY <1>2 DEF SampleIsTrue, Samples
<1>4. k \in 1..Peak - 1 /\ k \in 0..Peak
  BY <1>2, <1>3, SweepAssumption
<1>5. Remaining(k) = curve[k] + Work * k + retains * (Peak - k) /\ Remaining(k) \in Nat
  <2>1. curve[k] \in Nat /\ Work * k \in Nat /\ retains * (Peak - k) \in Nat
    <3>1. Peak - k \in Nat /\ k \in Nat
      BY <1>4, SweepAssumption
    <3>2. QED
      BY <1>4, <3>1, SweepAssumption DEF SweepInv, SweepTypeOK
  <2>2. QED
    BY <1>4, <2>1 DEF Remaining
<1>6. \A j \in SampledAt("disengaged", k) : j = i
  BY <1>2 DEF SampledAt, SweepInv, Of
<1>7. OffAt(k) = samples[i].goroutines - Remaining(k)
  BY <1>1 DEF OffAt
<1>8. OffAt(k) \in Nat /\ samples[i].goroutines = Remaining(k) + OffAt(k)
  BY <1>3, <1>5, <1>7
<1>9. (\E j \in SampledAt("disengaged", k) : Clean(j)) => OffAt(k) = 0
  BY <1>3, <1>5, <1>6, <1>7
<1>10. QED
  BY <1>1, <1>4, <1>5, <1>8, <1>9

\* What is compared where: every count up to the peak was sampled while active.
LEMMA PeakIsPeak ==
  ASSUME SweepInv, step = "depart"
  PROVE  /\ PeakOf(samples) = Peak
         /\ \A k \in 1..Peak : SampledAt("active", k) # {}
<1>1. CountsIn(samples, "active") = 1..Peak /\ Peak \in Nat \ {0, 1}
  BY SweepAssumption DEF SweepInv, Activated
<1>2. PeakOf(samples) = Peak
  <2> DEFINE pairs == CountsIn(samples, "active") \cup {0}
  <2>1. PeakOf(samples) = CHOOSE k \in pairs : \A j \in pairs : j <= k
    BY DEF PeakOf
  <2>2. Peak \in pairs /\ \A j \in pairs : j <= Peak
    BY <1>1
  <2>3. \A k \in pairs : (\A j \in pairs : j <= k) => k = Peak
    BY <1>1, <2>2
  <2> HIDE DEF pairs
  <2>4. QED
    BY <2>1, <2>2, <2>3
<1>3. \A k \in 1..Peak : SampledAt("active", k) # {}
  <2>1. \A k \in CountsIn(samples, "active") : SampledAt("active", k) # {}
    BY DEF CountsIn, SampledAt
  <2>2. QED
    BY <1>1, <2>1
<1>4. QED
  BY <1>2, <1>3

LEMMA EstimateIsOff ==
  ASSUME SweepInv, step = "depart", \A i \in Of("active") : Clean(i),
         NEW k, SampledAt("disengaged", k) # {}, k # 0
  PROVE  Estimate(samples, Peak, k) = Ratio(retains * (Peak - k) + OffAt(k), Peak - k)
<1>1. /\ k \in 1..Peak - 1 /\ OffAt(k) \in Nat
      /\ LastAt(samples, "disengaged", k).goroutines
           = curve[k] + Work * k + retains * (Peak - k) + OffAt(k)
  BY OffIsNoise
<1>2. LastAt(samples, "active", k).goroutines = curve[k] + Work * k
  <2>1. k \in 1..Peak
    BY <1>1, SweepAssumption
  <2>2. PICK i \in SampledAt("active", k) : LastAt(samples, "active", k) = samples[i]
    BY <2>1, PeakIsPeak, LastIsOfThem
  <2>3. /\ SampleIsTrue(samples[i], Clean(i)) /\ Clean(i)
        /\ samples[i].phase = "active" /\ samples[i].workspaces = k
    BY <2>2 DEF SampledAt, Of, SweepInv
  <2>4. QED
    BY <2>2, <2>3 DEF SampleIsTrue
<1>3. /\ curve[k] \in Nat /\ Work * k \in Nat /\ retains * (Peak - k) \in Nat
  <2>1. Peak - k \in Nat /\ k \in Nat /\ k \in 0..Peak
    BY <1>1, SweepAssumption
  <2>2. QED
    BY <2>1, SweepAssumption DEF SweepInv, SweepTypeOK
<1>4. \A a, b, c, d \in Nat : (a + b + c + d) - (a + b) = c + d
  OBVIOUS
<1>5. LastAt(samples, "disengaged", k).goroutines - LastAt(samples, "active", k).goroutines
        = retains * (Peak - k) + OffAt(k)
  BY <1>1, <1>2, <1>3, <1>4
<1>6. QED
  BY <1>5 DEF Estimate

\* Of the estimates the lowest is found, and it is the one that is not off.
LEMMA LowestIsFound ==
  ASSUME SweepInv, step = "depart", \A i \in Of("active") : Clean(i),
         NEW z \in Of("disengaged"), Clean(z), samples[z].workspaces \in 1..Peak - 1
  PROVE  \E r \in RetainedDetail(samples) : Same(r.perDeparture, Ratio(retains, 1))
<1> DEFINE pairs == Comparable(samples, Peak)
           Estimated(k) == Estimate(samples, Peak, k)
           Better(k, j) == \/ Less(Estimated(k), Estimated(j))
                           \/ Same(Estimated(k), Estimated(j)) /\ k <= j
           best == CHOOSE k \in pairs : \A j \in pairs : Better(k, j)
<1>1. PeakOf(samples) = Peak /\ Peak \in Nat /\ ~(Peak < 2) /\ retains \in Nat
  BY PeakIsPeak, SweepAssumption DEF SweepInv, SweepTypeOK
<1>2. \A k \in pairs : /\ SampledAt("disengaged", k) # {}
                        /\ k # 0 /\ 1 <= k
  BY DEF Comparable, CountsIn, SampledAt
<1>3. \A k \in pairs : /\ k \in 1..Peak - 1 /\ OffAt(k) \in Nat
                        /\ Estimated(k) = Ratio(retains * (Peak - k) + OffAt(k), Peak - k)
  BY <1>2, OffIsNoise, EstimateIsOff
<1>4. PICK k0 : k0 \in pairs /\ OffAt(k0) = 0
  <2> DEFINE k == samples[z].workspaces
  <2>1. z \in SampledAt("disengaged", k) /\ k # 0 /\ 1 <= k /\ k < Peak
    BY <1>1 DEF Of, SampledAt
  <2>2. OffAt(k) = 0
    BY <2>1, OffIsNoise
  <2>3. k \in CountsIn(samples, "disengaged")
    BY <2>1 DEF CountsIn, SampledAt
  <2>4. k \in CountsIn(samples, "active")
    BY <2>1, SweepAssumption DEF SweepInv, Activated
  <2>5. QED
    BY <2>1, <2>2, <2>3, <2>4 DEF Comparable
<1> HIDE DEF pairs, Estimated
<1>5. \A k, j \in pairs :
        OffAt(j) = 0 => /\ Less(Estimated(k), Estimated(j)) \/ Same(Estimated(k), Estimated(j))
                             => OffAt(k) = 0
                        /\ OffAt(k) > 0 => Less(Estimated(j), Estimated(k))
                        /\ OffAt(k) = 0 => /\ Same(Estimated(j), Estimated(k))
                                           /\ Same(Estimated(k), Ratio(retains, 1))
  <2> SUFFICES ASSUME NEW k \in pairs, NEW j \in pairs, OffAt(j) = 0
               PROVE  /\ Less(Estimated(k), Estimated(j)) \/ Same(Estimated(k), Estimated(j))
                           => OffAt(k) = 0
                      /\ OffAt(k) > 0 => Less(Estimated(j), Estimated(k))
                      /\ OffAt(k) = 0 => /\ Same(Estimated(j), Estimated(k))
                                         /\ Same(Estimated(k), Ratio(retains, 1))
    OBVIOUS
  <2>1. Peak - k \in Nat \ {0} /\ Peak - j \in Nat \ {0} /\ retains * (Peak - j) \in Nat
    BY <1>1, <1>3
  <2>2. Estimated(j) = Ratio(retains * (Peak - j), Peak - j)
    <3>1. retains * (Peak - j) + 0 = retains * (Peak - j)
      BY <2>1
    <3>2. QED
      BY <1>3, <3>1
  <2>3. NoLowerThan(Estimated(k), Estimated(j), retains, OffAt(k))
    BY <1>1, <1>3, <2>1, <2>2, LowestIsNotOff
  <2>4. QED
    BY <2>3 DEF NoLowerThan
<1>6. \E k \in pairs : \A j \in pairs : Better(k, j)
  <2> DEFINE exact == {k \in pairs : OffAt(k) = 0}
  <2>1. exact # {} /\ exact \in SUBSET Nat
    BY <1>3, <1>4
  <2>2. PICK k \in exact : \A j \in exact : k <= j
    <3> HIDE DEF exact
    <3>1. QED
      BY <2>1, LowestIsIn
  <2>3. ASSUME NEW j \in pairs PROVE Better(k, j)
    <3>1. CASE OffAt(j) = 0
      BY <1>5, <2>2, <3>1
    <3>2. CASE OffAt(j) > 0
      BY <1>5, <2>2, <3>2
    <3>3. QED
      BY <1>3, <3>1, <3>2
  <2>4. QED
    BY <2>2, <2>3
<1>7. best \in pairs /\ \A j \in pairs : Better(best, j)
  <2> HIDE DEF Better
  <2>1. QED
    BY <1>6
<1>8. Same(Estimated(best), Ratio(retains, 1))
  <2> HIDE DEF best
  <2>1. OffAt(best) = 0
    BY <1>4, <1>5, <1>7
  <2>2. QED
    BY <1>5, <1>7, <2>1
<1>9. RetainedDetail(samples) = {[perDeparture |-> Estimated(best), departed |-> Peak - best]}
  BY <1>1, <1>4 DEF RetainedDetail, pairs, Estimated
<1>10. QED
  <2> HIDE DEF best
  <2>1. QED
    BY <1>8, <1>9

LEMMA SweepGoesOn == SweepInv /\ [SweepNext]_sweepVars => SweepInv'
<1> SUFFICES ASSUME SweepInv, [SweepNext]_sweepVars PROVE SweepInv'
  OBVIOUS
<1>1. CASE UNCHANGED sweepVars
  BY <1>1 DEF sweepVars, SweepInv, SweepTypeOK, SampleIsTrue, Remaining, Clean, Of, Activated, CountsIn
<1>2. QED
  BY <1>1, BaselineSweeps, EngageSweeps, ActivateSweeps, DepartSweeps DEF SweepNext

\* The samples of a sweep are true of the costs it has, at every step of it.
THEOREM SweepInvariant == SweepSpec => []SweepInv
BY InitSweep, SweepGoesOn, PTL DEF SweepSpec

\* Whatever a workspace costs, and whatever the reads caught on the way down, as
\* long as the way up and one comparable sample caught nothing, the sweep finds
\* exactly what each departed workspace keeps (retained.go:47-60 and 73-133).
THEOREM RetentionIsAlwaysExact == SweepSpec => []RetentionIsExact
<1>1. SweepInv => RetentionIsExact
  BY LowestIsFound DEF RetentionIsExact
<1>2. QED
  BY <1>1, SweepInvariant, PTL

-----------------------------------------------------------------------------
(* Where the idle cost leaves its line, for any costs and any peak. *)

\* What is kept of the samples up to the n-th, given what was kept before it.
IsRepeat(kept, s) == s.phase = "baseline" \/ \E p \in ToSet(kept) : p.workspaces = s.workspaces

KeptAt(taken, g, n) ==
  IF n = 0 THEN <<>>
  ELSE IF IsRepeat(g[n - 1], taken[n]) THEN g[n - 1] ELSE Append(g[n - 1], taken[n])

Kept(taken) == CHOOSE g : g = [n \in 0..Len(taken) |-> KeptAt(taken, g, n)]

LEMMA ScalingIsKept ==
  ASSUME NEW taken PROVE Scaling(taken) = Kept(taken)[Len(taken)]
BY DEF Scaling, Kept, KeptAt, IsRepeat

\* The recursive function satisfies its own equation.
LEMMA KeptExists ==
  ASSUME NEW S, NEW taken \in Seq(S)
  PROVE  Kept(taken) = [n \in 0..Len(taken) |-> KeptAt(taken, Kept(taken), n)]
<1> DEFINE nxt == [n \in 1..Len(taken) |-> [v \in Seq(S) |->
                     IF IsRepeat(v, taken[n]) THEN v ELSE Append(v, taken[n])]]
<1>1. Len(taken) \in Nat /\ <<>> \in Seq(S) /\ \A n \in 1..Len(taken) : taken[n] \in S
  BY LenProperties, ElementOfSeq, EmptySeq
<1>2. \A n \in 1..Len(taken), v \in Seq(S) :
        nxt[n][v] = IF IsRepeat(v, taken[n]) THEN v ELSE Append(v, taken[n])
  OBVIOUS
<1>3. \A n \in 1..Len(taken), v \in Seq(S) : nxt[n][v] \in Seq(S)
  BY <1>1, <1>2, AppendProperties
<1> HIDE DEF nxt
<1>4. PICK f : IsRecursion(f, Len(taken), Seq(S), <<>>, nxt)
  BY <1>1, <1>3, RecursionExists
<1>5. ASSUME NEW n \in 0..Len(taken) PROVE f[n] = KeptAt(taken, f, n)
  <2>1. CASE n = 0
    BY <1>4, <2>1 DEF KeptAt, IsRecursion
  <2>2. CASE n # 0
    <3>1. n \in 1..Len(taken) /\ n - 1 \in 0..Len(taken)
      BY <1>1, <2>2
    <3>2. f[n - 1] \in Seq(S)
      BY <1>4, <3>1 DEF IsRecursion
    <3>3. QED
      BY <1>2, <1>4, <2>2, <3>1, <3>2 DEF KeptAt, IsRecursion
  <2>3. QED
    BY <2>1, <2>2
<1>6. f = [n \in 0..Len(taken) |-> KeptAt(taken, f, n)]
  BY <1>4, <1>5 DEF IsRecursion
<1>7. QED
  BY <1>6 DEF Kept

LEMMA KeptStep ==
  ASSUME NEW S, NEW taken \in Seq(S), NEW n \in 0..Len(taken)
  PROVE  Kept(taken)[n] = KeptAt(taken, Kept(taken), n)
<1>1. ASSUME NEW h, h = [i \in 0..Len(taken) |-> KeptAt(taken, h, i)]
      PROVE  h[n] = KeptAt(taken, h, n)
  BY <1>1
<1>2. QED
  BY <1>1, KeptExists

\* One sample more is kept unless it is a repeat.
LEMMA ScalingOfOneMore ==
  ASSUME NEW S, NEW taken \in Seq(S), NEW s \in S
  PROVE  Scaling(Append(taken, s))
           = IF IsRepeat(Scaling(taken), s) THEN Scaling(taken) ELSE Append(Scaling(taken), s)
<1> DEFINE more == Append(taken, s)
           f == Kept(more)
           g == Kept(taken)
           G == {n \in Nat : n <= Len(taken) => f[n] = g[n]}
<1>1. /\ Len(taken) \in Nat /\ Len(more) = Len(taken) + 1 /\ more[Len(taken) + 1] = s
      /\ more \in Seq(S) /\ \A i \in 1..Len(taken) : more[i] = taken[i]
  BY LenProperties, AppendProperties
<1> HIDE DEF more
<1>2. \A n \in 0..Len(taken) + 1 : f[n] = KeptAt(more, f, n)
  BY <1>1, KeptStep
<1>3. \A n \in 0..Len(taken) : g[n] = KeptAt(taken, g, n)
  BY <1>1, KeptStep
<1> HIDE DEF f, g
<1>4. 0 \in G
  BY <1>1, <1>2, <1>3 DEF KeptAt
<1>5. ASSUME NEW n \in Nat, n \in G PROVE n + 1 \in G
  <2> SUFFICES ASSUME n + 1 <= Len(taken) PROVE f[n + 1] = g[n + 1]
    OBVIOUS
  <2>1. /\ f[n] = g[n] /\ more[n + 1] = taken[n + 1]
        /\ n + 1 # 0 /\ (n + 1) - 1 = n
        /\ n + 1 \in 0..Len(taken) /\ n + 1 \in 0..Len(taken) + 1
    BY <1>1, <1>5
  <2>2. f[n + 1] = KeptAt(more, f, n + 1) /\ g[n + 1] = KeptAt(taken, g, n + 1)
    BY <1>2, <1>3, <2>1
  <2>3. QED
    BY <2>1, <2>2 DEF KeptAt
<1>6. \A n \in Nat : n \in G
  <2> HIDE DEF G
  <2>1. QED
    BY <1>4, <1>5, UpToInduction
<1>7. f[Len(taken)] = g[Len(taken)]
  BY <1>1, <1>6
<1>8. f[Len(taken) + 1] = KeptAt(more, f, Len(taken) + 1)
  BY <1>1, <1>2
<1>9. Len(taken) + 1 # 0 /\ (Len(taken) + 1) - 1 = Len(taken)
  BY <1>1
<1>10. f[Len(taken) + 1] = IF IsRepeat(g[Len(taken)], s) THEN g[Len(taken)] ELSE Append(g[Len(taken)], s)
  BY <1>1, <1>7, <1>8, <1>9 DEF KeptAt
<1>11. QED
  BY <1>1, <1>10, ScalingIsKept DEF f, g, more

\* The samples of engagements are those kept, one for each count in turn.
CleanlyEngaged == \A i \in Of("engaged") : Clean(i)
IdleCost(k) == curve[k] + Work * (k - 1)

ScaledUp(kept, upTo, clean) ==
  /\ kept \in Seq(Samples) /\ Len(kept) = upTo
  /\ \A k \in 1..upTo :
       kept[k].workspaces = k /\ (clean => kept[k].goroutines = IdleCost(k))

\* The sample with nobody left is kept too, after the others.
Undisturbed ==
  \A i \in Of("engaged") \cup {j \in Of("disengaged") : samples[j].workspaces = 0} : Clean(i)
NobodyLeft == step = "depart" /\ serving = 0
LastCount == IF step = "depart" THEN Peak ELSE serving

EmptiedOut(kept, s) ==
  /\ s \in Samples /\ s.workspaces = 0
  /\ Undisturbed => s.goroutines = curve[0]
  /\ Scaling(samples) = Append(kept, s)

EngagedInTurn ==
  /\ ~NobodyLeft => ScaledUp(Scaling(samples), LastCount, CleanlyEngaged)
  /\ NobodyLeft => \E kept, s : ScaledUp(kept, Peak, CleanlyEngaged) /\ EmptiedOut(kept, s)

LEMMA InitEngaged == SweepInit => EngagedInTurn
<1> SUFFICES ASSUME SweepInit PROVE EngagedInTurn
  OBVIOUS
<1>1. samples = <<>> /\ serving = 0 /\ <<>> \in Seq(Samples) /\ Len(<<>>) = 0
  BY EmptySeq DEF SweepInit
<1>2. Scaling(<<>>) = <<>>
  <2>1. Len(<<>>) \in Nat /\ 0 \in 0..Len(<<>>)
    BY <1>1
  <2>2. Kept(<<>>)[0] = KeptAt(<<>>, Kept(<<>>), 0)
    BY <1>1, <2>1, KeptStep
  <2>3. QED
    BY <1>1, <2>2, ScalingIsKept DEF KeptAt
<1>3. step = "baseline" /\ LastCount = 0 /\ ~NobodyLeft
  BY DEF SweepInit, LastCount, NobodyLeft
<1>4. ScaledUp(<<>>, 0, CleanlyEngaged)
  BY <1>1 DEF ScaledUp
<1>5. QED
  BY <1>1, <1>2, <1>3, <1>4 DEF EngagedInTurn

\* Engagements that are clean with one sample more were so without it.
LEMMA CleanBefore ==
  ASSUME SweepTypeOK, NEW s, NEW off, OneMore(s, off), CleanlyEngaged'
  PROVE  CleanlyEngaged /\ (s.phase = "engaged" => off = 0)
<1>1. Of("engaged") \subseteq Of("engaged")'
  BY DEF Of, OneMore
<1>2. \A i \in Of("engaged") : Clean(i)
  BY <1>1 DEF Of, OneMore, Clean, CleanlyEngaged
<1>3. s.phase = "engaged" => Len(samples) + 1 \in Of("engaged")'
  BY DEF Of, OneMore
<1>4. s.phase = "engaged" => off = 0
  BY <1>3 DEF OneMore, Clean, CleanlyEngaged
<1>5. QED
  BY <1>2, <1>4 DEF CleanlyEngaged

\* A repeat changes nothing.
LEMMA RepeatIsDropped ==
  ASSUME SweepInv, EngagedInTurn, ~NobodyLeft, ~NobodyLeft', LastCount' = LastCount,
         curve' = curve, NEW s \in Samples, NEW off, OneMore(s, off), samples' = Append(samples, s),
         IsRepeat(Scaling(samples), s)
  PROVE  EngagedInTurn'
<1>1. samples \in Seq(Samples) /\ SweepTypeOK
  BY DEF SweepInv, SweepTypeOK
<1>2. Scaling(samples') = Scaling(samples)
  BY <1>1, ScalingOfOneMore
<1>3. ScaledUp(Scaling(samples), LastCount, CleanlyEngaged) /\ (CleanlyEngaged' => CleanlyEngaged)
  BY <1>1, CleanBefore DEF EngagedInTurn
<1>4. PICK kept : kept = Scaling(samples)
  OBVIOUS
<1>5. ScaledUp(kept, LastCount, CleanlyEngaged)'
  BY <1>3, <1>4 DEF ScaledUp, IdleCost
<1>6. Scaling(samples)' = kept
  BY <1>2, <1>4
<1>7. QED
  BY <1>5, <1>6 DEF EngagedInTurn

LEMMA BaselineKeepsTurns == SweepInv /\ EngagedInTurn /\ Baseline => EngagedInTurn'
<1> SUFFICES ASSUME SweepInv, EngagedInTurn, Baseline PROVE EngagedInTurn'
  OBVIOUS
<1>1. /\ SweepTypeOK /\ step = "baseline" /\ curve' = curve /\ serving' = serving
  BY DEF Baseline, SweepInv
<1>2. PICK off \in Noise : Sample("baseline", 0, curve[0], off, off)
  BY DEF Baseline, Take
<1> DEFINE t == [phase |-> "baseline", workspaces |-> 0, goroutines |-> curve[0] + off]
<1>3. curve[0] \in Nat /\ off \in Nat /\ "baseline" \in Phases
  BY <1>1, SweepAssumption DEF SweepTypeOK, Noise, Phases
<1>4. /\ OneMore(t, off) /\ t \in Samples /\ t.phase = "baseline"
      /\ samples' = Append(samples, t)
  <2>1. OneMore(t, off)
    BY <1>1, <1>2, <1>3, SampleIsOneMore
  <2>2. t \in Samples
    BY <1>3 DEF Samples
  <2>3. QED
    BY <1>2, <2>1, <2>2 DEF Sample
<1> HIDE DEF t
<1>5. IsRepeat(Scaling(samples), t)
  BY <1>4 DEF IsRepeat
<1>6. PICK s \in Samples : /\ OneMore(s, off) /\ samples' = Append(samples, s)
                           /\ IsRepeat(Scaling(samples), s)
  BY <1>4, <1>5
<1>7. step' = "engage" /\ ~NobodyLeft /\ ~NobodyLeft' /\ LastCount' = LastCount
  BY <1>1 DEF Baseline, NobodyLeft, LastCount
<1>8. QED
  BY <1>1, <1>6, <1>7, RepeatIsDropped

LEMMA ActivateKeepsTurns == SweepInv /\ EngagedInTurn /\ Activate => EngagedInTurn'
<1> SUFFICES ASSUME SweepInv, EngagedInTurn, Activate PROVE EngagedInTurn'
  OBVIOUS
<1>1. /\ SweepTypeOK /\ step = "activate" /\ serving > 0 /\ curve' = curve /\ serving' = serving
  BY DEF Activate, SweepInv
<1>2. PICK off \in Noise : Sample("active", serving, curve[serving] + Work * serving, off, off)
  BY DEF Activate, Take
<1> DEFINE t == [phase |-> "active", workspaces |-> serving,
                 goroutines |-> curve[serving] + Work * serving + off]
<1>3. /\ serving \in Nat /\ off \in Nat /\ "active" \in Phases
      /\ curve[serving] \in Nat /\ Work * serving \in Nat
  BY <1>1, SweepAssumption DEF SweepTypeOK, Noise, Phases
<1>4. /\ OneMore(t, off) /\ t \in Samples /\ t.workspaces = serving
      /\ samples' = Append(samples, t)
  <2>1. OneMore(t, off)
    BY <1>1, <1>2, <1>3, SampleIsOneMore
  <2>2. t \in Samples
    BY <1>3 DEF Samples
  <2>3. QED
    BY <1>2, <2>1, <2>2 DEF Sample
<1> HIDE DEF t
<1>5. IsRepeat(Scaling(samples), t)
  <2>1. /\ Scaling(samples) \in Seq(Samples) /\ Len(Scaling(samples)) = serving
        /\ serving \in 1..serving /\ Scaling(samples)[serving].workspaces = serving
    BY <1>1, <1>3 DEF EngagedInTurn, ScaledUp, NobodyLeft, LastCount
  <2>2. serving \in DOMAIN Scaling(samples)
    BY <2>1, LenProperties
  <2>3. QED
    BY <1>4, <2>1, <2>2 DEF IsRepeat, ToSet
<1>6. PICK s \in Samples : /\ OneMore(s, off) /\ samples' = Append(samples, s)
                           /\ IsRepeat(Scaling(samples), s)
  BY <1>4, <1>5
<1>7. ~NobodyLeft /\ ~NobodyLeft' /\ LastCount' = LastCount
  <2>1. step' = IF serving = Peak THEN "depart" ELSE "engage"
    BY DEF Activate
  <2>2. QED
    BY <1>1, <1>3, <2>1 DEF NobodyLeft, LastCount
<1>8. QED
  BY <1>1, <1>6, <1>7, RepeatIsDropped

LEMMA EngageKeepsTurns == SweepInv /\ EngagedInTurn /\ EngageOne => EngagedInTurn'
<1> SUFFICES ASSUME SweepInv, EngagedInTurn, EngageOne PROVE EngagedInTurn'
  OBVIOUS
<1>1. /\ SweepTypeOK /\ step = "engage" /\ serving < Peak
      /\ curve' = curve /\ serving' = serving + 1
  BY DEF EngageOne, SweepInv
<1>2. PICK off \in Noise :
        Sample("engaged", serving + 1, curve[serving + 1] + Work * serving, off, off)
  BY <1>1 DEF EngageOne, Take
<1> DEFINE t == [phase |-> "engaged", workspaces |-> serving + 1,
                 goroutines |-> curve[serving + 1] + Work * serving + off]
<1>3. /\ serving \in Nat /\ serving + 1 \in Nat /\ off \in Nat /\ "engaged" \in Phases
      /\ serving + 1 \in 0..Peak /\ curve[serving + 1] \in Nat /\ Work * serving \in Nat
  BY <1>1, SweepAssumption DEF SweepTypeOK, Noise, Phases
<1>4. /\ OneMore(t, off) /\ t \in Samples /\ samples' = Append(samples, t)
      /\ t.phase = "engaged" /\ t.workspaces = serving + 1
      /\ (off = 0 => t.goroutines = IdleCost(serving + 1))
  <2>1. OneMore(t, off)
    BY <1>1, <1>2, <1>3, SampleIsOneMore
  <2>2. t \in Samples
    BY <1>3 DEF Samples
  <2>3. off = 0 => t.goroutines = IdleCost(serving + 1)
    <3>1. (serving + 1) - 1 = serving /\ curve[serving + 1] + Work * serving + 0 = curve[serving + 1] + Work * serving
      BY <1>3
    <3>2. QED
      BY <3>1 DEF IdleCost
  <2>4. QED
    BY <1>2, <2>1, <2>2, <2>3 DEF Sample
<1> HIDE DEF t
<1>5. PICK s \in Samples : s = t
  BY <1>4
<1>6. PICK kept : kept = Scaling(samples)
  OBVIOUS
<1>7. /\ kept \in Seq(Samples) /\ Len(kept) = serving /\ DOMAIN kept = 1..serving
      /\ \A k \in 1..serving : /\ kept[k].workspaces = k
                               /\ (CleanlyEngaged => kept[k].goroutines = IdleCost(k))
  BY <1>1, <1>6, LenProperties DEF EngagedInTurn, ScaledUp, NobodyLeft, LastCount
<1>8. ~IsRepeat(kept, s)
  <2>1. \A k \in 1..serving : kept[k].workspaces # serving + 1
    BY <1>3, <1>7
  <2>2. QED
    BY <1>4, <1>5, <1>7, <2>1 DEF IsRepeat, ToSet
<1>9. Scaling(samples)' = Append(kept, s)
  <2>1. samples \in Seq(Samples)
    BY <1>1 DEF SweepTypeOK
  <2>2. QED
    BY <1>4, <1>5, <1>6, <1>8, <2>1, ScalingOfOneMore
<1>10. PICK more : more = Append(kept, s)
  OBVIOUS
<1>11. /\ more \in Seq(Samples) /\ Len(more) = serving + 1
       /\ \A k \in 1..serving : more[k] = kept[k]
       /\ more[serving + 1] = s
  BY <1>7, <1>10, AppendProperties
<1>12. \A k : IdleCost(k)' = curve[k] + Work * (k - 1)
  BY <1>1 DEF IdleCost
<1>13. CleanlyEngaged' => CleanlyEngaged /\ off = 0
  BY <1>1, <1>4, <1>5, CleanBefore
<1>14. ASSUME NEW k \in 1..serving + 1
       PROVE  more[k].workspaces = k /\ (CleanlyEngaged' => more[k].goroutines = IdleCost(k)')
  <2>1. CASE k \in 1..serving
    BY <1>7, <1>11, <1>12, <1>13, <2>1 DEF IdleCost
  <2>2. CASE k = serving + 1
    BY <1>4, <1>5, <1>11, <1>12, <1>13, <2>2 DEF IdleCost
  <2>3. k \in 1..serving \/ k = serving + 1
    BY <1>3
  <2>4. QED
    BY <2>1, <2>2, <2>3
<1>15. step' = "activate" /\ ~NobodyLeft' /\ LastCount' = serving + 1
  BY <1>1 DEF EngageOne, NobodyLeft, LastCount
<1>16. ScaledUp(more, LastCount, CleanlyEngaged)'
  BY <1>11, <1>14, <1>15 DEF ScaledUp
<1>17. QED
  BY <1>9, <1>10, <1>15, <1>16 DEF EngagedInTurn

LEMMA DepartKeepsTurns == SweepInv /\ EngagedInTurn /\ Depart => EngagedInTurn'
<1> SUFFICES ASSUME SweepInv, EngagedInTurn, Depart PROVE EngagedInTurn'
  OBVIOUS
<1>1. /\ SweepTypeOK /\ step = "depart" /\ step' = step /\ serving > 0
      /\ serving \in 0..Peak /\ curve' = curve /\ serving' = serving - 1
  BY DEF Depart, SweepInv, SweepTypeOK
<1>2. PICK n1 \in Noise, n2 \in Noise :
        Sample("disengaged", serving - 1, Remaining(serving - 1),
               IF n1 < n2 THEN n1 ELSE n2, n1 + n2)
  BY <1>1 DEF Depart, TakeLowest, Remaining
<1> DEFINE off == IF n1 < n2 THEN n1 ELSE n2
           t == [phase |-> "disengaged", workspaces |-> serving - 1,
                 goroutines |-> Remaining(serving - 1) + off]
<1>3. /\ serving - 1 \in Nat /\ off \in Nat /\ "disengaged" \in Phases
      /\ Remaining(serving - 1) \in Nat
  <2>1. serving - 1 \in Nat /\ serving - 1 \in 0..Peak /\ Peak - (serving - 1) \in Nat /\ 0 \in 0..Peak
    BY <1>1, SweepAssumption
  <2>2. /\ curve[0] \in Nat /\ curve[serving - 1] \in Nat
        /\ Work * (serving - 1) \in Nat /\ retains * (Peak - (serving - 1)) \in Nat
    BY <1>1, <2>1, SweepAssumption DEF SweepTypeOK
  <2>3. QED
    BY <2>1, <2>2 DEF Remaining, Noise, Phases
<1>4. /\ OneMore(t, off) /\ t \in Samples /\ t.phase = "disengaged" /\ t.workspaces = serving - 1
      /\ t.goroutines = Remaining(serving - 1) + off /\ samples' = Append(samples, t)
  <2>1. Sample("disengaged", serving - 1, Remaining(serving - 1), off, n1 + n2)
    BY <1>2
  <2> HIDE DEF off
  <2>2. OneMore(t, off)
    BY <1>1, <1>3, <2>1, SampleIsOneMore
  <2>3. t \in Samples
    BY <1>3 DEF Samples
  <2>4. QED
    BY <2>1, <2>2, <2>3 DEF Sample
<1> HIDE DEF off, t
<1>5. PICK s \in Samples : s = t
  BY <1>4
<1>6. PICK kept : kept = Scaling(samples)
  OBVIOUS
<1>7. /\ ~NobodyLeft /\ LastCount = Peak /\ LastCount' = Peak
      /\ ScaledUp(kept, Peak, CleanlyEngaged) /\ Peak \in Nat
  BY <1>1, <1>6, SweepAssumption DEF NobodyLeft, LastCount, EngagedInTurn
<1>8. CASE serving > 1
  <2>1. ~NobodyLeft' /\ serving - 1 \in 1..Peak
    BY <1>1, <1>7, <1>8 DEF NobodyLeft
  <2>2. kept \in Seq(Samples) /\ DOMAIN kept = 1..Peak /\ kept[serving - 1].workspaces = serving - 1
    BY <1>7, <2>1, LenProperties DEF ScaledUp
  <2>3. IsRepeat(kept, s)
    BY <1>4, <1>5, <2>1, <2>2 DEF IsRepeat, ToSet
  <2>4. QED
    BY <1>1, <1>4, <1>5, <1>6, <1>7, <2>1, <2>3, RepeatIsDropped
<1>9. CASE serving = 1
  <2>1. NobodyLeft' /\ s.workspaces = 0 /\ s.phase = "disengaged" /\ s.goroutines = curve[0] + off
    BY <1>1, <1>4, <1>5, <1>9 DEF NobodyLeft, Remaining
  <2>2. /\ kept \in Seq(Samples) /\ DOMAIN kept = 1..Peak
        /\ \A k \in 1..Peak : kept[k].workspaces = k /\ k # 0
    BY <1>7, LenProperties DEF ScaledUp
  <2>3. ~IsRepeat(kept, s)
    BY <2>1, <2>2 DEF IsRepeat, ToSet
  <2>4. Scaling(samples)' = Append(kept, s)
    <3>1. samples \in Seq(Samples)
      BY <1>1 DEF SweepTypeOK
    <3>2. QED
      BY <1>4, <1>5, <1>6, <2>3, <3>1, ScalingOfOneMore
  <2>5. ScaledUp(kept, Peak, CleanlyEngaged)'
    <3>1. CleanlyEngaged' => CleanlyEngaged
      BY <1>1, <1>4, <1>5, CleanBefore
    <3>2. \A k : IdleCost(k)' = curve[k] + Work * (k - 1)
      BY <1>1 DEF IdleCost
    <3>3. QED
      BY <1>7, <3>1, <3>2 DEF ScaledUp, IdleCost
  <2>6. Undisturbed' => s.goroutines = curve[0]
    <3>1. Len(samples) + 1 \in {j \in Of("disengaged")' : samples'[j].workspaces = 0}
      BY <1>4, <1>5, <2>1 DEF Of, OneMore
    <3>2. Undisturbed' => Len(samples) + 1 \notin muddied'
      BY <3>1 DEF Undisturbed, Clean
    <3>3. curve[0] \in Nat
      BY <1>1, SweepAssumption DEF SweepTypeOK
    <3>4. QED
      BY <1>4, <1>5, <2>1, <3>2, <3>3 DEF OneMore
  <2>7. EmptiedOut(kept, s)'
    BY <1>1, <2>1, <2>4, <2>6 DEF EmptiedOut
  <2>8. QED
    BY <2>1, <2>5, <2>7 DEF EngagedInTurn
<1>10. QED
  BY <1>1, <1>8, <1>9

\* What rises is in order.
LEMMA InOrder ==
  ASSUME NEW points, NEW n \in Nat, DOMAIN points = 1..n,
         points = [i \in 1..n |-> points[i]],
         \A i, j \in 1..n : points[i].workspaces \in Int
                            /\ (i < j => points[i].workspaces < points[j].workspaces)
  PROVE  ByWorkspaces(points) = points
<1>1. ASSUME NEW i \in 1..n PROVE Place(points, i) = i
  <2>1. {j \in DOMAIN points : \/ points[j].workspaces < points[i].workspaces
                               \/ points[j].workspaces = points[i].workspaces /\ j <= i}
          = 1..i
    <3>1. ASSUME NEW j \in 1..n
          PROVE  (\/ points[j].workspaces < points[i].workspaces
                  \/ points[j].workspaces = points[i].workspaces /\ j <= i) <=> j <= i
      <4>1. points[i].workspaces \in Int /\ points[j].workspaces \in Int
        OBVIOUS
      <4>2. /\ i < j => points[i].workspaces < points[j].workspaces
            /\ j < i => points[j].workspaces < points[i].workspaces
        OBVIOUS
      <4>3. i < j \/ j < i \/ i = j
        OBVIOUS
      <4>4. QED
        BY <4>1, <4>2, <4>3
    <3>2. \A j : j \in 1..i <=> j \in 1..n /\ j <= i
      OBVIOUS
    <3>3. QED
      BY <3>1, <3>2
  <2>2. Cardinality(1..i) = i
    BY FS_Interval
  <2>3. QED
    BY <2>1, <2>2 DEF Place
<1>2. ASSUME NEW m \in 1..n PROVE (CHOOSE i \in DOMAIN points : Place(points, i) = m) = m
  BY <1>1
<1>3. QED
  BY <1>2 DEF ByWorkspaces

\* What comes after those that rise, and is below them all, comes first.
LEMMA LastComesFirst ==
  ASSUME NEW points, NEW n \in Nat, DOMAIN points = 1..n + 1,
         \A i \in 1..n : points[i].workspaces = i,
         points[n + 1].workspaces = 0
  PROVE  ByWorkspaces(points) = [m \in 1..n + 1 |-> IF m = 1 THEN points[n + 1] ELSE points[m - 1]]
<1> DEFINE Before(i) == {j \in DOMAIN points :
                            \/ points[j].workspaces < points[i].workspaces
                            \/ points[j].workspaces = points[i].workspaces /\ j <= i}
<1>1. \A i : Place(points, i) = Cardinality(Before(i))
  BY DEF Place
<1>2. ASSUME NEW i \in 1..n PROVE Place(points, i) = i + 1
  <2>1. Before(i) = (1..i) \cup {n + 1}
    <3>1. ASSUME NEW j \in 1..n PROVE j \in Before(i) <=> j <= i
      <4>1. points[i].workspaces = i /\ points[j].workspaces = j /\ j \in DOMAIN points
        OBVIOUS
      <4>2. QED
        BY <4>1
    <3>2. n + 1 \in Before(i)
      <4>1. points[i].workspaces = i /\ 0 < i /\ n + 1 \in DOMAIN points
        OBVIOUS
      <4>2. QED
        BY <4>1
    <3>3. \A j : j \in DOMAIN points <=> j \in 1..n \/ j = n + 1
      OBVIOUS
    <3>4. \A j : j \in 1..i <=> j \in 1..n /\ j <= i
      OBVIOUS
    <3>5. Before(i) \subseteq DOMAIN points
      OBVIOUS
    <3> HIDE DEF Before
    <3>6. QED
      BY <3>1, <3>2, <3>3, <3>4, <3>5
  <2>2. IsFiniteSet(1..i) /\ Cardinality(1..i) = i /\ n + 1 \notin 1..i
    BY FS_Interval
  <2>3. Cardinality((1..i) \cup {n + 1}) = i + 1
    BY <2>2, FS_AddElement
  <2> HIDE DEF Before
  <2>4. QED
    BY <1>1, <2>1, <2>3
<1>3. Place(points, n + 1) = 1
  <2>1. Before(n + 1) = {n + 1}
    <3>1. ASSUME NEW j \in 1..n PROVE j \notin Before(n + 1)
      <4>1. points[j].workspaces = j /\ j > 0
        OBVIOUS
      <4>2. QED
        BY <4>1
    <3>2. n + 1 \in Before(n + 1)
      OBVIOUS
    <3>3. \A j : j \in DOMAIN points <=> j \in 1..n \/ j = n + 1
      OBVIOUS
    <3>4. Before(n + 1) \subseteq DOMAIN points
      OBVIOUS
    <3> HIDE DEF Before
    <3>5. QED
      BY <3>1, <3>2, <3>3, <3>4
  <2>2. QED
    BY <1>1, <2>1, FS_Singleton
<1> HIDE DEF Before
<1>4. ASSUME NEW m \in 1..n + 1
      PROVE  (CHOOSE i \in DOMAIN points : Place(points, i) = m) = IF m = 1 THEN n + 1 ELSE m - 1
  <2>1. ASSUME NEW i \in DOMAIN points PROVE Place(points, i) = m <=> i = IF m = 1 THEN n + 1 ELSE m - 1
    <3>1. CASE i \in 1..n
      BY <1>2, <3>1
    <3>2. CASE i = n + 1
      BY <1>3, <3>2
    <3>3. QED
      BY <3>1, <3>2
  <2>2. (IF m = 1 THEN n + 1 ELSE m - 1) \in DOMAIN points
    OBVIOUS
  <2>3. QED
    BY <2>1, <2>2
<1>5. ASSUME NEW m \in 1..n + 1
      PROVE  points[CHOOSE i \in DOMAIN points : Place(points, i) = m]
               = IF m = 1 THEN points[n + 1] ELSE points[m - 1]
  <2>1. PICK i : i = CHOOSE j \in DOMAIN points : Place(points, j) = m
    OBVIOUS
  <2>2. i = IF m = 1 THEN n + 1 ELSE m - 1
    BY <1>4, <2>1
  <2>3. points[i] = IF m = 1 THEN points[n + 1] ELSE points[m - 1]
    BY <2>2
  <2>4. QED
    BY <2>1, <2>3
<1>6. ByWorkspaces(points)
        = [m \in 1..n + 1 |-> points[CHOOSE i \in DOMAIN points : Place(points, i) = m]]
  BY DEF ByWorkspaces
<1>7. QED
  BY <1>5, <1>6

\* What FindDeparture says, of the points in their order: the places above the
\* line that run and rise draw, and the report on the places found.
Departing(sorted, run, rise) ==
  {i \in 3..Len(sorted) :
     LET projected == sorted[1].value * run
                        + rise * (sorted[i].workspaces - sorted[1].workspaces)
     IN  projected > 0 /\ 4 * run * sorted[i].value > 5 * projected}
Departs(points, sorted, run, departed) ==
  FindDeparture(points) =
    IF Len(points) < DefaultMinPoints \/ run = 0 THEN CouldNotRun
    ELSE IF departed = {} THEN NoDeparture
    ELSE DepartsAt(sorted[CHOOSE i \in departed : \A j \in departed : i <= j].workspaces)

Given(points, sorted, run, rise, departed) ==
  /\ sorted = ByWorkspaces(points)
  /\ run = sorted[2].workspaces - sorted[1].workspaces
  /\ rise = sorted[2].value - sorted[1].value
  /\ departed = Departing(sorted, run, rise)

LEMMA FindDepartureIs ==
  \A points, sorted, run, rise, departed :
    Given(points, sorted, run, rise, departed) => Departs(points, sorted, run, departed)
BY DEF Given, FindDeparture, Departing, Departs

\* The line through the two smallest counts, the first of them base + 1, where
\* a cost leaves it by more than a quarter, and what is to be said of that.
LineOf(cost, k) == cost[1] + (cost[2] - cost[1]) * (k - 1)
Leaves(n, cost) == {k \in 3..n : LineOf(cost, k) > 0 /\ 4 * cost[k] > 5 * LineOf(cost, k)}
Said(n, base, cost) ==
  IF n < DefaultMinPoints THEN CouldNotRun
  ELSE IF Leaves(n, cost) = {} THEN NoDeparture
  ELSE DepartsAt(base + (CHOOSE k \in Leaves(n, cost) : \A j \in Leaves(n, cost) : k <= j))

ByCount(sorted, n, base, cost) ==
  sorted = [i \in 1..n |-> [workspaces |-> base + i, value |-> cost[i]]]

LEMMA DepartureOfPoints ==
  ASSUME NEW n \in Nat, NEW base \in Int, NEW cost \in [1..n -> Nat], NEW points, Len(points) = n,
         NEW sorted, ByWorkspaces(points) = sorted, ByCount(sorted, n, base, cost)
  PROVE  FindDeparture(points) = Said(n, base, cost)
<1>1. /\ DOMAIN sorted = 1..n
      /\ \A i \in 1..n : sorted[i].workspaces = base + i /\ sorted[i].value = cost[i]
  BY DEF ByCount
<1>2. Len(sorted) = n
  <2>1. PICK S : S = [workspaces : Int, value : Nat]
    OBVIOUS
  <2>2. sorted \in [1..n -> S]
    BY <2>1 DEF ByCount
  <2>3. sorted \in Seq(S) /\ DOMAIN sorted = 1..n
    BY <2>2, SeqDef
  <2>4. Len(sorted) \in Nat /\ 1..Len(sorted) = 1..n
    BY <2>3, LenProperties
  <2>5. QED
    BY <2>4
<1>3. CASE n < DefaultMinPoints
  BY <1>3 DEF FindDeparture, Said
<1>4. CASE ~(n < DefaultMinPoints)
  <2>1. 1 \in 1..n /\ 2 \in 1..n /\ \A i \in 3..n : i \in 1..n
    BY <1>4 DEF DefaultMinPoints
  <2>2. /\ sorted[1].workspaces = base + 1 /\ sorted[1].value = cost[1]
        /\ sorted[2].workspaces = base + 2 /\ sorted[2].value = cost[2]
    BY <1>1, <2>1
  <2>3. cost[1] \in Int /\ cost[2] \in Int /\ \A i \in 3..n : cost[i] \in Int
    BY <2>1
  <2>4. PICK run : run = sorted[2].workspaces - sorted[1].workspaces
    OBVIOUS
  <2>5. PICK rise : rise = sorted[2].value - sorted[1].value
    OBVIOUS
  <2>6. run = 1 /\ rise = cost[2] - cost[1] /\ rise \in Int
    BY <2>2, <2>3, <2>4, <2>5
  <2>7. Leaves(n, cost) = Departing(sorted, run, rise)
    <3>1. ASSUME NEW i \in 3..n
          PROVE  /\ sorted[1].value * run + rise * (sorted[i].workspaces - sorted[1].workspaces)
                      = LineOf(cost, i)
                 /\ 4 * run * sorted[i].value = 4 * cost[i]
      <4>1. sorted[i].workspaces = base + i /\ sorted[i].value = cost[i] /\ cost[i] \in Int
        BY <1>1, <2>1, <2>3
      <4>2. sorted[i].workspaces - sorted[1].workspaces = i - 1
        BY <2>2, <4>1
      <4>3. cost[1] * 1 + (cost[2] - cost[1]) * (i - 1) = LineOf(cost, i)
        BY <2>3 DEF LineOf
      <4>4. 4 * 1 * cost[i] = 4 * cost[i]
        BY <4>1
      <4>5. QED
        BY <2>2, <2>6, <4>1, <4>2, <4>3, <4>4
    <3>2. \A i \in 3..n : i \in Leaves(n, cost) <=> i \in Departing(sorted, run, rise)
      BY <1>2, <3>1 DEF Leaves, Departing
    <3>3. Leaves(n, cost) \subseteq 3..n /\ Departing(sorted, run, rise) \subseteq 3..n
      BY <1>2 DEF Leaves, Departing
    <3>4. QED
      BY <3>2, <3>3
  <2>8. PICK departed : departed = Leaves(n, cost)
    OBVIOUS
  <2>9. Departs(points, sorted, run, departed)
    <3>1. departed = Departing(sorted, run, rise)
      BY <2>7, <2>8
    <3>2. Given(points, sorted, run, rise, departed)
      BY <2>4, <2>5, <3>1 DEF Given
    <3>3. QED
      BY <3>2, FindDepartureIs
  <2>10. departed # {} => (CHOOSE k \in departed : \A j \in departed : k <= j) \in 1..n
    <3>1. departed \in SUBSET Nat /\ departed \subseteq 1..n
      BY <2>1, <2>8 DEF Leaves
    <3>2. departed # {} => \E k \in departed : \A j \in departed : k <= j
      BY <3>1, LowestIsIn
    <3>3. QED
      BY <3>1, <3>2
  <2>11. PICK k : k = CHOOSE i \in departed : \A j \in departed : i <= j
    OBVIOUS
  <2>12. departed # {} => sorted[k].workspaces = base + k
    BY <1>1, <2>10, <2>11
  <2>13. /\ FindDeparture(points) = IF departed = {} THEN NoDeparture
                                   ELSE DepartsAt(sorted[k].workspaces)
         /\ Said(n, base, cost) = IF departed = {} THEN NoDeparture ELSE DepartsAt(base + k)
    <3>1. ~(Len(points) < DefaultMinPoints \/ run = 0)
      BY <1>4, <2>6
    <3>2. FindDeparture(points) = IF departed = {} THEN NoDeparture
                                  ELSE DepartsAt(sorted[k].workspaces)
      BY <2>9, <2>11, <3>1 DEF Departs
    <3>3. Said(n, base, cost) = IF departed = {} THEN NoDeparture ELSE DepartsAt(base + k)
      BY <1>4, <2>8, <2>11 DEF Said
    <3>4. QED
      BY <3>2, <3>3
  <2>14. QED
    BY <2>12, <2>13
<1>5. QED
  BY <1>3, <1>4

\* The terms of DepartureIsReal, by name.
FirstCount == IF NobodyLeft THEN 0 ELSE 1
CostOf(k) == IF k = 0 THEN curve[0] ELSE curve[k] + Work * (k - 1)
TrueLine(k) == CostOf(FirstCount) + (CostOf(FirstCount + 1) - CostOf(FirstCount)) * (k - FirstCount)
TrueLeaves == {k \in (FirstCount + 2)..LastCount : TrueLine(k) > 0 /\ 4 * CostOf(k) > 5 * TrueLine(k)}
TrueReport ==
  IF LastCount - FirstCount + 1 < DefaultMinPoints THEN CouldNotRun
  ELSE IF TrueLeaves = {} THEN NoDeparture
  ELSE DepartsAt(CHOOSE k \in TrueLeaves : \A j \in TrueLeaves : k <= j)

LEMMA RealIsTrueReport ==
  (Undisturbed => ReportDeparture(samples) = TrueReport) => DepartureIsReal
BY DEF DepartureIsReal, Undisturbed, TrueReport, TrueLeaves, TrueLine, CostOf, FirstCount, LastCount,
       NobodyLeft

\* The lowest of a set that is another, moved.
LEMMA LowestMoves ==
  ASSUME NEW A \in SUBSET Nat, NEW base \in Int, NEW B \in SUBSET Int, A # {},
         \A k \in Int : k \in B <=> k - base \in A
  PROVE  /\ B # {}
         /\ (CHOOSE k \in B : \A j \in B : k <= j) = base + (CHOOSE k \in A : \A j \in A : k <= j)
<1>1. PICK m \in A : m = (CHOOSE k \in A : \A j \in A : k <= j) /\ \A j \in A : m <= j
  <2>1. \E k \in A : \A j \in A : k <= j
    BY LowestIsIn
  <2>2. QED
    BY <2>1
<1>2. m \in Int /\ base + m \in Int /\ (base + m) - base = m
  <2>1. m \in Nat
    OBVIOUS
  <2>2. QED
    BY <2>1
<1>3. base + m \in B
  BY <1>1, <1>2
<1>4. ASSUME NEW j \in B PROVE base + m <= j
  <2>1. j \in Int /\ j - base \in A
    OBVIOUS
  <2>2. m <= j - base
    BY <1>1, <2>1
  <2>3. QED
    BY <1>2, <2>1, <2>2
<1>5. ASSUME NEW k \in B, \A j \in B : k <= j PROVE k = base + m
  <2>1. k <= base + m /\ base + m <= k /\ k \in Int
    BY <1>3, <1>4, <1>5
  <2>2. QED
    BY <1>2, <2>1
<1>6. (CHOOSE k \in B : \A j \in B : k <= j) = base + m
  BY <1>3, <1>4, <1>5
<1>7. QED
  BY <1>1, <1>3, <1>6

\* The costs by place say what the costs by count do.
LEMMA SaidIsTrueReport ==
  ASSUME NEW n \in Nat, NEW base \in Int, base = FirstCount - 1, LastCount = base + n,
         NEW cost \in [1..n -> Nat], \A k \in 1..n : cost[k] = CostOf(base + k)
  PROVE  Said(n, base, cost) = TrueReport
<1>1. FirstCount = base + 1 /\ FirstCount \in Int /\ LastCount \in Int
  BY DEF FirstCount
<1>2. LastCount - FirstCount + 1 = n
  BY <1>1
<1>3. CASE n < DefaultMinPoints
  BY <1>2, <1>3 DEF Said, TrueReport
<1>4. CASE ~(n < DefaultMinPoints)
  <2>1. 1 \in 1..n /\ 2 \in 1..n /\ \A k \in 3..n : k \in 1..n
    BY <1>4 DEF DefaultMinPoints
  <2>2. /\ cost[1] = CostOf(FirstCount) /\ cost[2] = CostOf(FirstCount + 1)
        /\ cost[1] \in Int /\ cost[2] \in Int
    <3>1. FirstCount = base + 1 /\ FirstCount + 1 = base + 2
      BY <1>1
    <3>2. QED
      BY <2>1, <3>1
  <2>3. ASSUME NEW k \in 3..n PROVE k \in Leaves(n, cost) <=> base + k \in TrueLeaves
    <3>1. cost[k] = CostOf(base + k) /\ k \in 1..n
      BY <2>1
    <3>2. LineOf(cost, k) = TrueLine(base + k)
      <4>1. k - 1 = (base + k) - FirstCount
        BY <1>1
      <4>2. QED
        BY <2>2, <4>1 DEF LineOf, TrueLine
    <3>3. base + k \in (FirstCount + 2)..LastCount
      BY <1>1
    <3>4. QED
      BY <3>1, <3>2, <3>3 DEF Leaves, TrueLeaves
  <2>4. \A k \in Int : k \in TrueLeaves <=> k - base \in Leaves(n, cost)
    <3> SUFFICES ASSUME NEW k \in Int PROVE k \in TrueLeaves <=> k - base \in Leaves(n, cost)
      OBVIOUS
    <3>1. k - base \in Int /\ base + (k - base) = k
      OBVIOUS
    <3>2. CASE k - base \in 3..n
      BY <2>3, <3>1, <3>2
    <3>3. CASE ~(k - base \in 3..n)
      <4>1. k \notin (FirstCount + 2)..LastCount
        BY <1>1, <3>3
      <4>2. QED
        BY <3>3, <4>1 DEF Leaves, TrueLeaves
    <3>4. QED
      BY <3>2, <3>3
  <2>5. PICK A : A = Leaves(n, cost)
    OBVIOUS
  <2>6. PICK B : B = TrueLeaves
    OBVIOUS
  <2>7. A \in SUBSET Nat /\ B \in SUBSET Int /\ \A k \in Int : k \in B <=> k - base \in A
    <3>1. \A k \in 3..n : k \in Nat
      OBVIOUS
    <3>2. \A k \in (FirstCount + 2)..LastCount : k \in Int
      OBVIOUS
    <3>3. QED
      BY <2>4, <2>5, <2>6, <3>1, <3>2 DEF Leaves, TrueLeaves
  <2>8. CASE A = {}
    <3>1. B = {}
      BY <2>7, <2>8
    <3>2. QED
      BY <1>2, <1>4, <2>5, <2>6, <2>8, <3>1 DEF Said, TrueReport
  <2>9. CASE A # {}
    <3>1. /\ B # {}
          /\ (CHOOSE k \in B : \A j \in B : k <= j) = base + (CHOOSE k \in A : \A j \in A : k <= j)
      BY <2>7, <2>9, LowestMoves
    <3>2. PICK k : k = CHOOSE i \in A : \A j \in A : i <= j
      OBVIOUS
    <3>3. Said(n, base, cost) = DepartsAt(base + k)
      BY <1>4, <2>5, <2>9, <3>2 DEF Said
    <3>4. TrueReport = DepartsAt(CHOOSE i \in B : \A j \in B : i <= j)
      BY <1>2, <1>4, <2>6, <3>1 DEF TrueReport
    <3>5. QED
      BY <3>1, <3>2, <3>3, <3>4
  <2>10. QED
    BY <2>8, <2>9
<1>5. QED
  BY <1>3, <1>4

LEMMA CostsAreNumbers ==
  ASSUME SweepInv, NEW k \in 0..Peak PROVE CostOf(k) \in Nat
<1>1. Peak \in Nat /\ Work \in Nat /\ curve \in [0..Peak -> Nat] /\ 0 \in 0..Peak
  BY SweepAssumption DEF SweepInv, SweepTypeOK
<1>2. curve[0] \in Nat /\ curve[k] \in Nat
  BY <1>1
<1>3. k # 0 => k - 1 \in Nat /\ Work * (k - 1) \in Nat
  BY <1>1
<1>4. QED
  BY <1>2, <1>3 DEF CostOf

LEMMA RealOnTheWayUp ==
  ASSUME SweepInv, EngagedInTurn, ~NobodyLeft, Undisturbed
  PROVE  ReportDeparture(samples) = TrueReport
<1>1. LastCount \in Nat /\ LastCount \in 0..Peak /\ FirstCount = 1 /\ Peak \in Nat
  BY SweepAssumption DEF SweepInv, SweepTypeOK, LastCount, FirstCount
<1>2. PICK kept : kept = Scaling(samples)
  OBVIOUS
<1>3. PICK n \in Nat : n = LastCount
  BY <1>1
<1>4. CleanlyEngaged
  BY DEF CleanlyEngaged, Undisturbed
<1>5. /\ DOMAIN kept = 1..n
      /\ \A k \in 1..n : kept[k].workspaces = k /\ kept[k].goroutines = IdleCost(k)
  BY <1>2, <1>3, <1>4, LenProperties DEF EngagedInTurn, ScaledUp
<1>6. PICK cost : cost = [k \in 1..n |-> CostOf(k)]
  OBVIOUS
<1>b. PICK base \in Int : base = 0
  OBVIOUS
<1>7. \A k \in 1..n : k # 0 /\ k \in 0..Peak /\ k \in Int /\ base + k = k
  BY <1>1, <1>3, <1>b
<1>8. cost \in [1..n -> Nat] /\ \A k \in 1..n : cost[k] = CostOf(base + k) /\ cost[k] = IdleCost(k)
  BY <1>6, <1>7, CostsAreNumbers DEF CostOf, IdleCost
<1>9. PICK points : points = PointsOf(kept)
  OBVIOUS
<1>10. points = [i \in 1..n |-> [workspaces |-> base + i, value |-> cost[i]]]
  BY <1>5, <1>7, <1>8, <1>9 DEF PointsOf
<1>11. Len(points) = n
  <2>1. points \in [1..n -> [workspaces : Int, value : Nat]]
    BY <1>7, <1>8, <1>10
  <2>2. points \in Seq([workspaces : Int, value : Nat]) /\ DOMAIN points = 1..n
    BY <2>1, SeqDef
  <2>3. Len(points) \in Nat /\ 1..Len(points) = 1..n
    BY <2>2, LenProperties
  <2>4. QED
    BY <2>3
<1>12. ByWorkspaces(points) = points
  <2>1. \A i \in 1..n : points[i].workspaces = i
    BY <1>7, <1>10
  <2>2. /\ DOMAIN points = 1..n /\ points = [i \in 1..n |-> points[i]]
        /\ \A i, j \in 1..n : points[i].workspaces \in Int
                              /\ (i < j => points[i].workspaces < points[j].workspaces)
    BY <1>7, <1>10, <2>1
  <2>3. QED
    BY <2>2, InOrder
<1>13. FindDeparture(points) = Said(n, base, cost)
  <2>1. ByCount(points, n, base, cost)
    BY <1>10 DEF ByCount
  <2>2. QED
    BY <1>8, <1>11, <1>12, <2>1, DepartureOfPoints
<1>14. Said(n, base, cost) = TrueReport
  <2>1. base = FirstCount - 1 /\ LastCount = base + n
    BY <1>1, <1>3, <1>b
  <2>2. QED
    BY <1>8, <2>1, SaidIsTrueReport
<1>15. QED
  BY <1>2, <1>9, <1>13, <1>14 DEF ReportDeparture

LEMMA RealAtTheEnd ==
  ASSUME SweepInv, EngagedInTurn, NobodyLeft, Undisturbed
  PROVE  ReportDeparture(samples) = TrueReport
<1>1. Peak \in Nat /\ LastCount = Peak /\ FirstCount = 0
  BY SweepAssumption DEF NobodyLeft, LastCount, FirstCount
<1>2. PICK kept, s : ScaledUp(kept, Peak, CleanlyEngaged) /\ EmptiedOut(kept, s)
  BY DEF EngagedInTurn
<1>3. CleanlyEngaged
  BY DEF CleanlyEngaged, Undisturbed
<1>4. /\ kept \in Seq(Samples) /\ Len(kept) = Peak /\ s \in Samples
      /\ \A k \in 1..Peak : kept[k].workspaces = k /\ kept[k].goroutines = IdleCost(k)
      /\ s.workspaces = 0 /\ s.goroutines = curve[0]
  BY <1>2, <1>3 DEF ScaledUp, EmptiedOut
<1>5. PICK all : all = Append(kept, s)
  OBVIOUS
<1>6. /\ DOMAIN all = 1..Peak + 1 /\ all[Peak + 1] = s
      /\ \A k \in 1..Peak : all[k] = kept[k]
  BY <1>1, <1>4, <1>5, AppendProperties, LenProperties
<1>7. PICK points : points = PointsOf(all)
  OBVIOUS
<1>8. /\ DOMAIN points = 1..Peak + 1
      /\ \A k \in 1..Peak : points[k] = [workspaces |-> k, value |-> IdleCost(k)]
      /\ points[Peak + 1] = [workspaces |-> 0, value |-> curve[0]]
      /\ points = [k \in 1..Peak + 1 |-> points[k]]
  <2>1. points = [i \in 1..Peak + 1 |-> [workspaces |-> all[i].workspaces, value |-> all[i].goroutines]]
    BY <1>6, <1>7 DEF PointsOf
  <2>2. \A k \in 1..Peak : k \in 1..Peak + 1
    BY <1>1
  <2>3. Peak + 1 \in 1..Peak + 1
    BY <1>1
  <2>4. QED
    BY <1>4, <1>6, <2>1, <2>2, <2>3
<1>9. PICK n \in Nat : n = Peak + 1
  BY <1>1
<1>b. PICK base \in Int : base = -1
  OBVIOUS
<1>10. PICK cost : cost = [k \in 1..n |-> CostOf(base + k)]
  OBVIOUS
<1>11. cost \in [1..n -> Nat] /\ \A k \in 1..n : cost[k] = CostOf(base + k)
  <2>1. \A k \in 1..n : base + k \in 0..Peak
    BY <1>1, <1>9, <1>b
  <2>2. QED
    BY <1>10, <2>1, CostsAreNumbers
<1>12. PICK sorted : sorted = [m \in 1..n |-> IF m = 1 THEN points[Peak + 1] ELSE points[m - 1]]
  OBVIOUS
<1>13. ByWorkspaces(points) = sorted
  <2>0. points[Peak + 1].workspaces = 0
    BY <1>8
  <2>1. ASSUME NEW k \in 1..Peak PROVE points[k].workspaces = k
    <3>1. points[k] = [workspaces |-> k, value |-> IdleCost(k)]
      BY <1>8
    <3>2. QED
      BY <3>1
  <2>2. QED
    BY <1>1, <1>8, <1>9, <1>12, <2>0, <2>1, LastComesFirst
<1>14. sorted = [m \in 1..n |-> [workspaces |-> base + m, value |-> cost[m]]]
  <2>1. ASSUME NEW m \in 1..n
        PROVE  (IF m = 1 THEN points[Peak + 1] ELSE points[m - 1]) = [workspaces |-> base + m, value |-> cost[m]]
    <3>1. CASE m = 1
      <4>1. cost[m] = CostOf(0) /\ base + m = 0
        BY <1>11, <1>b, <3>1
      <4>2. QED
        BY <1>8, <3>1, <4>1 DEF CostOf
    <3>2. CASE m # 1
      <4>1. m - 1 \in 1..Peak /\ base + m = m - 1 /\ m - 1 # 0
        BY <1>1, <1>9, <1>b, <3>2
      <4>2. points[m - 1] = [workspaces |-> m - 1, value |-> IdleCost(m - 1)]
        BY <1>8, <4>1
      <4>3. cost[m] = IdleCost(m - 1)
        BY <1>11, <4>1 DEF CostOf, IdleCost
      <4>4. QED
        BY <3>2, <4>1, <4>2, <4>3
    <3>3. QED
      BY <3>1, <3>2
  <2>2. QED
    BY <1>12, <2>1
<1>15. Len(points) = n
  <2>1. PICK S : S = {points[k] : k \in 1..n}
    OBVIOUS
  <2>2. points \in [1..n -> S]
    BY <1>8, <1>9, <2>1
  <2>3. points \in Seq(S) /\ DOMAIN points = 1..n
    BY <2>2, SeqDef
  <2>4. Len(points) \in Nat /\ 1..Len(points) = 1..n
    BY <2>3, LenProperties
  <2>5. QED
    BY <2>4
<1>16. FindDeparture(points) = Said(n, base, cost)
  <2>1. ByCount(sorted, n, base, cost)
    BY <1>14 DEF ByCount
  <2>2. QED
    BY <1>11, <1>13, <1>15, <2>1, DepartureOfPoints
<1>17. Said(n, base, cost) = TrueReport
  <2>1. base = FirstCount - 1 /\ LastCount = base + n
    BY <1>1, <1>9, <1>b
  <2>2. QED
    BY <1>11, <2>1, SaidIsTrueReport
<1>18. ReportDeparture(samples) = FindDeparture(points)
  BY <1>2, <1>5, <1>7 DEF ReportDeparture, EmptiedOut
<1>19. QED
  BY <1>16, <1>17, <1>18

\* Whatever serving costs, as long as the samples of engagements, and that of
\* nobody left, caught nothing, a departure is claimed at every step of the
\* sweep exactly where the cost leaves the line through its two smallest counts
\* (report.go:428-439, departure.go:126-178).
THEOREM DepartureIsAlwaysReal == SweepSpec => []DepartureIsReal
<1>1. SweepInv /\ EngagedInTurn /\ [SweepNext]_sweepVars => EngagedInTurn'
  <2> SUFFICES ASSUME SweepInv, EngagedInTurn, [SweepNext]_sweepVars PROVE EngagedInTurn'
    OBVIOUS
  <2>1. CASE UNCHANGED sweepVars
    <3>1. /\ step' = step /\ samples' = samples /\ serving' = serving /\ curve' = curve
          /\ muddied' = muddied
      BY <2>1 DEF sweepVars
    <3>2. /\ CleanlyEngaged' = CleanlyEngaged /\ Scaling(samples)' = Scaling(samples)
          /\ Undisturbed' = Undisturbed /\ NobodyLeft' = NobodyLeft /\ LastCount' = LastCount
      BY <3>1 DEF CleanlyEngaged, Undisturbed, Of, Clean, NobodyLeft, LastCount
    <3>3. /\ \A kept, upTo : ScaledUp(kept, upTo, CleanlyEngaged)' = ScaledUp(kept, upTo, CleanlyEngaged)
          /\ \A kept, s : EmptiedOut(kept, s)' = EmptiedOut(kept, s)
      BY <3>1, <3>2 DEF ScaledUp, IdleCost, EmptiedOut
    <3>4. QED
      BY <3>2, <3>3 DEF EngagedInTurn
  <2>2. QED
    BY <2>1, BaselineKeepsTurns, EngageKeepsTurns, ActivateKeepsTurns, DepartKeepsTurns DEF SweepNext
<1>2. SweepInv /\ EngagedInTurn => DepartureIsReal
  BY RealOnTheWayUp, RealAtTheEnd, RealIsTrueReport
<1>3. QED
  BY <1>1, <1>2, InitEngaged, SweepInvariant, PTL DEF SweepSpec

-----------------------------------------------------------------------------
(* The slope and the fit, for any points: what sums of deviations and of       *)
(* residuals come to.                                                          *)

IntegerOn(f, S) == \A x \in S : f[x] \in Int

LEMMA SumIsInt ==
  ASSUME NEW f, NEW S, IsFiniteSet(S), IntegerOn(f, S)
  PROVE  SumFunctionOnSet(f, S) \in Int
<1> DEFINE G == {s \in SUBSET S : SumFunctionOnSet(f, s) \in Int}
<1>1. ASSUME NEW s \in SUBSET S, \A x \in s : s \ {x} \in G
      PROVE  s \in G
  <2>1. CASE s = {}
    BY <2>1, SumOfNone
  <2>2. CASE s # {}
    <3>1. FirstOf(s) \in s /\ IsFiniteSet(s)
      BY <2>2, FirstIsIn, FS_Subset
    <3>2. f[FirstOf(s)] \in Int /\ SumFunctionOnSet(f, s \ {FirstOf(s)}) \in Int
      BY <1>1, <3>1 DEF IntegerOn
    <3>3. QED
      BY <2>2, <3>1, <3>2, SumOfSome
  <2>3. QED
    BY <2>1, <2>2
<1>2. QED
  <2> HIDE DEF G
  <2>1. \A s \in SUBSET S : s \in G
    BY <1>1, SubsetInduction, Zenon
  <2>2. QED
    BY <2>1 DEF G

LEMMA Regroup ==
  ASSUME NEW a \in Int, NEW b \in Int, NEW u \in Int, NEW v \in Int, NEW p \in Int, NEW q \in Int
  PROVE  (a * u + b * v) + (a * p + b * q) = a * (u + p) + b * (v + q)
OBVIOUS

\* h is a times f and b times g.
Combines(h, f, g, a, b, S) == \A x \in S : h[x] = a * f[x] + b * g[x]

\* A sum is linear in what it sums up.
LEMMA SumIsLinear ==
  ASSUME NEW f, NEW g, NEW h, NEW S, IsFiniteSet(S), NEW a \in Int, NEW b \in Int,
         IntegerOn(f, S), IntegerOn(g, S), Combines(h, f, g, a, b, S)
  PROVE  SumFunctionOnSet(h, S) = a * SumFunctionOnSet(f, S) + b * SumFunctionOnSet(g, S)
<1> DEFINE G == {s \in SUBSET S : SumFunctionOnSet(h, s)
                                    = a * SumFunctionOnSet(f, s) + b * SumFunctionOnSet(g, s)}
<1>1. ASSUME NEW s \in SUBSET S, \A x \in s : s \ {x} \in G
      PROVE  s \in G
  <2>1. CASE s = {}
    BY <2>1, SumOfNone
  <2>2. CASE s # {}
    <3>1. PICK c : c = FirstOf(s)
      OBVIOUS
    <3>2. c \in s /\ IsFiniteSet(s) /\ IsFiniteSet(s \ {c})
      BY <2>2, <3>1, FirstIsIn, FS_Subset
    <3>3. PICK u, v, p, q : /\ u = f[c] /\ p = SumFunctionOnSet(f, s \ {c})
                            /\ v = g[c] /\ q = SumFunctionOnSet(g, s \ {c})
      OBVIOUS
    <3>4. u \in Int /\ v \in Int /\ p \in Int /\ q \in Int
      <4>1. IntegerOn(f, s \ {c}) /\ IntegerOn(g, s \ {c})
        BY DEF IntegerOn
      <4>2. QED
        BY <3>2, <3>3, <4>1, SumIsInt DEF IntegerOn
    <3>5. SumFunctionOnSet(h, s \ {c}) = a * p + b * q /\ h[c] = a * u + b * v
      BY <1>1, <3>2, <3>3 DEF Combines
    <3>6. SumFunctionOnSet(h, s) = (a * u + b * v) + (a * p + b * q)
      BY <2>2, <3>1, <3>2, <3>5, SumOfSome
    <3>7. SumFunctionOnSet(f, s) = u + p /\ SumFunctionOnSet(g, s) = v + q
      BY <2>2, <3>1, <3>2, <3>3, SumOfSome
    <3>8. QED
      BY <3>4, <3>6, <3>7, Regroup
  <2>3. QED
    BY <2>1, <2>2
<1>2. QED
  <2> HIDE DEF G
  <2>1. \A s \in SUBSET S : s \in G
    BY <1>1, SubsetInduction, Zenon
  <2>2. QED
    BY <2>1 DEF G

Ones(S) == [x \in S |-> 1]

LEMMA SumOfOnes ==
  ASSUME NEW S, IsFiniteSet(S)
  PROVE  SumFunctionOnSet(Ones(S), S) = Cardinality(S)
<1> DEFINE G == {s \in SUBSET S : SumFunctionOnSet(Ones(S), s) = Cardinality(s)}
<1>1. ASSUME NEW s \in SUBSET S, \A x \in s : s \ {x} \in G
      PROVE  s \in G
  <2>1. CASE s = {}
    BY <2>1, SumOfNone, FS_EmptySet
  <2>2. CASE s # {}
    <3>1. PICK c : c = FirstOf(s)
      OBVIOUS
    <3>2. c \in s /\ IsFiniteSet(s)
      BY <2>2, <3>1, FirstIsIn, FS_Subset
    <3>3. SumFunctionOnSet(Ones(S), s) = 1 + Cardinality(s \ {c})
      <4>1. SumFunctionOnSet(Ones(S), s) = Ones(S)[c] + SumFunctionOnSet(Ones(S), s \ {c})
        BY <2>2, <3>1, <3>2, SumOfSome
      <4>2. Ones(S)[c] = 1
        BY <3>2 DEF Ones
      <4>3. SumFunctionOnSet(Ones(S), s \ {c}) = Cardinality(s \ {c})
        BY <1>1, <3>2
      <4>4. QED
        BY <4>1, <4>2, <4>3
    <3>4. Cardinality(s \ {c}) = Cardinality(s) - 1 /\ Cardinality(s) \in Nat
      BY <3>2, FS_RemoveElement, FS_CardinalityType
    <3>5. QED
      BY <3>3, <3>4
  <2>3. QED
    BY <2>1, <2>2
<1>2. QED
  <2> HIDE DEF G
  <2>1. \A s \in SUBSET S : s \in G
    BY <1>1, SubsetInduction, Zenon
  <2>2. QED
    BY <2>1 DEF G

-----------------------------------------------------------------------------
(* Sums of products and of deviations. *)

Product(f, g, S) == [x \in S |-> f[x] * g[x]]
Dot(f, g, S) == SumFunctionOnSet(Product(f, g, S), S)
Deviation(f, S) == [x \in S |-> Cardinality(S) * f[x] - SumFunctionOnSet(f, S)]

LEMMA ProductIsInt ==
  ASSUME NEW f, NEW g, NEW S, IntegerOn(f, S), IntegerOn(g, S)
  PROVE  IntegerOn(Product(f, g, S), S)
BY DEF IntegerOn, Product

LEMMA DotIsInt ==
  ASSUME NEW f, NEW g, NEW S, IsFiniteSet(S), IntegerOn(f, S), IntegerOn(g, S)
  PROVE  Dot(f, g, S) \in Int
BY ProductIsInt, SumIsInt DEF Dot

LEMMA DotCommutes ==
  ASSUME NEW f, NEW g, NEW S, IntegerOn(f, S), IntegerOn(g, S)
  PROVE  Dot(f, g, S) = Dot(g, f, S)
<1>1. \A x \in S : f[x] * g[x] = g[x] * f[x]
  BY DEF IntegerOn
<1>2. Product(f, g, S) = Product(g, f, S)
  BY <1>1 DEF Product
<1>3. QED
  BY <1>2 DEF Dot

LEMMA Spread ==
  ASSUME NEW a \in Int, NEW b \in Int, NEW u \in Int, NEW v \in Int, NEW d \in Int
  PROVE  (a * u + b * v) * d = a * (u * d) + b * (v * d)
OBVIOUS

LEMMA DotIsLinear ==
  ASSUME NEW f, NEW g, NEW h, NEW d, NEW S, IsFiniteSet(S), NEW a \in Int, NEW b \in Int,
         IntegerOn(f, S), IntegerOn(g, S), IntegerOn(d, S), Combines(h, f, g, a, b, S)
  PROVE  Dot(h, d, S) = a * Dot(f, d, S) + b * Dot(g, d, S)
<1>1. Combines(Product(h, d, S), Product(f, d, S), Product(g, d, S), a, b, S)
  <2>1. ASSUME NEW x \in S
        PROVE  h[x] * d[x] = a * (f[x] * d[x]) + b * (g[x] * d[x])
    <3>1. f[x] \in Int /\ g[x] \in Int /\ d[x] \in Int /\ h[x] = a * f[x] + b * g[x]
      BY DEF IntegerOn, Combines
    <3>2. QED
      BY <3>1, Spread
  <2>2. QED
    BY <2>1 DEF Combines, Product
<1>2. IntegerOn(Product(f, d, S), S) /\ IntegerOn(Product(g, d, S), S)
  BY ProductIsInt
<1>3. QED
  BY <1>1, <1>2, SumIsLinear DEF Dot

LEMMA DeviationIsInt ==
  ASSUME NEW f, NEW S, IsFiniteSet(S), IntegerOn(f, S)
  PROVE  /\ IntegerOn(Deviation(f, S), S)
         /\ Combines(Deviation(f, S), f, Ones(S), Cardinality(S), -SumFunctionOnSet(f, S), S)
<1>1. PICK n : n = Cardinality(S)
  OBVIOUS
<1>2. PICK t : t = SumFunctionOnSet(f, S)
  OBVIOUS
<1>3. n \in Nat /\ t \in Int
  BY <1>1, <1>2, FS_CardinalityType, SumIsInt
<1>4. ASSUME NEW x \in S
      PROVE  n * f[x] - t \in Int /\ n * f[x] - t = n * f[x] + (-t) * Ones(S)[x]
  <2>1. f[x] \in Int /\ Ones(S)[x] = 1
    BY DEF IntegerOn, Ones
  <2>2. PICK v \in Int : v = n * f[x]
    BY <1>3, <2>1
  <2>3. QED
    BY <1>3, <2>1, <2>2
<1>5. Deviation(f, S) = [x \in S |-> n * f[x] - t]
  BY <1>1, <1>2 DEF Deviation
<1>6. QED
  BY <1>1, <1>2, <1>4, <1>5 DEF IntegerOn, Combines

\* Deviations cancel out.
LEMMA DeviationsCancel ==
  ASSUME NEW f, NEW S, IsFiniteSet(S), IntegerOn(f, S)
  PROVE  SumFunctionOnSet(Deviation(f, S), S) = 0
<1>1. PICK n : n = Cardinality(S)
  OBVIOUS
<1>2. PICK t : t = SumFunctionOnSet(f, S)
  OBVIOUS
<1>3. n \in Nat /\ t \in Int /\ -t \in Int
  BY <1>1, <1>2, FS_CardinalityType, SumIsInt
<1>4. IntegerOn(Ones(S), S)
  BY DEF IntegerOn, Ones
<1>5. Combines(Deviation(f, S), f, Ones(S), n, -t, S)
  BY <1>1, <1>2, DeviationIsInt
<1>6. SumFunctionOnSet(Deviation(f, S), S) = n * t + (-t) * n
  BY <1>1, <1>2, <1>3, <1>4, <1>5, SumIsLinear, SumOfOnes
<1>7. n * t + (-t) * n = 0
  BY <1>3
<1>8. QED
  BY <1>6, <1>7

\* The deviations of two quantities, multiplied, from their plain sums.
LEMMA DeviationsMultiply ==
  ASSUME NEW f, NEW g, NEW S, IsFiniteSet(S), IntegerOn(f, S), IntegerOn(g, S)
  PROVE  Dot(Deviation(f, S), Deviation(g, S), S)
           = Cardinality(S) * (Cardinality(S) * Dot(f, g, S)
                                 - SumFunctionOnSet(f, S) * SumFunctionOnSet(g, S))
<1>1. PICK n, p, q, w, d, e :
        /\ n = Cardinality(S) /\ w = Dot(f, g, S)
        /\ p = SumFunctionOnSet(f, S) /\ q = SumFunctionOnSet(g, S)
        /\ d = Deviation(f, S) /\ e = Deviation(g, S)
  OBVIOUS
<1>2. /\ n \in Nat /\ n \in Int /\ p \in Int /\ q \in Int /\ w \in Int /\ -p \in Int /\ -q \in Int
      /\ IntegerOn(d, S) /\ IntegerOn(e, S) /\ IntegerOn(Ones(S), S)
  <2>1. IntegerOn(d, S) /\ IntegerOn(e, S) /\ IntegerOn(Ones(S), S)
    <3>1. IntegerOn(Deviation(f, S), S) /\ IntegerOn(Deviation(g, S), S)
      BY DeviationIsInt
    <3>2. IntegerOn(Ones(S), S)
      BY DEF IntegerOn, Ones
    <3>3. QED
      BY <1>1, <3>1, <3>2
  <2>2. n \in Nat /\ p \in Int /\ q \in Int /\ w \in Int
    BY <1>1, FS_CardinalityType, SumIsInt, DotIsInt
  <2>3. QED
    BY <2>1, <2>2
<1>3. Combines(d, f, Ones(S), n, -p, S) /\ Combines(e, g, Ones(S), n, -q, S)
  BY <1>1, DeviationIsInt
\* A product with ones is a sum.
<1>4. ASSUME NEW k, IntegerOn(k, S) PROVE Dot(Ones(S), k, S) = SumFunctionOnSet(k, S)
  <2>1. SameOn(Product(Ones(S), k, S), k, S)
    BY <1>4 DEF SameOn, Product, Ones, IntegerOn
  <2>2. QED
    BY <2>1, SumAgrees DEF Dot
<1>5. Dot(d, g, S) = n * w + (-p) * q
  <2>1. Dot(d, g, S) = n * Dot(f, g, S) + (-p) * Dot(Ones(S), g, S)
    BY <1>2, <1>3, DotIsLinear
  <2>2. QED
    BY <1>1, <1>4, <2>1
<1>6. Dot(e, d, S) = n * Dot(g, d, S) + (-q) * 0
  <2>1. Dot(e, d, S) = n * Dot(g, d, S) + (-q) * Dot(Ones(S), d, S)
    BY <1>2, <1>3, DotIsLinear
  <2>2. Dot(Ones(S), d, S) = 0
    BY <1>1, <1>2, <1>4, DeviationsCancel
  <2>3. QED
    BY <2>1, <2>2
<1>7. Dot(d, e, S) = Dot(e, d, S) /\ Dot(g, d, S) = Dot(d, g, S)
  BY <1>2, DotCommutes
<1>8. Dot(d, e, S) = n * (n * w + (-p) * q) + (-q) * 0
  BY <1>5, <1>6, <1>7
<1>9. n * (n * w + (-p) * q) + (-q) * 0 = n * (n * w - p * q)
  BY <1>2
<1>10. QED
  BY <1>1, <1>8, <1>9

\* What is left of e when it is predicted from d.
Residual(d, e, S) ==
  [x \in S |-> Dot(d, d, S) * e[x] - Dot(d, e, S) * d[x]]

LEMMA ResidualsMultiply ==
  ASSUME NEW d, NEW e, NEW S, IsFiniteSet(S), IntegerOn(d, S), IntegerOn(e, S)
  PROVE  Dot(Residual(d, e, S), Residual(d, e, S), S)
           = Dot(d, d, S) * (Dot(d, d, S) * Dot(e, e, S) - Dot(d, e, S) * Dot(d, e, S))
<1>1. PICK a, b, c, r :
        a = Dot(d, d, S) /\ b = Dot(d, e, S) /\ c = Dot(e, e, S) /\ r = Residual(d, e, S)
  OBVIOUS
<1>2. a \in Int /\ b \in Int /\ c \in Int /\ -b \in Int
  BY <1>1, DotIsInt
<1>3. IntegerOn(r, S) /\ Combines(r, e, d, a, -b, S)
  <2>1. ASSUME NEW x \in S
        PROVE  a * e[x] - b * d[x] \in Int /\ a * e[x] - b * d[x] = a * e[x] + (-b) * d[x]
    <3>1. e[x] \in Int /\ d[x] \in Int
      BY DEF IntegerOn
    <3>2. QED
      BY <1>2, <3>1
  <2>2. r = [x \in S |-> a * e[x] - b * d[x]]
    BY <1>1 DEF Residual
  <2>3. QED
    BY <2>1, <2>2 DEF IntegerOn, Combines
<1>4. Dot(r, d, S) = a * b + (-b) * a
  <2>1. Dot(r, d, S) = a * Dot(e, d, S) + (-b) * Dot(d, d, S)
    BY <1>2, <1>3, DotIsLinear
  <2>2. QED
    BY <1>1, <2>1, DotCommutes
<1>5. Dot(r, e, S) = a * c + (-b) * b
  <2>1. Dot(r, e, S) = a * Dot(e, e, S) + (-b) * Dot(d, e, S)
    BY <1>2, <1>3, DotIsLinear
  <2>2. QED
    BY <1>1, <2>1
<1>6. Dot(r, r, S) = a * (a * c + (-b) * b) + (-b) * (a * b + (-b) * a)
  <2>1. Dot(r, r, S) = a * Dot(e, r, S) + (-b) * Dot(d, r, S)
    BY <1>2, <1>3, DotIsLinear
  <2>2. Dot(e, r, S) = Dot(r, e, S) /\ Dot(d, r, S) = Dot(r, d, S)
    BY <1>3, DotCommutes
  <2>3. QED
    BY <1>4, <1>5, <2>1, <2>2
<1>7. a * (a * c + (-b) * b) + (-b) * (a * b + (-b) * a) = a * (a * c - b * b)
  BY <1>2
<1>8. QED
  BY <1>1, <1>6, <1>7

LEMMA SquareIsNat == ASSUME NEW a \in Int PROVE a * a \in Nat
OBVIOUS

LEMMA DotIsNat ==
  ASSUME NEW f, NEW S, IsFiniteSet(S), IntegerOn(f, S)
  PROVE  Dot(f, f, S) \in Nat
<1>1. NaturalOn(Product(f, f, S), S)
  <2>1. ASSUME NEW x \in S PROVE f[x] * f[x] \in Nat
    BY SquareIsNat DEF IntegerOn
  <2>2. QED
    BY <2>1 DEF NaturalOn, Product
<1>2. QED
  BY <1>1, SumIsNat DEF Dot

-----------------------------------------------------------------------------
(* The sums that the fits work with. *)

Points == Seq([workspaces : Int, value : Int])
Xs(points) == [i \in DOMAIN points |-> X(points[i])]
Ys(points) == [i \in DOMAIN points |-> Y(points[i])]
Dx(points) == Deviation(Xs(points), DOMAIN points)
Dy(points) == Deviation(Ys(points), DOMAIN points)

\* The two quantities of points are integers, as many as there are points.
Measured(points) ==
  /\ IsFiniteSet(DOMAIN points) /\ Len(points) \in Nat
  /\ Cardinality(DOMAIN points) = Len(points)
  /\ IntegerOn(Xs(points), DOMAIN points) /\ IntegerOn(Ys(points), DOMAIN points)
  /\ IntegerOn(Dx(points), DOMAIN points) /\ IntegerOn(Dy(points), DOMAIN points)
  /\ points # <<>> => Len(points) > 0

LEMMA PointsAreMeasured == ASSUME NEW points \in Points PROVE Measured(points)
<1>1. /\ DOMAIN points = 1..Len(points) /\ Len(points) \in Nat
      /\ points # <<>> => Len(points) > 0
  BY LenProperties, EmptySeq DEF Points
<1>2. IsFiniteSet(DOMAIN points) /\ Cardinality(DOMAIN points) = Len(points)
  <2>1. PICK n \in Nat : n = Len(points)
    BY <1>1
  <2>2. IsFiniteSet(1..n) /\ Cardinality(1..n) = n
    BY FS_Interval
  <2>3. QED
    BY <1>1, <2>1, <2>2
<1>3. IntegerOn(Xs(points), DOMAIN points) /\ IntegerOn(Ys(points), DOMAIN points)
  <2>1. ASSUME NEW i \in DOMAIN points
        PROVE  points[i].workspaces \in Int /\ points[i].value \in Int
    <3>1. points[i] \in [workspaces : Int, value : Int]
      BY <1>1, ElementOfSeq DEF Points
    <3>2. QED
      BY <3>1
  <2>2. QED
    BY <2>1 DEF IntegerOn, Xs, Ys, X, Y
<1>4. IntegerOn(Dx(points), DOMAIN points) /\ IntegerOn(Dy(points), DOMAIN points)
  BY <1>2, <1>3, DeviationIsInt DEF Dx, Dy
<1>5. QED
  BY <1>1, <1>2, <1>3, <1>4 DEF Measured

\* The totals of module Scale, as sums over the places.
TotalsAre(points, S) ==
  /\ Total(X, points) = SumFunctionOnSet(Xs(points), S)
  /\ Total(Y, points) = SumFunctionOnSet(Ys(points), S)
  /\ Total(XX, points) = Dot(Xs(points), Xs(points), S)
  /\ Total(XY, points) = Dot(Xs(points), Ys(points), S)

LEMMA PlainTotals == ASSUME NEW points PROVE TotalsAre(points, DOMAIN points)
<1>1. /\ Total(X, points) = SumFunctionOnSet(Xs(points), DOMAIN points)
      /\ Total(Y, points) = SumFunctionOnSet(Ys(points), DOMAIN points)
  BY DEF Total, SumFunction, Xs, Ys
<1>2. /\ [i \in DOMAIN points |-> XX(points[i])] = Product(Xs(points), Xs(points), DOMAIN points)
      /\ [i \in DOMAIN points |-> XY(points[i])] = Product(Xs(points), Ys(points), DOMAIN points)
  BY DEF Xs, Ys, X, Y, XX, XY, Product
<1>3. /\ Total(XX, points) = SumFunctionOnSet([i \in DOMAIN points |-> XX(points[i])], DOMAIN points)
      /\ Total(XY, points) = SumFunctionOnSet([i \in DOMAIN points |-> XY(points[i])], DOMAIN points)
  BY DEF Total, SumFunction
<1>4. QED
  BY <1>1, <1>2, <1>3 DEF TotalsAre, Dot

DeviationsAre(points, S) ==
  /\ Sxx(points) = Dot(Dx(points), Dx(points), S)
  /\ Sxy(points) = Dot(Dx(points), Dy(points), S)
  /\ Syy(points) = Dot(Dy(points), Dy(points), S)

LEMMA DeviationTotals ==
  ASSUME NEW points, Measured(points) PROVE DeviationsAre(points, DOMAIN points)
<1>1. \A i \in DOMAIN points : /\ DevX(points[i], points) = Dx(points)[i]
                               /\ DevY(points[i], points) = Dy(points)[i]
  BY PlainTotals DEF DevX, DevY, Dx, Dy, Deviation, Xs, Ys, X, Y, Measured, TotalsAre
<1>2. /\ [i \in DOMAIN points |-> DevX(points[i], points) * DevX(points[i], points)]
           = Product(Dx(points), Dx(points), DOMAIN points)
      /\ [i \in DOMAIN points |-> DevX(points[i], points) * DevY(points[i], points)]
           = Product(Dx(points), Dy(points), DOMAIN points)
      /\ [i \in DOMAIN points |-> DevY(points[i], points) * DevY(points[i], points)]
           = Product(Dy(points), Dy(points), DOMAIN points)
  BY <1>1 DEF Product
<1>3. /\ Sxx(points) = SumFunctionOnSet(
           [i \in DOMAIN points |-> DevX(points[i], points) * DevX(points[i], points)], DOMAIN points)
      /\ Sxy(points) = SumFunctionOnSet(
           [i \in DOMAIN points |-> DevX(points[i], points) * DevY(points[i], points)], DOMAIN points)
      /\ Syy(points) = SumFunctionOnSet(
           [i \in DOMAIN points |-> DevY(points[i], points) * DevY(points[i], points)], DOMAIN points)
  BY DEF Sxx, Sxy, Syy, Total, SumFunction
<1>4. QED
  BY <1>2, <1>3 DEF DeviationsAre, Dot

\* What the fits rest on: the sums of deviations are n times what the slope of
\* the instrument divides, and integers; squares are not negative.
SumsRelate(points, n, num, den) ==
  /\ num = n * Total(XY, points) - Total(X, points) * Total(Y, points)
  /\ den = n * Total(XX, points) - Total(X, points) * Total(X, points)
  /\ Sxy(points) = n * num /\ Sxx(points) = n * den
  /\ num \in Int /\ den \in Int /\ Sxx(points) \in Nat /\ Sxy(points) \in Int /\ Syy(points) \in Nat
  /\ Total(X, points) \in Int /\ Total(Y, points) \in Int

LEMMA SumsOfPoints ==
  ASSUME NEW points, Measured(points)
  PROVE  \E num, den : SumsRelate(points, Len(points), num, den)
<1>1. PICK S, n, x, y : S = DOMAIN points /\ n = Len(points) /\ x = Xs(points) /\ y = Ys(points)
  OBVIOUS
<1>2. /\ IsFiniteSet(S) /\ Cardinality(S) = n /\ n \in Nat
      /\ IntegerOn(x, S) /\ IntegerOn(y, S)
      /\ IntegerOn(Deviation(x, S), S) /\ IntegerOn(Deviation(y, S), S)
  BY <1>1 DEF Measured, Dx, Dy
<1>3. PICK p, q, pp, pq : /\ p = SumFunctionOnSet(x, S) /\ q = SumFunctionOnSet(y, S)
                          /\ pp = Dot(x, x, S) /\ pq = Dot(x, y, S)
  OBVIOUS
<1>4. p \in Int /\ q \in Int /\ pp \in Int /\ pq \in Int
  BY <1>2, <1>3, SumIsInt, DotIsInt
<1>5. /\ Total(X, points) = p /\ Total(Y, points) = q
      /\ Total(XX, points) = pp /\ Total(XY, points) = pq
  BY <1>1, <1>3, PlainTotals DEF TotalsAre
<1>6. PICK num, den : num = n * pq - p * q /\ den = n * pp - p * p
  OBVIOUS
<1>7. num \in Int /\ den \in Int
  BY <1>2, <1>4, <1>6
<1>8. DeviationsAre(points, S)
  BY <1>1, DeviationTotals
<1>9. Sxy(points) = n * num /\ Sxx(points) = n * den
  <2>1. /\ Dot(Deviation(x, S), Deviation(y, S), S) = n * (n * pq - p * q)
        /\ Dot(Deviation(x, S), Deviation(x, S), S) = n * (n * pp - p * p)
    BY <1>2, <1>3, DeviationsMultiply
  <2>2. QED
    BY <1>1, <1>6, <1>8, <2>1 DEF DeviationsAre, Dx, Dy
<1>10. Sxx(points) \in Nat /\ Sxy(points) \in Int /\ Syy(points) \in Nat
  BY <1>1, <1>2, <1>8, DotIsNat, DotIsInt DEF DeviationsAre, Dx, Dy
<1>11. SumsRelate(points, n, num, den)
  BY <1>4, <1>5, <1>6, <1>7, <1>9, <1>10 DEF SumsRelate
<1>12. QED
  BY <1>1, <1>11

\* A line through points: its height is a, and it rises by b.
OnOneLine(points, a, b) ==
  \A i \in DOMAIN points : points[i].value = a + b * points[i].workspaces

\* The fitted line before the ratio is brought to a sign.
LEMMA OnLineIs ==
  ASSUME NEW points, NEW w \in Int, Len(points) \in Nat, Sxx(points) \in Nat, Sxy(points) \in Int,
         Total(X, points) \in Int, Total(Y, points) \in Int
  PROVE  OnLine(points, w)
           = [num |-> Total(Y, points) * Sxx(points)
                        + Sxy(points) * (Len(points) * w - Total(X, points)),
              den |-> Len(points) * Sxx(points)]
<1>1. PICK n, sxx : n = Len(points) /\ sxx = Sxx(points)
  OBVIOUS
<1>2. ~(n * sxx < 0)
  BY <1>1
<1>3. QED
  BY <1>1, <1>2 DEF OnLine, Ratio

\* The slope of the instrument is that of the model, and R squared is between
\* 0 and 1.
FitsAgree(points) ==
  \A s \in PerWorkspace(points), c \in LeastSquares(points) :
    /\ Same(s, c.perWorkspace)
    /\ ~Less(c.rSquared, Ratio(0, 1)) /\ ~Less(Ratio(1, 1), c.rSquared)

LEMMA SlopesAgree ==
  ASSUME NEW points, Measured(points), NEW s \in PerWorkspace(points),
         NEW c \in LeastSquares(points)
  PROVE  Same(s, c.perWorkspace)
<1>1. PICK num, den : SumsRelate(points, Len(points), num, den)
  BY SumsOfPoints
<1>2. PICK n, sxx, sxy : n = Len(points) /\ sxx = Sxx(points) /\ sxy = Sxy(points)
  OBVIOUS
<1>3. /\ n \in Nat /\ num \in Int /\ den \in Int /\ sxx \in Nat /\ sxy \in Int
      /\ sxx = n * den /\ sxy = n * num
  BY <1>1, <1>2 DEF SumsRelate, Measured
<1>4. den # 0 /\ n >= 2 /\ s = Ratio(num, den)
  BY <1>1, <1>2, <1>3 DEF PerWorkspace, SumsRelate
<1>5. c.perWorkspace = Ratio(sxy, sxx)
  <2>1. c = Coefficients(points)
    BY DEF LeastSquares
  <2>2. Coefficients(points).perWorkspace = Ratio(Sxy(points), Sxx(points))
    BY DEF Coefficients
  <2>3. QED
    BY <1>2, <2>1, <2>2
<1>6. den > 0
  <2>1. den < 0 => n * den < 0
    BY <1>3, <1>4
  <2>2. QED
    BY <1>3, <1>4, <2>1
<1>7. s = [num |-> num, den |-> den] /\ c.perWorkspace = [num |-> sxy, den |-> sxx]
  BY <1>3, <1>4, <1>5, <1>6 DEF Ratio
<1>8. num * (n * den) = (n * num) * den
  BY <1>3
<1>9. QED
  BY <1>3, <1>7, <1>8 DEF Same

LEMMA ResidualTotal ==
  ASSUME NEW points, Measured(points)
  PROVE  LET Resid(p) == Len(points) * Sxx(points) * p.value - OnLine(points, p.workspaces).num
         IN  Total(LAMBDA p : Resid(p) * Resid(p), points)
               = Dot(Residual(Dx(points), Dy(points), DOMAIN points),
                     Residual(Dx(points), Dy(points), DOMAIN points), DOMAIN points)
<1> DEFINE Resid(p) == Len(points) * Sxx(points) * p.value - OnLine(points, p.workspaces).num
<1>1. PICK num, den : SumsRelate(points, Len(points), num, den)
  BY SumsOfPoints
<1>2. PICK n, sxx, sxy, tx, ty :
        /\ n = Len(points) /\ sxx = Sxx(points) /\ sxy = Sxy(points)
        /\ tx = Total(X, points) /\ ty = Total(Y, points)
  OBVIOUS
<1>3. n \in Nat /\ sxx \in Nat /\ sxy \in Int /\ tx \in Int /\ ty \in Int
  BY <1>1, <1>2 DEF SumsRelate, Measured
<1>4. ASSUME NEW i \in DOMAIN points
      PROVE  Resid(points[i]) = Residual(Dx(points), Dy(points), DOMAIN points)[i]
  <2>1. PICK x, y : x = points[i].workspaces /\ y = points[i].value
    OBVIOUS
  <2>2. x \in Int /\ y \in Int
    BY <2>1 DEF Measured, IntegerOn, Xs, Ys, X, Y
  <2>3. OnLine(points, x).num = ty * sxx + sxy * (n * x - tx)
    BY <1>2, <1>3, <2>2, OnLineIs
  <2>4. Resid(points[i]) = n * sxx * y - (ty * sxx + sxy * (n * x - tx))
    BY <1>2, <2>1, <2>3
  <2>5. Dx(points)[i] = n * x - tx /\ Dy(points)[i] = n * y - ty
    BY <1>2, <2>1, PlainTotals DEF Dx, Dy, Deviation, Xs, Ys, X, Y, Measured, TotalsAre
  <2>6. Residual(Dx(points), Dy(points), DOMAIN points)[i]
          = sxx * (n * y - ty) - sxy * (n * x - tx)
    BY <1>2, <2>5, DeviationTotals DEF Residual, DeviationsAre
  <2>7. n * sxx * y - (ty * sxx + sxy * (n * x - tx)) = sxx * (n * y - ty) - sxy * (n * x - tx)
    BY <1>3, <2>2
  <2>8. QED
    BY <2>4, <2>6, <2>7
<1>5. [i \in DOMAIN points |-> Resid(points[i]) * Resid(points[i])]
        = Product(Residual(Dx(points), Dy(points), DOMAIN points),
                  Residual(Dx(points), Dy(points), DOMAIN points), DOMAIN points)
  <2> HIDE DEF Resid
  <2>1. QED
    BY <1>4 DEF Product
<1>6. Total(LAMBDA p : Resid(p) * Resid(p), points)
        = SumFunctionOnSet([i \in DOMAIN points |-> Resid(points[i]) * Resid(points[i])], DOMAIN points)
  <2> HIDE DEF Resid
  <2>1. QED
    BY DEF Total, SumFunction
<1>7. QED
  BY <1>5, <1>6 DEF Dot

LEMMA RSquaredIs ==
  ASSUME NEW points, NEW c \in LeastSquares(points)
  PROVE  LET Resid(p) == Len(points) * Sxx(points) * p.value - OnLine(points, p.workspaces).num
             ssRes == Total(LAMBDA p : Resid(p) * Resid(p), points)
             ssTot == Sxx(points) * Sxx(points) * Syy(points)
         IN  c.rSquared = IF ssTot = 0 THEN Ratio(1, 1) ELSE Ratio(ssTot - ssRes, ssTot)
<1>1. c = Coefficients(points)
  BY DEF LeastSquares
<1>2. QED
  BY <1>1 DEF Coefficients

LEMMA RSquaredIsAShare ==
  ASSUME NEW points, Measured(points), NEW c \in LeastSquares(points)
  PROVE  ~Less(c.rSquared, Ratio(0, 1)) /\ ~Less(Ratio(1, 1), c.rSquared)
<1>1. PICK S, r : S = DOMAIN points /\ r = Residual(Dx(points), Dy(points), S)
  OBVIOUS
<1>2. PICK sxx, sxy, syy, left :
        sxx = Sxx(points) /\ sxy = Sxy(points) /\ syy = Syy(points) /\ left = Dot(r, r, S)
  OBVIOUS
<1>3. sxx \in Nat /\ sxy \in Int /\ syy \in Nat
  BY <1>2, SumsOfPoints DEF SumsRelate
<1>4. left = sxx * (sxx * syy - sxy * sxy)
  <2>1. IsFiniteSet(S) /\ IntegerOn(Dx(points), S) /\ IntegerOn(Dy(points), S)
    BY <1>1 DEF Measured
  <2>2. QED
    BY <1>1, <1>2, <2>1, ResidualsMultiply, DeviationTotals DEF DeviationsAre
<1>5. left \in Nat
  <2>1. IntegerOn(r, S)
    <3>1. ASSUME NEW i \in S PROVE sxx * Dy(points)[i] - sxy * Dx(points)[i] \in Int
      <4>1. Dx(points)[i] \in Int /\ Dy(points)[i] \in Int
        BY <1>1 DEF Measured, IntegerOn
      <4>2. QED
        BY <1>3, <4>1
    <3>2. r = [i \in S |-> sxx * Dy(points)[i] - sxy * Dx(points)[i]]
      BY <1>1, <1>2, DeviationTotals DEF Residual, DeviationsAre
    <3>3. QED
      BY <3>1, <3>2 DEF IntegerOn
  <2>2. QED
    BY <1>1, <1>2, <2>1, DotIsNat DEF Measured
<1>6. PICK all : all = sxx * sxx * syy
  OBVIOUS
<1>7. all \in Nat /\ all - left = sxx * (sxy * sxy) /\ all - left \in Nat
  <2>1. sxx * sxx * syy - sxx * (sxx * syy - sxy * sxy) = sxx * (sxy * sxy)
    BY <1>3
  <2>2. sxy * sxy \in Nat
    BY <1>3, SquareIsNat
  <2>3. sxx * (sxy * sxy) \in Nat /\ sxx * sxx * syy \in Nat
    BY <1>3, <2>2
  <2>4. QED
    BY <1>4, <1>6, <2>1, <2>3
<1>8. c.rSquared = IF all = 0 THEN Ratio(1, 1) ELSE Ratio(all - left, all)
  BY <1>1, <1>2, <1>6, ResidualTotal, RSquaredIs
<1>9. /\ Ratio(0, 1) = [num |-> 0, den |-> 1] /\ Ratio(1, 1) = [num |-> 1, den |-> 1]
      /\ Ratio(all - left, all) = [num |-> all - left, den |-> all]
  BY <1>7 DEF Ratio
<1>10. CASE all = 0
  BY <1>8, <1>9, <1>10 DEF Less
<1>11. CASE all # 0
  <2>1. c.rSquared = [num |-> all - left, den |-> all]
    BY <1>8, <1>9, <1>11
  <2>2. ~((all - left) * 1 < 0 * all) /\ ~(1 * all < (all - left) * 1)
    BY <1>5, <1>7
  <2>3. QED
    BY <1>9, <2>1, <2>2 DEF Less
<1>12. QED
  BY <1>10, <1>11

LEMMA FitsAlwaysAgree == ASSUME NEW points \in Points PROVE FitsAgree(points)
<1>1. Measured(points)
  BY PointsAreMeasured
<1>2. QED
  BY <1>1, SlopesAgree, RSquaredIsAShare DEF FitsAgree

\* On a line the fit is the line.
LEMMA LineIsFound ==
  ASSUME NEW points, Measured(points), NEW a \in Int, NEW b \in Int, OnOneLine(points, a, b),
         NEW w \in Int
  PROVE  /\ Len(points) * Sxx(points) \in Nat
         /\ OnLine(points, w) = [num |-> (Len(points) * Sxx(points)) * (a + b * w),
                                 den |-> Len(points) * Sxx(points)]
<1>1. PICK S, n, x, y, tx, ty :
        /\ S = DOMAIN points /\ n = Len(points) /\ x = Xs(points) /\ y = Ys(points)
        /\ tx = SumFunctionOnSet(x, S) /\ ty = SumFunctionOnSet(y, S)
  OBVIOUS
<1>2. /\ IsFiniteSet(S) /\ Cardinality(S) = n /\ n \in Nat
      /\ IntegerOn(x, S) /\ IntegerOn(y, S) /\ IntegerOn(Ones(S), S)
      /\ IntegerOn(Dx(points), S) /\ IntegerOn(Dy(points), S)
  BY <1>1 DEF Measured, IntegerOn, Ones
<1>3. tx \in Int /\ ty \in Int
  BY <1>1, <1>2, SumIsInt
<1>4. ASSUME NEW i \in S PROVE x[i] \in Int /\ y[i] = a * 1 + b * x[i]
  <2>1. x[i] = points[i].workspaces /\ y[i] = points[i].value
    BY <1>1 DEF Xs, Ys, X, Y
  <2>2. x[i] \in Int
    BY <1>2 DEF IntegerOn
  <2>3. QED
    BY <1>1, <2>1, <2>2 DEF OnOneLine
<1>5. ty = a * n + b * tx
  <2>1. Combines(y, Ones(S), x, a, b, S)
    BY <1>4 DEF Combines, Ones
  <2>2. QED
    BY <1>1, <1>2, <2>1, SumIsLinear, SumOfOnes
<1>6. PICK sxx, sxy : sxx = Sxx(points) /\ sxy = Sxy(points)
  OBVIOUS
<1>7. sxx \in Nat /\ sxy \in Int
  BY <1>6, SumsOfPoints DEF SumsRelate
<1>8. sxy = b * sxx
  <2>1. PICK d, e : d = Dx(points) /\ e = Dy(points)
    OBVIOUS
  <2>2. Combines(e, d, d, b, 0, S)
    <3>1. ASSUME NEW i \in S PROVE e[i] = b * d[i] + 0 * d[i]
      <4>1. d[i] = n * x[i] - tx /\ e[i] = n * y[i] - ty
        BY <1>1, <1>2, <2>1 DEF Dx, Dy, Deviation
      <4>2. n * (a * 1 + b * x[i]) - (a * n + b * tx) = b * (n * x[i] - tx) + 0 * (n * x[i] - tx)
        BY <1>2, <1>3, <1>4
      <4>3. QED
        BY <1>4, <1>5, <4>1, <4>2
    <3>2. QED
      BY <3>1 DEF Combines
  <2>3. Dot(e, d, S) = b * Dot(d, d, S) + 0 * Dot(d, d, S)
    BY <1>2, <2>1, <2>2, DotIsLinear
  <2>4. Dot(e, d, S) = sxy /\ Dot(d, d, S) = sxx
    BY <1>1, <1>2, <1>6, <2>1, DotCommutes, DeviationTotals DEF DeviationsAre
  <2>5. QED
    BY <1>7, <2>3, <2>4
<1>9. OnLine(points, w) = [num |-> ty * sxx + sxy * (n * w - tx), den |-> n * sxx]
  <2>1. Total(X, points) = tx /\ Total(Y, points) = ty
    BY <1>1, PlainTotals DEF TotalsAre
  <2>2. QED
    BY <1>1, <1>2, <1>3, <1>6, <1>7, <2>1, OnLineIs
<1>10. (a * n + b * tx) * sxx + (b * sxx) * (n * w - tx) = (n * sxx) * (a + b * w)
  BY <1>2, <1>3, <1>7
<1>11. n * sxx \in Nat
  BY <1>2, <1>7
<1>12. OnLine(points, w) = [num |-> (n * sxx) * (a + b * w), den |-> n * sxx]
  BY <1>5, <1>8, <1>9, <1>10
<1>13. QED
  BY <1>1, <1>6, <1>11, <1>12

-----------------------------------------------------------------------------
(* The samples of one phase. *)

GatheredAt(taken, phase, g, n) ==
  IF n = 0 THEN <<>>
  ELSE IF taken[n].phase = phase THEN Append(g[n - 1], taken[n]) ELSE g[n - 1]

Gathered(taken, phase) == CHOOSE g : g = [n \in 0..Len(taken) |-> GatheredAt(taken, phase, g, n)]

LEMMA InPhaseIsGathered ==
  ASSUME NEW taken, NEW phase PROVE InPhase(taken, phase) = Gathered(taken, phase)[Len(taken)]
BY DEF InPhase, Gathered, GatheredAt

LEMMA GatheredExists ==
  ASSUME NEW S, NEW taken \in Seq(S), NEW phase
  PROVE  Gathered(taken, phase) = [n \in 0..Len(taken) |-> GatheredAt(taken, phase, Gathered(taken, phase), n)]
<1> DEFINE nxt == [n \in 1..Len(taken) |-> [v \in Seq(S) |->
                       IF taken[n].phase = phase THEN Append(v, taken[n]) ELSE v]]
<1>1. Len(taken) \in Nat /\ <<>> \in Seq(S) /\ \A n \in 1..Len(taken) : taken[n] \in S
  BY LenProperties, ElementOfSeq, EmptySeq
<1>2. \A n \in 1..Len(taken), v \in Seq(S) :
        nxt[n][v] = IF taken[n].phase = phase THEN Append(v, taken[n]) ELSE v
  OBVIOUS
<1>3. \A n \in 1..Len(taken), v \in Seq(S) : nxt[n][v] \in Seq(S)
  BY <1>1, <1>2, AppendProperties
<1> HIDE DEF nxt
<1>4. PICK f : IsRecursion(f, Len(taken), Seq(S), <<>>, nxt)
  BY <1>1, <1>3, RecursionExists
<1>5. ASSUME NEW n \in 0..Len(taken) PROVE f[n] = GatheredAt(taken, phase, f, n)
  <2>1. CASE n = 0
    BY <1>4, <2>1 DEF GatheredAt, IsRecursion
  <2>2. CASE n # 0
    <3>1. n \in 1..Len(taken) /\ n - 1 \in 0..Len(taken)
      BY <1>1, <2>2
    <3>2. f[n - 1] \in Seq(S)
      BY <1>4, <3>1 DEF IsRecursion
    <3>3. QED
      BY <1>2, <1>4, <2>2, <3>1, <3>2 DEF GatheredAt, IsRecursion
  <2>3. QED
    BY <2>1, <2>2
<1>6. f = [n \in 0..Len(taken) |-> GatheredAt(taken, phase, f, n)]
  BY <1>4, <1>5 DEF IsRecursion
<1>7. QED
  BY <1>6 DEF Gathered

LEMMA GatheredStep ==
  ASSUME NEW S, NEW taken \in Seq(S), NEW phase, NEW n \in 0..Len(taken)
  PROVE  Gathered(taken, phase)[n] = GatheredAt(taken, phase, Gathered(taken, phase), n)
<1>1. ASSUME NEW h, h = [i \in 0..Len(taken) |-> GatheredAt(taken, phase, h, i)]
      PROVE  h[n] = GatheredAt(taken, phase, h, n)
  BY <1>1
<1>2. QED
  BY <1>1, GatheredExists

\* One sample more is one of its phase more.
LEMMA InPhaseOfOneMore ==
  ASSUME NEW S, NEW taken \in Seq(S), NEW s \in S, NEW phase
  PROVE  InPhase(Append(taken, s), phase)
           = IF s.phase = phase THEN Append(InPhase(taken, phase), s) ELSE InPhase(taken, phase)
<1> DEFINE more == Append(taken, s)
           f == Gathered(more, phase)
           g == Gathered(taken, phase)
           G == {n \in Nat : n <= Len(taken) => f[n] = g[n]}
<1>1. /\ Len(taken) \in Nat /\ Len(more) = Len(taken) + 1 /\ more[Len(taken) + 1] = s
      /\ more \in Seq(S) /\ \A i \in 1..Len(taken) : more[i] = taken[i]
  BY LenProperties, AppendProperties
<1> HIDE DEF more
<1>2. \A n \in 0..Len(taken) + 1 : f[n] = GatheredAt(more, phase, f, n)
  BY <1>1, GatheredStep
<1>3. \A n \in 0..Len(taken) : g[n] = GatheredAt(taken, phase, g, n)
  BY <1>1, GatheredStep
<1> HIDE DEF f, g
<1>4. 0 \in G
  BY <1>1, <1>2, <1>3 DEF GatheredAt
<1>5. ASSUME NEW n \in Nat, n \in G PROVE n + 1 \in G
  <2> SUFFICES ASSUME n + 1 <= Len(taken) PROVE f[n + 1] = g[n + 1]
    OBVIOUS
  <2>1. /\ f[n] = g[n] /\ more[n + 1] = taken[n + 1]
        /\ n + 1 # 0 /\ (n + 1) - 1 = n
        /\ n + 1 \in 0..Len(taken) /\ n + 1 \in 0..Len(taken) + 1
    BY <1>1, <1>5
  <2>2. /\ f[n + 1] = GatheredAt(more, phase, f, n + 1)
        /\ g[n + 1] = GatheredAt(taken, phase, g, n + 1)
    BY <1>2, <1>3, <2>1
  <2>3. QED
    BY <2>1, <2>2 DEF GatheredAt
<1>6. \A n \in Nat : n \in G
  <2> HIDE DEF G
  <2>1. QED
    BY <1>4, <1>5, UpToInduction
<1>7. f[Len(taken)] = g[Len(taken)]
  BY <1>1, <1>6
<1>8. f[Len(taken) + 1] = GatheredAt(more, phase, f, Len(taken) + 1)
  BY <1>1, <1>2
<1>9. Len(taken) + 1 # 0 /\ (Len(taken) + 1) - 1 = Len(taken)
  BY <1>1
<1>10. f[Len(taken) + 1] = IF s.phase = phase THEN Append(g[Len(taken)], s) ELSE g[Len(taken)]
  BY <1>1, <1>7, <1>8, <1>9 DEF GatheredAt
<1>11. QED
  BY <1>1, <1>10, InPhaseIsGathered DEF f, g, more

\* The samples under work, one for each count in turn.
CleanlyActive == \A i \in Of("active") : Clean(i)
ActiveCost(k) == curve[k] + Work * k

InTurn(active, n, clean) ==
  /\ active \in Seq(Samples) /\ Len(active) = n
  /\ \A k \in 1..n :
       active[k].workspaces = k /\ (clean => active[k].goroutines = ActiveCost(k))

ActiveInTurn == InTurn(InPhase(samples, "active"), Activated, CleanlyActive)

LEMMA InitActive == SweepInit => ActiveInTurn
<1> SUFFICES ASSUME SweepInit PROVE ActiveInTurn
  OBVIOUS
<1>1. samples = <<>> /\ Activated = 0 /\ <<>> \in Seq(Samples) /\ Len(<<>>) = 0
  BY EmptySeq DEF SweepInit, Activated
<1>2. InPhase(<<>>, "active") = <<>>
  <2>1. 0 \in 0..Len(<<>>)
    BY <1>1
  <2>2. Gathered(<<>>, "active")[0] = GatheredAt(<<>>, "active", Gathered(<<>>, "active"), 0)
    BY <1>1, <2>1, GatheredStep
  <2>3. QED
    BY <1>1, <2>2, InPhaseIsGathered DEF GatheredAt
<1>3. InTurn(<<>>, 0, CleanlyActive)
  BY <1>1 DEF InTurn
<1>4. QED
  BY <1>1, <1>2, <1>3 DEF ActiveInTurn

\* Samples under work that are clean with one more were so without it.
LEMMA ActiveBefore ==
  ASSUME SweepTypeOK, NEW s, NEW off, OneMore(s, off), CleanlyActive'
  PROVE  CleanlyActive /\ (s.phase = "active" => off = 0)
<1>1. Of("active") \subseteq Of("active")'
  BY DEF Of, OneMore
<1>2. \A i \in Of("active") : Clean(i)
  BY <1>1 DEF Of, OneMore, Clean, CleanlyActive
<1>3. s.phase = "active" => Len(samples) + 1 \in Of("active")'
  BY DEF Of, OneMore
<1>4. s.phase = "active" => off = 0
  BY <1>3 DEF OneMore, Clean, CleanlyActive
<1>5. QED
  BY <1>2, <1>4 DEF CleanlyActive

\* A sample of another phase changes nothing.
LEMMA OthersAreLeftOut ==
  ASSUME SweepTypeOK, ActiveInTurn, curve' = curve, Activated' = Activated,
         NEW s \in Samples, NEW off, OneMore(s, off), samples' = Append(samples, s),
         s.phase # "active"
  PROVE  ActiveInTurn'
<1>1. samples \in Seq(Samples)
  BY DEF SweepTypeOK
<1>2. InPhase(samples', "active") = InPhase(samples, "active")
  BY <1>1, InPhaseOfOneMore
<1>3. PICK active, n : active = InPhase(samples, "active") /\ n = Activated
  OBVIOUS
<1>4. InTurn(active, n, CleanlyActive) /\ (CleanlyActive' => CleanlyActive)
  BY <1>3, ActiveBefore DEF ActiveInTurn
<1>5. InTurn(active, n, CleanlyActive)'
  BY <1>4 DEF InTurn, ActiveCost
<1>6. InPhase(samples, "active")' = active /\ Activated' = n
  BY <1>2, <1>3
<1>7. QED
  BY <1>5, <1>6 DEF ActiveInTurn

LEMMA BaselineKeepsActive == SweepInv /\ ActiveInTurn /\ Baseline => ActiveInTurn'
<1> SUFFICES ASSUME SweepInv, ActiveInTurn, Baseline PROVE ActiveInTurn'
  OBVIOUS
<1>1. /\ SweepTypeOK /\ step = "baseline" /\ step' = "engage" /\ curve' = curve /\ serving' = serving
  BY DEF Baseline, SweepInv
<1>2. PICK off \in Noise : Sample("baseline", 0, curve[0], off, off)
  BY DEF Baseline, Take
<1> DEFINE t == [phase |-> "baseline", workspaces |-> 0, goroutines |-> curve[0] + off]
<1>3. curve[0] \in Nat /\ off \in Nat /\ "baseline" \in Phases
  BY <1>1, SweepAssumption DEF SweepTypeOK, Noise, Phases
<1>4. /\ OneMore(t, off) /\ t \in Samples /\ t.phase # "active"
      /\ samples' = Append(samples, t)
  <2>1. OneMore(t, off)
    BY <1>1, <1>2, <1>3, SampleIsOneMore
  <2>2. t \in Samples
    BY <1>3 DEF Samples
  <2>3. QED
    BY <1>2, <2>1, <2>2 DEF Sample
<1> HIDE DEF t
<1>5. Activated' = Activated
  BY <1>1 DEF Activated
<1>6. QED
  BY <1>1, <1>4, <1>5, OthersAreLeftOut

LEMMA EngageKeepsActive == SweepInv /\ ActiveInTurn /\ EngageOne => ActiveInTurn'
<1> SUFFICES ASSUME SweepInv, ActiveInTurn, EngageOne PROVE ActiveInTurn'
  OBVIOUS
<1>1. /\ SweepTypeOK /\ step = "engage" /\ step' = "activate" /\ serving < Peak
      /\ curve' = curve /\ serving' = serving + 1
  BY DEF EngageOne, SweepInv
<1>2. PICK off \in Noise :
        Sample("engaged", serving + 1, curve[serving + 1] + Work * serving, off, off)
  BY <1>1 DEF EngageOne, Take
<1> DEFINE t == [phase |-> "engaged", workspaces |-> serving + 1,
                 goroutines |-> curve[serving + 1] + Work * serving + off]
<1>3. /\ serving \in Nat /\ serving + 1 \in Nat /\ off \in Nat /\ "engaged" \in Phases
      /\ serving + 1 \in 0..Peak /\ curve[serving + 1] \in Nat /\ Work * serving \in Nat
  BY <1>1, SweepAssumption DEF SweepTypeOK, Noise, Phases
<1>4. /\ OneMore(t, off) /\ t \in Samples /\ t.phase # "active"
      /\ samples' = Append(samples, t)
  <2>1. OneMore(t, off)
    BY <1>1, <1>2, <1>3, SampleIsOneMore
  <2>2. t \in Samples
    BY <1>3 DEF Samples
  <2>3. QED
    BY <1>2, <2>1, <2>2 DEF Sample
<1> HIDE DEF t
<1>5. Activated' = Activated
  BY <1>1, <1>3 DEF Activated
<1>6. QED
  BY <1>1, <1>4, <1>5, OthersAreLeftOut

LEMMA DepartKeepsActive == SweepInv /\ ActiveInTurn /\ Depart => ActiveInTurn'
<1> SUFFICES ASSUME SweepInv, ActiveInTurn, Depart PROVE ActiveInTurn'
  OBVIOUS
<1>1. /\ SweepTypeOK /\ step = "depart" /\ step' = step /\ serving > 0
      /\ curve' = curve /\ retains' = retains /\ serving' = serving - 1
  BY DEF Depart, SweepInv
<1>2. PICK n1 \in Noise, n2 \in Noise :
        Sample("disengaged", serving - 1, Remaining(serving - 1),
               IF n1 < n2 THEN n1 ELSE n2, n1 + n2)
  BY <1>1 DEF Depart, TakeLowest, Remaining
<1>3. PICK off : off = IF n1 < n2 THEN n1 ELSE n2
  OBVIOUS
<1> DEFINE t == [phase |-> "disengaged", workspaces |-> serving - 1,
                 goroutines |-> Remaining(serving - 1) + off]
<1>4. /\ serving - 1 \in Nat /\ off \in Nat /\ Remaining(serving - 1) \in Nat
      /\ "disengaged" \in Phases
  <2>1. serving - 1 \in Nat /\ serving - 1 \in 0..Peak /\ Peak - (serving - 1) \in Nat
    BY <1>1, SweepAssumption DEF SweepTypeOK
  <2>2. off \in Nat
    BY <1>3 DEF Noise
  <2>3. /\ curve[0] \in Nat /\ curve[serving - 1] \in Nat
        /\ Work * (serving - 1) \in Nat /\ retains * (Peak - (serving - 1)) \in Nat
    BY <1>1, <2>1, SweepAssumption DEF SweepTypeOK
  <2>4. QED
    BY <2>1, <2>2, <2>3 DEF Remaining, Phases
<1>5. /\ OneMore(t, off) /\ t \in Samples /\ t.phase # "active"
      /\ samples' = Append(samples, t)
  <2>1. Sample("disengaged", serving - 1, Remaining(serving - 1), off, n1 + n2)
    BY <1>2, <1>3
  <2>2. OneMore(t, off)
    BY <1>1, <1>4, <2>1, SampleIsOneMore
  <2>3. t \in Samples
    BY <1>4 DEF Samples
  <2>4. QED
    BY <2>1, <2>2, <2>3 DEF Sample
<1> HIDE DEF t
<1>6. Activated' = Activated
  BY <1>1 DEF Activated
<1>7. QED
  BY <1>1, <1>5, <1>6, OthersAreLeftOut

LEMMA ActivateKeepsActive == SweepInv /\ ActiveInTurn /\ Activate => ActiveInTurn'
<1> SUFFICES ASSUME SweepInv, ActiveInTurn, Activate PROVE ActiveInTurn'
  OBVIOUS
<1>1. /\ SweepTypeOK /\ step = "activate" /\ serving > 0 /\ curve' = curve /\ serving' = serving
      /\ step' = IF serving = Peak THEN "depart" ELSE "engage"
  BY DEF Activate, SweepInv
<1>2. PICK off \in Noise : Sample("active", serving, curve[serving] + Work * serving, off, off)
  BY DEF Activate, Take
<1> DEFINE t == [phase |-> "active", workspaces |-> serving,
                 goroutines |-> curve[serving] + Work * serving + off]
<1>3. /\ serving \in Nat /\ off \in Nat /\ "active" \in Phases
      /\ curve[serving] \in Nat /\ Work * serving \in Nat
  BY <1>1, SweepAssumption DEF SweepTypeOK, Noise, Phases
<1>4. /\ OneMore(t, off) /\ t \in Samples /\ t.workspaces = serving /\ t.phase = "active"
      /\ samples' = Append(samples, t)
      /\ (off = 0 => t.goroutines = ActiveCost(serving))
  <2>1. OneMore(t, off)
    BY <1>1, <1>2, <1>3, SampleIsOneMore
  <2>2. t \in Samples
    BY <1>3 DEF Samples
  <2>3. off = 0 => t.goroutines = ActiveCost(serving)
    BY <1>3 DEF ActiveCost
  <2>4. QED
    BY <1>2, <2>1, <2>2, <2>3 DEF Sample
<1> HIDE DEF t
<1>5. Activated = serving - 1 /\ Activated' = serving
  BY <1>1 DEF Activated
<1>6. PICK active : active = InPhase(samples, "active")
  OBVIOUS
<1>7. /\ active \in Seq(Samples) /\ Len(active) = serving - 1
      /\ \A k \in 1..serving - 1 : /\ active[k].workspaces = k
                                   /\ (CleanlyActive => active[k].goroutines = ActiveCost(k))
  BY <1>5, <1>6 DEF ActiveInTurn, InTurn
<1>8. PICK more : more = Append(active, t)
  OBVIOUS
<1>9. InPhase(samples, "active")' = more
  <2>1. samples \in Seq(Samples)
    BY <1>1 DEF SweepTypeOK
  <2>2. QED
    BY <1>4, <1>6, <1>8, <2>1, InPhaseOfOneMore
<1>10. /\ more \in Seq(Samples) /\ Len(more) = serving
       /\ \A k \in 1..serving - 1 : more[k] = active[k]
       /\ more[serving] = t
  <2>1. /\ more \in Seq(Samples) /\ Len(more) = Len(active) + 1
        /\ \A k \in 1..Len(active) : more[k] = active[k]
        /\ more[Len(active) + 1] = t
    BY <1>4, <1>7, <1>8, AppendProperties
  <2>2. Len(active) + 1 = serving
    BY <1>3, <1>7
  <2>3. QED
    BY <1>7, <2>1, <2>2
<1>11. /\ CleanlyActive' => CleanlyActive /\ off = 0
       /\ \A k : ActiveCost(k)' = ActiveCost(k)
  <2>1. CleanlyActive' => CleanlyActive /\ off = 0
    BY <1>1, <1>4, ActiveBefore
  <2>2. QED
    BY <1>1, <2>1 DEF ActiveCost
<1>12. ASSUME NEW k \in 1..serving
       PROVE  more[k].workspaces = k /\ (CleanlyActive' => more[k].goroutines = ActiveCost(k)')
  <2>1. CASE k \in 1..serving - 1
    BY <1>7, <1>10, <1>11, <2>1
  <2>2. CASE k = serving
    BY <1>4, <1>10, <1>11, <2>2
  <2>3. QED
    BY <1>3, <2>1, <2>2
<1>13. PICK n : n = serving
  OBVIOUS
<1>14. InTurn(more, n, CleanlyActive)'
  BY <1>10, <1>12, <1>13 DEF InTurn
<1>15. QED
  BY <1>5, <1>9, <1>13, <1>14 DEF ActiveInTurn

LEMMA ActiveGoesOn == SweepInv /\ ActiveInTurn /\ [SweepNext]_sweepVars => ActiveInTurn'
<1> SUFFICES ASSUME SweepInv, ActiveInTurn, [SweepNext]_sweepVars PROVE ActiveInTurn'
  OBVIOUS
<1>1. CASE UNCHANGED sweepVars
  <2>1. /\ step' = step /\ samples' = samples /\ serving' = serving /\ curve' = curve
        /\ muddied' = muddied
    BY <1>1 DEF sweepVars
  <2>2. CleanlyActive' = CleanlyActive /\ Activated' = Activated
    BY <2>1 DEF CleanlyActive, Of, Clean, Activated
  <2>3. QED
    BY <2>1, <2>2 DEF ActiveInTurn, InTurn, ActiveCost
<1>2. QED
  BY <1>1, BaselineKeepsActive, EngageKeepsActive, ActivateKeepsActive, DepartKeepsActive
  DEF SweepNext

-----------------------------------------------------------------------------
(* The fit of a run that is in order, and its validation. *)

Measurements == Seq([workspaces : Int, heap : Int, process : Int])
Rising(ms) ==
  \A i, j \in 1..Len(ms) : i < j => ms[i].workspaces < ms[j].workspaces

LEMMA MeasurementsAre ==
  ASSUME NEW ms \in Measurements
  PROVE  /\ Len(ms) \in Nat /\ DOMAIN ms = 1..Len(ms) /\ ms = [i \in 1..Len(ms) |-> ms[i]]
         /\ \A i \in 1..Len(ms) : ms[i].workspaces \in Int /\ ms[i].heap \in Int
<1>1. Len(ms) \in Nat /\ ms \in [1..Len(ms) -> [workspaces : Int, heap : Int, process : Int]]
  BY LenProperties DEF Measurements
<1>2. QED
  BY <1>1

LEMMA RisingIsInOrder ==
  ASSUME NEW ms \in Measurements, Rising(ms)
  PROVE  ByWorkspaces(ms) = ms
<1>1. PICK n : n = Len(ms)
  OBVIOUS
<1>2. /\ n \in Nat /\ DOMAIN ms = 1..n /\ ms = [i \in 1..n |-> ms[i]]
      /\ \A i, j \in 1..n : ms[i].workspaces \in Int
                            /\ (i < j => ms[i].workspaces < ms[j].workspaces)
  BY <1>1, MeasurementsAre DEF Rising
<1>3. QED
  BY <1>2, InOrder

\* What Fit reads of a run: its heap as points.
Heaps(ms) == [i \in DOMAIN ms |-> [workspaces |-> ms[i].workspaces, value |-> ms[i].heap]]

Fitted(m, ms) ==
  /\ Len(ms) >= 3 /\ m.heap = Heaps(ms) /\ LeastSquares(Heaps(ms)) # {}
  /\ m.min = ms[1].workspaces /\ m.max = ms[Len(ms)].workspaces

LEMMA FitIs ==
  ASSUME NEW ms \in Measurements, Rising(ms), NEW run, run.measurements = ms, NEW m \in Fit(run)
  PROVE  Fitted(m, ms)
<1>1. ByWorkspaces(run.measurements) = ms
  BY RisingIsInOrder
<1>2. /\ ~(Len(ms) < MinFitPoints) /\ m.heap = Heaps(ms) /\ LeastSquares(Heaps(ms)) # {}
      /\ m.min = Head(ms).workspaces /\ m.max = Last(ms).workspaces
  <2>1. [i \in DOMAIN ms |-> [workspaces |-> ms[i].workspaces, value |-> ms[i]["heap"]]] = Heaps(ms)
    BY DEF Heaps
  <2> DEFINE process == IF \A x \in ToSet(ms) : x.process # 0
                        THEN [i \in DOMAIN ms |-> [workspaces |-> ms[i].workspaces, value |-> ms[i]["process"]]]
                        ELSE <<>>
             model == [shape |-> Shape(run), min |-> Head(ms).workspaces, max |-> Last(ms).workspaces,
                       heap |-> Heaps(ms), process |-> process]
  <2>2. Fit(run) = IF ~ValidRun(run) \/ Len(ms) < MinFitPoints \/ LeastSquares(Heaps(ms)) = {}
                   THEN {} ELSE {model}
    BY <1>1, <2>1 DEF Fit
  <2>3. ~(Len(ms) < MinFitPoints) /\ LeastSquares(Heaps(ms)) # {} /\ m = model
    <3> HIDE DEF model
    <3> QED
      BY <2>2
  <2>4. model.heap = Heaps(ms) /\ model.min = Head(ms).workspaces /\ model.max = Last(ms).workspaces
    OBVIOUS
  <2>5. QED
    BY <2>3, <2>4
<1>3. Head(ms) = ms[1] /\ Last(ms) = ms[Len(ms)]
  <2>1. Len(ms) \in Nat
    BY MeasurementsAre
  <2>2. ms # <<>>
    BY <1>2, <2>1, EmptySeq DEF MinFitPoints
  <2>3. QED
    BY <2>2, HeadTailProperties DEF Last, Measurements
<1>4. Len(ms) >= 3
  BY <1>2, MeasurementsAre DEF MinFitPoints
<1>5. QED
  BY <1>2, <1>3, <1>4 DEF Fitted

LEMMA HeapsArePoints == ASSUME NEW ms \in Measurements PROVE Heaps(ms) \in Points /\ Len(Heaps(ms)) = Len(ms)
<1>1. PICK n : n = Len(ms)
  OBVIOUS
<1>2. n \in Nat /\ Heaps(ms) \in [1..n -> [workspaces : Int, value : Int]]
  BY <1>1, MeasurementsAre DEF Heaps
<1>3. Heaps(ms) \in Points
  <2>1. PICK points : points = Heaps(ms)
    OBVIOUS
  <2>2. points \in Seq([workspaces : Int, value : Int])
    BY <1>2, <2>1, FunctionIsSeq
  <2>3. QED
    BY <2>1, <2>2 DEF Points
<1>4. Len(Heaps(ms)) \in Nat /\ DOMAIN Heaps(ms) = 1..Len(Heaps(ms)) /\ DOMAIN Heaps(ms) = 1..n
  BY <1>2, <1>3, LenProperties DEF Points
<1>5. QED
  BY <1>1, <1>2, <1>3, <1>4

\* What was measured lies on a line.
HeapOnLine(ms, a, b) == \A i \in 1..Len(ms) : ms[i].heap = a + b * ms[i].workspaces

\* The prediction is the value v exactly.
Exactly(predicted, v) ==
  \E d \in Nat : d # 0 /\ predicted = [num |-> d * v, den |-> d]

LEMMA FitOnLine ==
  ASSUME NEW ms \in Measurements, NEW m, Fitted(m, ms), NEW a \in Int, NEW b \in Int,
         HeapOnLine(ms, a, b), NEW w \in Int
  PROVE  Exactly(OnLine(m.heap, w), a + b * w)
<1>1. PICK points : points = Heaps(ms)
  OBVIOUS
<1>2. points \in Points /\ Len(points) = Len(ms) /\ Measured(points)
  BY <1>1, HeapsArePoints, PointsAreMeasured
<1>3. OnOneLine(points, a, b)
  BY <1>1, MeasurementsAre DEF OnOneLine, Heaps, HeapOnLine
<1>4. PICK d : d = Len(points) * Sxx(points)
  OBVIOUS
<1>5. d \in Nat /\ OnLine(points, w) = [num |-> d * (a + b * w), den |-> d]
  BY <1>2, <1>3, <1>4, LineIsFound
<1>6. d # 0
  <2>1. Sxx(points) # 0 /\ Len(points) > 0
    BY <1>1, <1>2, MeasurementsAre DEF Fitted, LeastSquares
  <2>2. Sxx(points) \in Nat /\ Len(points) \in Nat
    BY <1>2, SumsOfPoints DEF SumsRelate, Measured
  <2>3. QED
    BY <1>4, <2>1, <2>2
<1>7. QED
  BY <1>1, <1>5, <1>6 DEF Fitted, Exactly

LEMMA MinusZero == -0 = 0
<1>1. \A z \in Int : -z \in Int /\ (z <= 0 /\ 0 <= z => -z <= 0 /\ 0 <= -z)
  OBVIOUS
<1>2. 0 \in Int /\ 0 <= 0
  OBVIOUS
<1>3. -0 \in Int /\ -0 <= 0 /\ 0 <= -0
  BY <1>1, <1>2, Zenon
<1>4. \A y \in Int : y <= 0 /\ 0 <= y => y = 0
  OBVIOUS
<1>5. QED
  BY <1>3, <1>4, Zenon

LEMMA RelativeErrorIsNone ==
  ASSUME NEW v \in Int, NEW predicted, Exactly(predicted, v)
  PROVE  RelativeError(v, predicted).num = 0
<1>1. PICK d \in Nat : predicted = [num |-> d * v, den |-> d]
  BY DEF Exactly
<1>2. predicted.num - v * predicted.den = 0
  <2>1. predicted.num = d * v /\ predicted.den = d
    BY <1>1
  <2>2. d * v - v * d = 0
    OBVIOUS
  <2>3. QED
    BY <2>1, <2>2
<1>3. -0 = 0
  BY MinusZero
<1>4. ASSUME NEW x PROVE Ratio(0, x).num = 0
  BY <1>3, Zenon DEF Ratio
<1>5. QED
  BY <1>2, <1>4 DEF RelativeError

\* The measurements without one of them.
LEMMA RemoveAtIs ==
  ASSUME NEW S, NEW s \in Seq(S), NEW i \in 1..Len(s)
  PROVE  /\ RemoveAt(s, i) \in Seq(S) /\ Len(RemoveAt(s, i)) = Len(s) - 1
         /\ \A k \in 1..Len(s) - 1 : RemoveAt(s, i)[k] = IF k < i THEN s[k] ELSE s[k + 1]
<1>1. PICK n : n = Len(s)
  OBVIOUS
<1>2. PICK l, r : l = SubSeq(s, 1, i - 1) /\ r = SubSeq(s, i + 1, n)
  OBVIOUS
<1>3. n \in Nat /\ i \in 1..n /\ RemoveAt(s, i) = l \o r
  BY <1>1, <1>2, LenProperties DEF RemoveAt
<1>4. /\ l \in Seq(S) /\ Len(l) = i - 1
      /\ \A k \in 1..i - 1 : l[k] = s[k]
  BY <1>1, <1>2, <1>3, SubSeqProperties
<1>5. /\ r \in Seq(S) /\ Len(r) = n - i
      /\ \A k \in 1..n - i : r[k] = s[i + k]
  BY <1>1, <1>2, <1>3, SubSeqProperties
<1>6. /\ l \o r \in Seq(S) /\ Len(l \o r) = Len(l) + Len(r)
      /\ \A k \in 1..Len(l) + Len(r) :
           (l \o r)[k] = IF k <= Len(l) THEN l[k] ELSE r[k - Len(l)]
  BY <1>4, <1>5, ConcatProperties
<1>7. Len(l) + Len(r) = n - 1
  BY <1>3, <1>4, <1>5
<1>8. ASSUME NEW k \in 1..n - 1
      PROVE  (l \o r)[k] = IF k < i THEN s[k] ELSE s[k + 1]
  <2>1. (l \o r)[k] = IF k <= i - 1 THEN l[k] ELSE r[k - (i - 1)]
    BY <1>4, <1>6, <1>7
  <2>2. CASE k < i
    <3>1. k <= i - 1 /\ k \in 1..i - 1
      BY <1>3, <2>2
    <3>2. QED
      BY <1>4, <2>1, <2>2, <3>1
  <2>3. CASE ~(k < i)
    <3>1. ~(k <= i - 1) /\ k - (i - 1) \in 1..n - i /\ i + (k - (i - 1)) = k + 1
      BY <1>3, <2>3
    <3>2. QED
      BY <1>5, <2>1, <2>3, <3>1
  <2>4. QED
    BY <2>2, <2>3
<1>9. QED
  BY <1>1, <1>3, <1>6, <1>7, <1>8

\* What was validated against the fit of all but one measurement.
Validated(v, ms, i, m) ==
  /\ v.error = RelativeError(ms[i].heap, OnLine(m.heap, ms[i].workspaces))
  /\ v.extrapolated <=> ms[i].workspaces < m.min \/ ms[i].workspaces > m.max

LEMMA HoldOutIs ==
  ASSUME NEW ms \in Measurements, Rising(ms), NEW run, run.measurements = ms,
         NEW vs \in HoldOut(run)
  PROVE  /\ Len(ms) >= 4 /\ DOMAIN vs = 1..Len(ms) /\ Len(vs) = Len(ms)
         /\ \A i \in 1..Len(ms) :
              \E m \in Fit([run EXCEPT !.measurements = RemoveAt(ms, i)]) : Validated(vs[i], ms, i, m)
<1>1. ByWorkspaces(run.measurements) = ms
  BY RisingIsInOrder
<1> DEFINE Others(i) == Fit([run EXCEPT !.measurements = RemoveAt(ms, i)])
           Model(i) == CHOOSE m \in Others(i) : TRUE
           value == [i \in DOMAIN ms |->
                       [workspaces |-> ms[i].workspaces,
                        error |-> RelativeError(ms[i].heap, OnLine(Model(i).heap, ms[i].workspaces)),
                        extrapolated |-> ms[i].workspaces < Model(i).min
                                           \/ ms[i].workspaces > Model(i).max]]
<1>2. /\ ~(Len(ms) < MinFitPoints + 1) /\ \A i \in DOMAIN ms : Others(i) # {}
      /\ vs = value
  BY <1>1 DEF HoldOut
<1> HIDE DEF Others
<1>3. Len(ms) \in Nat /\ DOMAIN ms = 1..Len(ms) /\ Len(ms) >= 4
  BY <1>2, MeasurementsAre DEF MinFitPoints
<1>4. ASSUME NEW i \in 1..Len(ms)
      PROVE  \E m \in Others(i) : Validated(vs[i], ms, i, m)
  <2>1. Model(i) \in Others(i)
    BY <1>2, <1>3
  <2>2. vs[i] = [workspaces |-> ms[i].workspaces,
                 error |-> RelativeError(ms[i].heap, OnLine(Model(i).heap, ms[i].workspaces)),
                 extrapolated |-> ms[i].workspaces < Model(i).min
                                    \/ ms[i].workspaces > Model(i).max]
    BY <1>2, <1>3
  <2>3. Validated(vs[i], ms, i, Model(i))
    <3> HIDE DEF Model, value
    <3>1. vs[i].error = RelativeError(ms[i].heap, OnLine(Model(i).heap, ms[i].workspaces))
      BY <2>2
    <3>2. vs[i].extrapolated <=> ms[i].workspaces < Model(i).min \/ ms[i].workspaces > Model(i).max
      <4>1. PICK v, w, e, low, high :
              /\ v = vs[i] /\ w = ms[i].workspaces /\ low = Model(i).min /\ high = Model(i).max
              /\ e = RelativeError(ms[i].heap, OnLine(Model(i).heap, ms[i].workspaces))
        OBVIOUS
      <4>2. v = [workspaces |-> w, error |-> e, extrapolated |-> w < low \/ w > high]
        BY <2>2, <4>1
      <4>3. v.extrapolated <=> w < low \/ w > high
        BY <4>2, Zenon
      <4>4. QED
        BY <4>1, <4>3
    <3>3. QED
      BY <3>1, <3>2 DEF Validated
  <2>4. QED
    BY <2>1, <2>3
<1>5. DOMAIN vs = 1..Len(ms)
  BY <1>2, <1>3
<1>6. Len(vs) = Len(ms)
  <2>1. vs \in [1..Len(ms) -> {vs[i] : i \in 1..Len(ms)}]
    BY <1>2, <1>3
  <2>2. vs \in Seq({vs[i] : i \in 1..Len(ms)})
    BY <1>3, <2>1, SeqDef
  <2>3. Len(vs) \in Nat /\ 1..Len(vs) = 1..Len(ms)
    BY <1>5, <2>2, LenProperties
  <2>4. QED
    BY <1>3, <2>3
<1>7. QED
  BY <1>3, <1>4, <1>5, <1>6 DEF Others

\* Without one of them they are still in order.
LEMMA RemovedIsRising ==
  ASSUME NEW ms \in Measurements, Rising(ms), NEW i \in 1..Len(ms), Len(ms) >= 2
  PROVE  /\ RemoveAt(ms, i) \in Measurements /\ Rising(RemoveAt(ms, i))
         /\ Len(RemoveAt(ms, i)) = Len(ms) - 1
         /\ \A k \in 1..Len(ms) - 1 : RemoveAt(ms, i)[k] = IF k < i THEN ms[k] ELSE ms[k + 1]
<1>1. PICK n, rs : n = Len(ms) /\ rs = RemoveAt(ms, i)
  OBVIOUS
<1>2. /\ n \in Nat /\ i \in 1..n
      /\ rs \in Measurements /\ Len(rs) = n - 1
      /\ \A k \in 1..n - 1 : rs[k] = IF k < i THEN ms[k] ELSE ms[k + 1]
  BY <1>1, RemoveAtIs, MeasurementsAre DEF Measurements
<1>3. ASSUME NEW j \in 1..n - 1, NEW k \in 1..n - 1, j < k
      PROVE  rs[j].workspaces < rs[k].workspaces
  <2>1. /\ j \in 1..n /\ k \in 1..n /\ j + 1 \in 1..n /\ k + 1 \in 1..n
        /\ j < k + 1 /\ j + 1 < k + 1 /\ (~(j < i) => ~(k < i))
    BY <1>2, <1>3
  <2>2. /\ ms[j].workspaces < ms[k].workspaces
        /\ ms[j].workspaces < ms[k + 1].workspaces
        /\ ms[j + 1].workspaces < ms[k + 1].workspaces
    BY <1>1, <1>3, <2>1 DEF Rising
  <2>3. CASE k < i
    <3>1. j < i
      BY <2>1, <2>3
    <3>2. QED
      BY <1>2, <2>2, <2>3, <3>1
  <2>4. CASE ~(k < i) /\ j < i
    BY <1>2, <2>2, <2>4
  <2>5. CASE ~(j < i)
    BY <1>2, <2>1, <2>2, <2>5
  <2>6. QED
    BY <2>3, <2>4, <2>5
<1>4. QED
  BY <1>1, <1>2, <1>3 DEF Rising

\* The counts are 1 up to as many as there are.
InSteps(ms) == \A i \in 1..Len(ms) : ms[i].workspaces = i

LEMMA StepsRise == ASSUME NEW ms, InSteps(ms), Len(ms) \in Nat PROVE Rising(ms)
BY DEF InSteps, Rising

\* The validation says where it was extrapolated, and finds no error on a line.
LEMMA HeldOut ==
  ASSUME NEW ms \in Measurements, InSteps(ms), NEW run, run.measurements = ms,
         "measurements" \in DOMAIN run, NEW vs \in HoldOut(run), NEW i \in DOMAIN vs
  PROVE  /\ vs[i].extrapolated <=> i \in {1, Len(vs)}
         /\ \A a, b \in Int : HeapOnLine(ms, a, b) => vs[i].error.num = 0
<1>1. PICK n : n = Len(ms)
  OBVIOUS
<1>2. /\ n \in Nat /\ n >= 4 /\ DOMAIN vs = 1..n /\ Len(vs) = n /\ i \in 1..n /\ Rising(ms)
      /\ \E m \in Fit([run EXCEPT !.measurements = RemoveAt(ms, i)]) : Validated(vs[i], ms, i, m)
  BY <1>1, StepsRise, MeasurementsAre, HoldOutIs
<1>3. PICK rs, less : rs = RemoveAt(ms, i) /\ less = [run EXCEPT !.measurements = RemoveAt(ms, i)]
  OBVIOUS
<1>4. PICK m \in Fit(less) : Validated(vs[i], ms, i, m)
  BY <1>2, <1>3
<1>5. /\ rs \in Measurements /\ Rising(rs) /\ Len(rs) = n - 1
      /\ \A k \in 1..n - 1 : rs[k] = IF k < i THEN ms[k] ELSE ms[k + 1]
  BY <1>1, <1>2, <1>3, RemovedIsRising
<1>6. less.measurements = rs
  BY <1>3
<1>7. Fitted(m, rs)
  BY <1>4, <1>5, <1>6, FitIs
<1>8. ASSUME NEW k \in 1..n PROVE ms[k].workspaces = k
  BY <1>1 DEF InSteps
<1>9. m.min = IF i = 1 THEN 2 ELSE 1
  <2>1. 1 \in 1..n - 1 /\ (1 < i <=> i # 1) /\ 1 \in 1..n /\ 1 + 1 \in 1..n /\ 1 + 1 = 2
    BY <1>2
  <2>2. rs[1].workspaces = IF i = 1 THEN 2 ELSE 1
    BY <1>5, <1>8, <2>1
  <2>3. QED
    BY <1>7, <2>2 DEF Fitted
<1>10. m.max = IF i = n THEN n - 1 ELSE n
  <2>1. /\ n - 1 \in 1..n - 1 /\ (n - 1 < i <=> i = n) /\ n - 1 \in 1..n /\ n \in 1..n
        /\ (n - 1) + 1 = n
    BY <1>2
  <2>2. rs[n - 1].workspaces = IF i = n THEN n - 1 ELSE n
    BY <1>5, <1>8, <2>1
  <2>3. QED
    BY <1>5, <1>7, <2>2 DEF Fitted
<1>11. vs[i].extrapolated <=> i \in {1, Len(vs)}
  <2>1. vs[i].extrapolated <=> i < m.min \/ i > m.max
    BY <1>2, <1>4, <1>8 DEF Validated
  <2>2. (i < (IF i = 1 THEN 2 ELSE 1) \/ i > (IF i = n THEN n - 1 ELSE n)) <=> i \in {1, n}
    BY <1>2
  <2>3. QED
    BY <1>2, <1>9, <1>10, <2>1, <2>2
<1>12. ASSUME NEW a \in Int, NEW b \in Int, HeapOnLine(ms, a, b)
       PROVE  vs[i].error.num = 0
  <2>1. HeapOnLine(rs, a, b)
    <3>1. ASSUME NEW k \in 1..n - 1 PROVE rs[k].heap = a + b * rs[k].workspaces
      <4>1. k \in 1..n /\ k + 1 \in 1..n
        BY <1>2
      <4>2. ms[k].heap = a + b * ms[k].workspaces /\ ms[k + 1].heap = a + b * ms[k + 1].workspaces
        BY <1>1, <1>12, <4>1 DEF HeapOnLine
      <4>3. QED
        BY <1>5, <4>2
    <3>2. QED
      BY <1>5, <3>1 DEF HeapOnLine
  <2>2. PICK v : v = ms[i].heap
    OBVIOUS
  <2>3. v \in Int /\ v = a + b * ms[i].workspaces /\ ms[i].workspaces \in Int
    BY <1>1, <1>2, <1>12, <2>2, MeasurementsAre DEF HeapOnLine
  <2>4. Exactly(OnLine(m.heap, ms[i].workspaces), v)
    BY <1>5, <1>7, <2>1, <2>3, FitOnLine
  <2>5. RelativeError(v, OnLine(m.heap, ms[i].workspaces)).num = 0
    BY <2>3, <2>4, RelativeErrorIsNone
  <2>6. QED
    BY <1>4, <2>2, <2>5 DEF Validated
<1>13. QED
  BY <1>11, <1>12

\* The run of a sweep: one measurement for each count, at what it cost.
SweptIs(ms, active) ==
  /\ active = InPhase(samples, "active") /\ ms = SweptRun.measurements
  /\ active \in Seq(Samples) /\ ms \in Measurements /\ InSteps(ms)
  /\ Len(ms) <= Peak
  /\ CleanlyActive => \A i \in 1..Len(ms) : ms[i].heap = ActiveCost(i)

LEMMA SweptInSteps ==
  ASSUME SweepInv, ActiveInTurn PROVE \E ms, active : SweptIs(ms, active)
<1>1. PICK active, n : active = InPhase(samples, "active") /\ n = Activated
  OBVIOUS
<1>2. n \in Nat /\ n <= Peak
  BY <1>1, SweepAssumption DEF SweepInv, SweepTypeOK, Activated
<1>3. /\ active \in Seq(Samples) /\ Len(active) = n /\ DOMAIN active = 1..n
      /\ \A k \in 1..n : /\ active[k] \in Samples /\ active[k].workspaces = k
                         /\ (CleanlyActive => active[k].goroutines = ActiveCost(k))
  BY <1>1, LenProperties, ElementOfSeq DEF ActiveInTurn, InTurn
<1>4. PICK ms : ms = [i \in 1..n |-> [workspaces |-> active[i].workspaces,
                                      heap |-> active[i].goroutines, process |-> 0]]
  OBVIOUS
<1>5. ms = SweptRun.measurements
  BY <1>1, <1>3, <1>4 DEF SweptRun
<1>6. ms \in Measurements /\ Len(ms) = n
  <2>1. ms \in [1..n -> [workspaces : Int, heap : Int, process : Int]]
    BY <1>3, <1>4 DEF Samples
  <2>2. ms \in Seq([workspaces : Int, heap : Int, process : Int])
    BY <1>2, <2>1, FunctionIsSeq
  <2>3. Len(ms) \in Nat /\ 1..Len(ms) = 1..n
    BY <2>1, <2>2, LenProperties
  <2>4. QED
    BY <1>2, <2>2, <2>3 DEF Measurements
<1>7. InSteps(ms) /\ (CleanlyActive => \A i \in 1..Len(ms) : ms[i].heap = ActiveCost(i))
  BY <1>3, <1>4, <1>6 DEF InSteps
<1>8. QED
  BY <1>1, <1>2, <1>3, <1>5, <1>6, <1>7 DEF SweptIs

\* A curve of which each value is in the middle of its neighbours is a line.
LEMMA CurveIsLine ==
  ASSUME SweepTypeOK, IsLine
  PROVE  \E a, b \in Int : \A k \in 1..Peak : curve[k] = a + b * k
<1>1. PICK a, b : b = curve[2] - curve[1] /\ a = curve[1] - (curve[2] - curve[1])
  OBVIOUS
<1>2. /\ Peak \in Nat /\ Peak >= 2 /\ \A k \in 1..Peak : curve[k] \in Int
      /\ \A k \in 2..Peak - 1 : 2 * curve[k] = curve[k - 1] + curve[k + 1]
  BY SweepAssumption DEF SweepTypeOK, IsLine
<1>3. a \in Int /\ b \in Int /\ curve[1] = a + b /\ curve[2] = a + 2 * b
  BY <1>1, <1>2
<1> DEFINE G == {n \in Nat : n + 2 <= Peak => /\ curve[n + 1] = a + b * (n + 1)
                                              /\ curve[n + 2] = a + b * (n + 2)}
<1>4. 0 \in G
  <2>1. b * (0 + 1) = b /\ b * (0 + 2) = 2 * b
    BY <1>3
  <2>2. QED
    BY <1>3, <2>1
<1>5. ASSUME NEW n \in Nat, n \in G PROVE n + 1 \in G
  <2> SUFFICES ASSUME (n + 1) + 2 <= Peak
               PROVE  /\ curve[(n + 1) + 1] = a + b * ((n + 1) + 1)
                      /\ curve[(n + 1) + 2] = a + b * ((n + 1) + 2)
    OBVIOUS
  <2>1. /\ curve[n + 1] = a + b * (n + 1) /\ curve[n + 2] = a + b * (n + 2)
        /\ (n + 1) + 1 = n + 2 /\ (n + 1) + 2 = n + 3
    BY <1>2, <1>5
  <2>2. n + 2 \in 2..Peak - 1 /\ (n + 2) - 1 = n + 1 /\ (n + 2) + 1 = n + 3 /\ n + 3 \in 1..Peak
    BY <1>2
  <2>3. 2 * curve[n + 2] = curve[n + 1] + curve[n + 3] /\ curve[n + 3] \in Int
    BY <1>2, <2>2
  <2>4. 2 * (a + b * (n + 2)) - (a + b * (n + 1)) = a + b * (n + 3)
    BY <1>3
  <2>5. PICK u, v, w : u = a + b * (n + 1) /\ v = a + b * (n + 2) /\ w = a + b * (n + 3)
    OBVIOUS
  <2>6. u \in Int /\ v \in Int /\ w \in Int
    BY <1>3, <2>5
  <2>7. curve[n + 3] = w
    BY <2>1, <2>3, <2>4, <2>5, <2>6
  <2>8. QED
    BY <2>1, <2>5, <2>7
<1>6. \A n \in Nat : n \in G
  <2> HIDE DEF G
  <2>1. QED
    BY <1>4, <1>5, UpToInduction
<1>7. ASSUME NEW k \in 1..Peak PROVE curve[k] = a + b * k
  <2>1. CASE k = 1
    BY <1>3, <2>1
  <2>2. CASE k # 1
    <3>1. k - 2 \in Nat /\ (k - 2) + 2 <= Peak /\ (k - 2) + 2 = k
      BY <1>2, <2>2
    <3>2. QED
      BY <1>6, <3>1
  <2>3. QED
    BY <2>1, <2>2
<1>8. QED
  BY <1>3, <1>7

LEMMA CostIsLine ==
  ASSUME SweepTypeOK, IsLine
  PROVE  \E a, b \in Int : \A k \in 1..Peak : ActiveCost(k) = a + b * k
<1>1. PICK a \in Int, b \in Int : \A k \in 1..Peak : curve[k] = a + b * k
  BY CurveIsLine
<1>2. Work \in Int /\ Peak \in Nat
  BY SweepAssumption
<1>3. ASSUME NEW k \in 1..Peak PROVE ActiveCost(k) = a + (b + Work) * k
  <2>1. k \in Int /\ (a + b * k) + Work * k = a + (b + Work) * k
    BY <1>2
  <2>2. QED
    BY <1>1, <2>1 DEF ActiveCost
<1>4. b + Work \in Int
  BY <1>2
<1>5. QED
  BY <1>3, <1>4

LEMMA PointsOfSamples ==
  ASSUME NEW active \in Seq(Samples) PROVE PointsOf(active) \in Points
<1>1. PICK n : n = Len(active)
  OBVIOUS
<1>2. n \in Nat /\ DOMAIN active = 1..n /\ \A i \in 1..n : active[i] \in Samples
  BY <1>1, LenProperties, ElementOfSeq
<1>3. PICK points : points = PointsOf(active)
  OBVIOUS
<1>4. points \in [1..n -> [workspaces : Int, value : Int]]
  BY <1>2, <1>3 DEF PointsOf, Samples
<1>5. points \in Seq([workspaces : Int, value : Int])
  <2>1. n \in Nat
    BY <1>2
  <2>2. QED
    BY <1>4, <2>1, FunctionIsSeq
<1>6. QED
  BY <1>3, <1>5 DEF Points

\* On a line without transients, what was measured lies on the line of the cost.
LEMMA SweptOnLine ==
  ASSUME SweepInv, NEW ms, NEW active, SweptIs(ms, active), IsLine, CleanlyActive
  PROVE  \E a, b \in Int : /\ HeapOnLine(ms, a, b)
                           /\ \A k \in 1..Peak : ActiveCost(k) = a + b * k
<1>1. PICK a \in Int, b \in Int : \A k \in 1..Peak : ActiveCost(k) = a + b * k
  BY CostIsLine DEF SweepInv
<1>2. Len(ms) \in Nat /\ Peak \in Nat /\ Len(ms) <= Peak
  BY MeasurementsAre, SweepAssumption DEF SweptIs
<1>3. ASSUME NEW i \in 1..Len(ms) PROVE ms[i].heap = a + b * ms[i].workspaces
  <2>1. i \in 1..Peak
    BY <1>2
  <2>2. QED
    BY <1>1, <2>1 DEF SweptIs, InSteps
<1>4. QED
  BY <1>1, <1>3 DEF HeapOnLine

\* What the model predicts, inside the counts it was fitted to, is what was seen.
LEMMA PredictionsHold ==
  ASSUME SweepInv, NEW ms, NEW active, SweptIs(ms, active), IsLine, CleanlyActive,
         NEW m \in Fit(SweptRun), NEW w \in 0..(Peak + 1),
         NEW p \in Predict(m, Shape(SweptRun), w), ~p.extrapolated
  PROVE  Same(p.heap, Ratio(curve[w] + Work * w, 1))
<1>1. ms \in Measurements /\ InSteps(ms) /\ Rising(ms) /\ Len(ms) \in Nat /\ Len(ms) <= Peak
  BY MeasurementsAre, StepsRise DEF SweptIs
<1>2. Fitted(m, ms)
  BY <1>1, FitIs DEF SweptIs
<1>3. m.min = 1 /\ m.max = Len(ms)
  BY <1>1, <1>2 DEF Fitted, InSteps
<1>4. p.heap = OnLine(m.heap, w) /\ ~(w > m.max \/ w < m.min)
  <2>1. p.heap = OnLine(m.heap, w)
    BY DEF Predict
  <2>2. PICK e, r, f, high, low :
          p = [heap |-> e, resident |-> r, extrapolated |-> w > high \/ w < low, factor |-> f]
          /\ high = m.max /\ low = m.min
    BY DEF Predict
  <2>3. ~(w > high \/ w < low)
    BY <2>2, Zenon
  <2>4. QED
    BY <2>1, <2>2, <2>3
<1>5. w \in 1..Peak /\ w \in Int
  BY <1>1, <1>3, <1>4, SweepAssumption
<1>6. PICK a \in Int, b \in Int : /\ HeapOnLine(ms, a, b)
                                  /\ \A k \in 1..Peak : ActiveCost(k) = a + b * k
  BY SweptOnLine
<1>7. PICK v : v = a + b * w
  OBVIOUS
<1>8. v \in Int /\ curve[w] + Work * w = v
  BY <1>5, <1>6, <1>7 DEF ActiveCost
<1>9. PICK d \in Nat : OnLine(m.heap, w) = [num |-> d * v, den |-> d]
  <2>1. Exactly(OnLine(m.heap, w), a + b * w)
    BY <1>1, <1>2, <1>5, <1>6, FitOnLine
  <2>2. QED
    BY <1>7, <2>1 DEF Exactly
<1>10. Ratio(v, 1) = [num |-> v, den |-> 1] /\ (d * v) * 1 = v * d
  BY <1>8 DEF Ratio
<1>11. QED
  BY <1>4, <1>8, <1>9, <1>10 DEF Same

\* The slope that is reported and the slope that is fitted are one, for any
\* samples; on a line every held-out count is predicted exactly, and the ends
\* are those that were extrapolated to (report.go:240-263; model.go:407-462).
THEOREM FitIsAlwaysTheTrend == SweepSpec => []FitIsTheTrend
<1>1. SweepInv /\ ActiveInTurn => FitIsTheTrend
  <2> SUFFICES ASSUME SweepInv, ActiveInTurn PROVE FitIsTheTrend
    OBVIOUS
  <2>1. PICK ms, active : SweptIs(ms, active)
    BY SweptInSteps
  <2>2. FitsAgree(PointsOf(InPhase(samples, "active")))
    BY <2>1, PointsOfSamples, FitsAlwaysAgree DEF SweptIs
  <2>3. /\ ms \in Measurements /\ InSteps(ms) /\ SweptRun.measurements = ms
        /\ "measurements" \in DOMAIN SweptRun
    BY <2>1 DEF SweptIs, SweptRun
  <2>4. ASSUME NEW vs \in HoldOut(SweptRun), NEW i \in DOMAIN vs
        PROVE  /\ vs[i].extrapolated <=> i \in {1, Len(vs)}
               /\ IsLine /\ (\A j \in Of("active") : Clean(j)) => vs[i].error.num = 0
    <3>1. /\ vs[i].extrapolated <=> i \in {1, Len(vs)}
          /\ \A a, b \in Int : HeapOnLine(ms, a, b) => vs[i].error.num = 0
      BY <2>3, HeldOut
    <3>2. IsLine /\ CleanlyActive => \E a, b \in Int : HeapOnLine(ms, a, b)
      BY <2>1, SweptOnLine
    <3>3. QED
      BY <3>1, <3>2 DEF CleanlyActive
  <2>5. ASSUME NEW m \in Fit(SweptRun), NEW w \in 0..(Peak + 1),
               NEW p \in Predict(m, Shape(SweptRun), w),
               IsLine /\ (\A j \in Of("active") : Clean(j)) /\ ~p.extrapolated
        PROVE  Same(p.heap, Ratio(curve[w] + Work * w, 1))
    BY <2>1, <2>5, PredictionsHold DEF CleanlyActive
  <2>6. QED
    BY <2>2, <2>4, <2>5 DEF FitIsTheTrend, FitsAgree
<1>2. QED
  BY InitActive, ActiveGoesOn, SweepInvariant, <1>1, PTL DEF SweepSpec


-----------------------------------------------------------------------------
(* The exit status, for any steps and capabilities. *)

Steps == ToSet(FastSteps \o SlowSteps)
StepResults == [step : Steps, outcome : {"pass", "FAIL", "could not run"},
                missing : Capabilities \cup {""}]

SaysWhatIsMissing(entry) == entry.outcome = "could not run" => entry.missing \in Capabilities

\* Results are of the steps of the plan, one by one, and say what was missing.
ResultsFollowPlan ==
  /\ results \in Seq(StepResults)
  /\ \A i \in DOMAIN results :
       /\ results[i].step = plan[i]
       /\ SaysWhatIsMissing(results[i])
  /\ stage \in {"needs", "running"} => Len(results) < Len(plan)
  /\ stage \in {"report", "exited"} => Len(results) = Len(plan)

\* Whatever a running step needs is asserted, so that none of its tests skips.
\* The exit status is that of the results, or that of a report not written.
VerifyInv ==
  /\ plan \in Seq(Steps) /\ plan # <<>>
  /\ stage \in {"needs", "running", "report", "exited"} /\ need \in Nat \ {0}
  /\ ResultsFollowPlan
  /\ stage = "running" => asserted = AssertedNames(Current)
  /\ skips = {}
  /\ stage # "exited" => report = "old"
  /\ stage = "exited" => \/ code = StatusFor(results) /\ report = StatusName[code]
                         \/ code = ExitFail /\ report = "old"

LEMMA SeqOfItsElements ==
  ASSUME NEW S, NEW s \in Seq(S)
  PROVE  s \in Seq(ToSet(s)) /\ ToSet(s) = {s[i] : i \in 1..Len(s)}
<1>1. Len(s) \in Nat /\ DOMAIN s = 1..Len(s) /\ s \in [1..Len(s) -> S]
  BY LenProperties
<1>2. s \in [1..Len(s) -> ToSet(s)]
  BY <1>1 DEF ToSet
<1> QED
  BY <1>1, <1>2, SeqDef DEF ToSet

LEMMA InitVerify == VerifyInit => VerifyInv
<1> SUFFICES ASSUME VerifyInit PROVE VerifyInv
  OBVIOUS
<1> DEFINE all == ToSet(FastSteps) \cup ToSet(SlowSteps)
<1>a. FastSteps \in Seq(all) /\ SlowSteps \in Seq(all) /\ FastSteps # <<>>
  BY VerifyAssumption, SeqMonotonic
<1>b. /\ Len(FastSteps) \in Nat \ {0} /\ Len(SlowSteps) \in Nat
      /\ DOMAIN FastSteps = 1..Len(FastSteps) /\ DOMAIN SlowSteps = 1..Len(SlowSteps)
  BY <1>a, EmptySeq, LenProperties
<1>c. /\ FastSteps \o SlowSteps \in Seq(all)
      /\ Len(FastSteps \o SlowSteps) = Len(FastSteps) + Len(SlowSteps)
      /\ \A i \in 1..Len(FastSteps) + Len(SlowSteps) :
           (FastSteps \o SlowSteps)[i] = IF i <= Len(FastSteps) THEN FastSteps[i]
                                         ELSE SlowSteps[i - Len(FastSteps)]
  BY <1>a, ConcatProperties
<1>d. DOMAIN (FastSteps \o SlowSteps) = 1..Len(FastSteps) + Len(SlowSteps)
  BY <1>c, LenProperties
<1>1. FastSteps \in Seq(Steps) /\ FastSteps \o SlowSteps \in Seq(Steps) /\ Len(FastSteps) > 0
      /\ Len(FastSteps \o SlowSteps) > 0
  <2>1. FastSteps \o SlowSteps \in Seq(Steps)
    BY <1>c, SeqOfItsElements DEF Steps
  <2>2. ToSet(FastSteps) \subseteq Steps
    BY <1>b, <1>c, <1>d DEF Steps, ToSet
  <2>3. FastSteps \in Seq(Steps)
    BY <2>2, VerifyAssumption, SeqMonotonic
  <2> QED
    BY <1>b, <1>c, <2>1, <2>3
<1>2. plan \in Seq(Steps) /\ Len(plan) > 0
  BY <1>1 DEF VerifyInit
<1> QED
  BY <1>2 DEF VerifyInit, VerifyInv, ResultsFollowPlan

\* The step that is next is one of the plan, and its needs are capabilities.
LEMMA CurrentIsNext ==
  ASSUME VerifyInv, stage \in {"needs", "running"}
  PROVE  /\ Current \in Steps /\ NeedsOf[Current] \in Seq(Capabilities)
         /\ Len(results) \in Nat /\ Current = plan[Len(results) + 1]
<1>1. /\ Len(plan) \in Nat /\ DOMAIN plan = 1..Len(plan) /\ Len(results) \in Nat
      /\ Len(results) < Len(plan) /\ plan \in Seq(Steps)
  BY LenProperties DEF VerifyInv, ResultsFollowPlan
<1>2. Current = plan[Len(results) + 1] /\ Len(results) + 1 \in 1..Len(plan)
  BY <1>1 DEF Current
<1>3. Current \in Steps
  BY <1>1, <1>2, ElementOfSeq
<1> QED
  BY <1>1, <1>2, <1>3, VerifyAssumption DEF Steps

\* What Record appends is the result of the step that is next.
LEMMA RecordAppends ==
  ASSUME VerifyInv, stage \in {"needs", "running"},
         NEW outcome \in {"pass", "FAIL", "could not run"}, NEW missing \in Capabilities \cup {""},
         outcome = "could not run" => missing \in Capabilities,
         Record(outcome, missing)
  PROVE  \E entry \in StepResults :
           /\ results' = Append(results, entry) /\ entry.step = Current
           /\ SaysWhatIsMissing(entry)
<1>1. Current \in Steps
  BY CurrentIsNext
<1>2. [step |-> Current, outcome |-> outcome, missing |-> missing] \in StepResults
  BY <1>1 DEF StepResults
<1> QED
  BY <1>2 DEF Record, SaysWhatIsMissing

LEMMA AppendKeeps ==
  \A entry \in StepResults :
    /\ VerifyInv /\ stage \in {"needs", "running"} /\ UNCHANGED plan
    /\ results' = Append(results, entry) /\ entry.step = Current
    /\ SaysWhatIsMissing(entry)
    /\ stage' = IF Len(results') = Len(plan) THEN "report" ELSE "needs"
    => ResultsFollowPlan'
<1>0. SUFFICES ASSUME NEW entry \in StepResults,
                      VerifyInv, stage \in {"needs", "running"}, UNCHANGED plan,
                      results' = Append(results, entry), entry.step = Current,
                      SaysWhatIsMissing(entry),
                      stage' = IF Len(results') = Len(plan) THEN "report" ELSE "needs"
               PROVE  ResultsFollowPlan'
  OBVIOUS
<1>7. /\ plan' = plan /\ entry.step = Current
      /\ SaysWhatIsMissing(entry)
  BY <1>0
<1>1. /\ Len(results) \in Nat /\ Current = plan[Len(results) + 1] /\ Len(results) < Len(plan)
      /\ results \in Seq(StepResults) /\ Len(plan) \in Nat
  BY <1>0, CurrentIsNext, LenProperties DEF VerifyInv, ResultsFollowPlan
<1>2. results' = Append(results, entry)
  BY <1>0
<1>3. /\ Len(results') = Len(results) + 1 /\ results'[Len(results) + 1] = entry
      /\ \A i \in 1..Len(results) : results'[i] = results[i]
      /\ results' \in Seq(StepResults)
  BY <1>1, <1>2, AppendProperties
<1>4. DOMAIN results' = 1..Len(results) + 1 /\ DOMAIN results = 1..Len(results)
  BY <1>1, <1>3, LenProperties
<1>5. ASSUME NEW i \in 1..Len(results) + 1
      PROVE  /\ results'[i].step = plan[i]
             /\ SaysWhatIsMissing(results'[i])
  <2>1. CASE i = Len(results) + 1
    <3>1. results'[i] = entry /\ plan[i] = Current
      BY <1>1, <1>3, <2>1
    <3>2. entry.step = Current
      BY <1>7
    <3>3. SaysWhatIsMissing(entry)
      BY <1>7
    <3>4. results'[i].step = plan[i]
      BY <3>1, <3>2
    <3> QED
      BY <3>1, <3>3, <3>4
  <2>2. CASE i \in 1..Len(results)
    BY <1>0, <1>3, <1>4, <2>2 DEF VerifyInv, ResultsFollowPlan
  <2> QED
    BY <1>1, <2>1, <2>2
<1>6. /\ stage' \in {"needs", "running"} => Len(results') < Len(plan)
      /\ stage' \in {"report", "exited"} => Len(results') = Len(plan)
  <2>1. CASE Len(results') = Len(plan)
    BY <1>0, <2>1
  <2>2. CASE Len(results') # Len(plan)
    <3>1. Len(results') < Len(plan)
      BY <1>1, <1>3, <2>2
    <3> QED
      BY <1>0, <3>1
  <2> QED
    BY <2>1, <2>2
<1> QED
  BY <1>3, <1>4, <1>5, <1>6, <1>7 DEF ResultsFollowPlan

LEMMA RecordMovesOn ==
  \A outcome, missing :
    Record(outcome, missing) => need' \in Nat \ {0} /\ stage' \in {"needs", "report"}
<1> SUFFICES ASSUME NEW outcome, NEW missing, Record(outcome, missing)
             PROVE  need' \in Nat \ {0} /\ stage' \in {"needs", "report"}
  OBVIOUS
<1>1. need' = 1 /\ stage' = IF Len(results') = Len(plan) THEN "report" ELSE "needs"
  BY DEF Record
<1> QED
  BY <1>1

LEMMA RecordKeeps ==
  \A outcome \in {"pass", "FAIL", "could not run"}, missing \in Capabilities \cup {""} :
    /\ VerifyInv /\ stage \in {"needs", "running"} /\ Record(outcome, missing) /\ UNCHANGED plan
    /\ outcome = "could not run" => missing \in Capabilities
    => ResultsFollowPlan' /\ stage' \in {"needs", "report"} /\ need' \in Nat \ {0}
<1>0. SUFFICES ASSUME NEW outcome \in {"pass", "FAIL", "could not run"},
                      NEW missing \in Capabilities \cup {""},
                      VerifyInv, stage \in {"needs", "running"},
                      Record(outcome, missing), UNCHANGED plan,
                      outcome = "could not run" => missing \in Capabilities
               PROVE  ResultsFollowPlan' /\ stage' \in {"needs", "report"} /\ need' \in Nat \ {0}
  OBVIOUS
<1>1. need' = 1 /\ stage' = IF Len(results') = Len(plan) THEN "report" ELSE "needs"
  BY <1>0 DEF Record
<1> QED
  BY <1>0, <1>1, RecordAppends, RecordMovesOn, AppendKeeps

LEMMA CheckKeeps == VerifyInv /\ CheckNeed => VerifyInv'
<1> SUFFICES ASSUME VerifyInv, CheckNeed PROVE VerifyInv'
  OBVIOUS
<1> DEFINE capability == NeedsOf[Current][need]
<1>0. NeedsOf[Current] \in Seq(Capabilities) /\ need \in 1..Len(NeedsOf[Current])
  <2>1. NeedsOf[Current] \in Seq(Capabilities) /\ need \in Nat \ {0}
        /\ need <= Len(NeedsOf[Current])
    BY CurrentIsNext DEF CheckNeed, VerifyInv
  <2>2. Len(NeedsOf[Current]) \in Nat
    BY <2>1, LenProperties
  <2> QED
    BY <2>1, <2>2
<1>1. stage = "needs" /\ UNCHANGED <<plan, asserted, report, code, available, changes, skips>>
      /\ capability \in Capabilities
  BY <1>0, ElementOfSeq DEF CheckNeed
<1>2. CASE capability \in available
  <2>1. need' = need + 1 /\ UNCHANGED <<results, stage>>
    BY <1>2 DEF CheckNeed
  <2>2. need' \in Nat \ {0}
    BY <1>0, <2>1
  <2> QED
    BY <1>1, <2>1, <2>2 DEF VerifyInv, ResultsFollowPlan
<1>3. CASE capability \notin available
  <2>1. Record("could not run", capability)
    BY <1>3 DEF CheckNeed
  <2>2. ResultsFollowPlan' /\ stage' \in {"needs", "report"} /\ need' \in Nat \ {0}
    BY <1>1, <2>1, RecordKeeps
  <2> QED
    BY <1>1, <2>2 DEF VerifyInv
<1> QED
  BY <1>2, <1>3

LEMMA SetenvKeeps == VerifyInv /\ (Setenv \/ SetenvFails) => VerifyInv'
<1> SUFFICES ASSUME VerifyInv, Setenv \/ SetenvFails PROVE VerifyInv'
  OBVIOUS
<1>1. CASE Setenv
  BY <1>1 DEF Setenv, VerifyInv, ResultsFollowPlan, Current, AssertedNames
<1>2. CASE SetenvFails
  <2>1. ResultsFollowPlan' /\ stage' \in {"needs", "report"} /\ need' \in Nat \ {0}
    BY <1>2, RecordKeeps DEF SetenvFails
  <2> QED
    BY <1>2, <2>1 DEF SetenvFails, VerifyInv
<1> QED
  BY <1>1, <1>2

\* A test that misses a capability fails, as its step had asserted it.
LEMMA RunKeeps == VerifyInv /\ RunStep => VerifyInv'
<1> SUFFICES ASSUME VerifyInv, RunStep PROVE VerifyInv'
  OBVIOUS
<1>1. stage = "running" /\ UNCHANGED <<plan, report, code, available, changes>>
  BY DEF RunStep
<1>2. Unreachable(Current) \ asserted = {}
  BY <1>1 DEF VerifyInv, AssertedNames, Unreachable
<1>3. skips' = {}
  BY <1>2 DEF RunStep, VerifyInv
<1>4. PICK outcome \in {"pass", "FAIL"} : Record(outcome, "")
  BY DEF RunStep
<1>5. ResultsFollowPlan' /\ stage' \in {"needs", "report"} /\ need' \in Nat \ {0}
  BY <1>1, <1>4, RecordKeeps
<1> QED
  BY <1>1, <1>3, <1>5 DEF VerifyInv

LEMMA ReportKeeps == VerifyInv /\ (WriteReport \/ WriteReportFails) => VerifyInv'
BY DEF WriteReport, WriteReportFails, VerifyInv, ResultsFollowPlan, StatusFor, Outcomes

\* A failure outranks a step that could not run, and that one a pass.
LEMMA StatusRanks ==
  ASSUME NEW rs
  PROVE  /\ ExitFail # ExitPass /\ ExitFail # ExitCouldNotRun
         /\ StatusFor(rs) = ExitPass =>
              \A i \in DOMAIN rs : rs[i].outcome # "FAIL" /\ rs[i].outcome # "could not run"
         /\ StatusFor(rs) = ExitCouldNotRun =>
              /\ \A i \in DOMAIN rs : rs[i].outcome # "FAIL"
              /\ \E i \in DOMAIN rs : rs[i].outcome = "could not run"
<1>1. ExitPass # ExitCouldNotRun /\ ExitFail # ExitPass /\ ExitFail # ExitCouldNotRun
  BY DEF ExitPass, ExitFail, ExitCouldNotRun
<1>2. \A o : o \in Outcomes(rs) <=> \E i \in DOMAIN rs : rs[i].outcome = o
  BY DEF Outcomes
<1>3. ASSUME StatusFor(rs) = ExitPass
      PROVE  ~("FAIL" \in Outcomes(rs)) /\ ~("could not run" \in Outcomes(rs))
  BY <1>1, <1>3, Zenon DEF StatusFor
<1>4. ASSUME StatusFor(rs) = ExitCouldNotRun
      PROVE  ~("FAIL" \in Outcomes(rs)) /\ "could not run" \in Outcomes(rs)
  BY <1>1, <1>4, Zenon DEF StatusFor
<1> QED
  BY <1>1, <1>2, <1>3, <1>4

LEMMA StatusIsTrue == VerifyInv => ZeroMeansAllRan
<1>0. SUFFICES ASSUME VerifyInv, stage = "exited" PROVE ZeroMeansAllRan
  BY DEF ZeroMeansAllRan
<1>1. /\ results \in Seq(StepResults) /\ plan \in Seq(Steps) /\ Len(results) = Len(plan)
      /\ \A i \in DOMAIN results : results[i].step = plan[i]
  BY <1>0 DEF VerifyInv, ResultsFollowPlan
<1>2. [i \in DOMAIN results |-> results[i].step] = plan
  <2>1. /\ DOMAIN results = 1..Len(plan)
        /\ plan = [i \in 1..Len(plan) |-> plan[i]]
    BY <1>1, LenProperties
  <2> QED
    BY <1>1, <2>1
<1>3. \A i \in DOMAIN results :
        /\ results[i].outcome \in {"pass", "FAIL", "could not run"}
        /\ SaysWhatIsMissing(results[i])
  <2>1. \A i \in DOMAIN results : results[i] \in StepResults
    BY <1>1, LenProperties, ElementOfSeq
  <2> QED
    BY <1>0, <2>1 DEF VerifyInv, ResultsFollowPlan, StepResults
<1>4. \/ code = StatusFor(results) /\ report = StatusName[code]
      \/ code = ExitFail /\ report = "old"
  BY <1>0 DEF VerifyInv
<1>5. code = ExitPass =>
        \A i \in DOMAIN results :
          results[i].outcome # "FAIL" /\ results[i].outcome # "could not run"
  BY <1>4, StatusRanks
<1>6. code = ExitCouldNotRun =>
        /\ \A i \in DOMAIN results : results[i].outcome # "FAIL"
        /\ \E i \in DOMAIN results : results[i].outcome = "could not run"
  BY <1>4, StatusRanks
<1>7. skips = {}
  BY <1>0 DEF VerifyInv
<1> QED
  BY <1>2, <1>3, <1>4, <1>5, <1>6, <1>7 DEF SaysWhatIsMissing, ZeroMeansAllRan

\* The exit status of a verification says what happened, for any steps, whatever
\* capabilities they need and however those come and go (verify.go:40-49).
THEOREM StatusSaysWhatRan == VerifySpec => []ZeroMeansAllRan
<1>1. VerifyInv /\ [VerifyNext]_verifyVars => VerifyInv'
  <2> SUFFICES ASSUME VerifyInv, [VerifyNext]_verifyVars PROVE VerifyInv'
    OBVIOUS
  <2>1. CASE UNCHANGED verifyVars
    BY <2>1 DEF verifyVars, VerifyInv, ResultsFollowPlan, Current, AssertedNames, StatusFor,
                Outcomes
  <2>2. ASSUME NEW c \in Capabilities, Changes(c) PROVE VerifyInv'
    BY <2>2 DEF Changes, VerifyInv, ResultsFollowPlan, Current, AssertedNames, StatusFor, Outcomes
  <2> QED
    BY <2>1, <2>2, CheckKeeps, SetenvKeeps, RunKeeps, ReportKeeps DEF VerifyNext
<1> QED
  BY <1>1, InitVerify, StatusIsTrue, PTL DEF VerifySpec
=============================================================================
