---------------------------- MODULE SumTheorems ----------------------------
(***************************************************************************)
(* What SumFunction of the community modules computes: it is a fold over   *)
(* the indices in some order, so a change of one term changes the sum by   *)
(* that much.  The models add up purses, piles, shelves and counters with  *)
(* it, and the proofs that nothing is lost rest on these lemmas.           *)
(*                                                                         *)
(* The induction goes over the subsets of a finite set, in the form of a   *)
(* smallest counterexample (WFMin).                                        *)
(***************************************************************************)
EXTENDS Integers, FiniteSets, Functions, FiniteSetTheorems, WellFoundedInduction, TLAPS

\* The element a fold takes next.
Some(s) == CHOOSE x \in s : TRUE

\* g adds up F over every subset of t.
AddsUp(F, t, g) ==
    g = [s \in SUBSET t |-> IF s = {} THEN 0 ELSE F[Some(s)] + g[s \ {Some(s)}]]

\* A nonempty collection of subsets of a finite set has a smallest member.
LEMMA MinimalSubset ==
    ASSUME NEW S, IsFiniteSet(S), NEW T \in SUBSET (SUBSET S), T # {}
    PROVE  \E t \in T : \A u \in SUBSET t : u \in T => u = t
<1>1. IsWellFoundedOn(StrictSubsetOrdering(S), SUBSET S)
  BY FS_StrictSubsetOrderingWellFounded, FS_FiniteSubsetsOfFinite
<1>2. PICK t \in T : \A u \in T : ~(<<u, t>> \in StrictSubsetOrdering(S))
  BY <1>1, WFMin
<1>3. ASSUME NEW u \in SUBSET t, u \in T, u # t PROVE FALSE
  <2>1. <<u, t>> \in StrictSubsetOrdering(S)
    BY <1>3 DEF StrictSubsetOrdering
  <2> QED BY <1>2, <1>3, <2>1
<1> QED BY <1>3

\* Taking an element out of a nonempty set leaves a smaller one.
LEMMA SomeTaken ==
    ASSUME NEW s, s # {}
    PROVE  Some(s) \in s /\ s \ {Some(s)} \in SUBSET s /\ s \ {Some(s)} # s
BY DEF Some

\* One step of the recursion.
LEMMA AddsUpStep ==
    ASSUME NEW F, NEW t, NEW g, AddsUp(F, t, g)
    PROVE  /\ g[{}] = 0
           /\ \A s \in SUBSET t : s # {} => g[s] = F[Some(s)] + g[s \ {Some(s)}]
<1>1. ASSUME NEW s \in SUBSET t PROVE g[s] = IF s = {} THEN 0 ELSE F[Some(s)] + g[s \ {Some(s)}]
  BY DEF AddsUp
<1>2. {} \in SUBSET t
  OBVIOUS
<1>3. g[{}] = 0
  BY <1>1, <1>2
<1>4. ASSUME NEW s \in SUBSET t, s # {} PROVE g[s] = F[Some(s)] + g[s \ {Some(s)}]
  BY <1>1, <1>4
<1> QED BY <1>3, <1>4

\* Two such functions agree wherever both are defined.
LEMMA AddsUpOnce ==
    ASSUME NEW F, NEW S, IsFiniteSet(S), NEW t \in SUBSET S, NEW u \in SUBSET S,
           NEW g, NEW h, AddsUp(F, t, g), AddsUp(F, u, h)
    PROVE  \A s \in SUBSET (t \cap u) : g[s] = h[s]
<1>a. /\ g[{}] = 0 /\ h[{}] = 0
      /\ \A s \in SUBSET t : s # {} => g[s] = F[Some(s)] + g[s \ {Some(s)}]
      /\ \A s \in SUBSET u : s # {} => h[s] = F[Some(s)] + h[s \ {Some(s)}]
  BY AddsUpStep
<1> DEFINE T == {w \in SUBSET (t \cap u) : g[w] # h[w]}
<1> SUFFICES ASSUME T # {} PROVE FALSE
  OBVIOUS
<1>1. PICK m \in T : \A w \in SUBSET m : w \in T => w = m
  <2>1. T \in SUBSET (SUBSET S)
    OBVIOUS
  <2> HIDE DEF T
  <2> QED BY <2>1, MinimalSubset
<1>2. m \in SUBSET t /\ m \in SUBSET u /\ g[m] # h[m]
  OBVIOUS
<1>3. CASE m = {}
  BY <1>2, <1>3, <1>a
<1>4. CASE m # {}
  <2> DEFINE w == m \ {Some(m)}
  <2>1. w \in SUBSET m /\ w # m
    BY <1>4, SomeTaken
  <2>2. g[w] = h[w]
    BY <1>1, <2>1
  <2>3. g[m] = F[Some(m)] + g[w]
    BY <1>2, <1>4, <1>a, Zenon
  <2>4. h[m] = F[Some(m)] + h[w]
    BY <1>2, <1>4, <1>a, Zenon
  <2> QED BY <1>2, <2>2, <2>3, <2>4
<1> QED BY <1>3, <1>4

\* There is such a function on all subsets of a finite set.
LEMMA AddsUpExists ==
    ASSUME NEW F, NEW S, IsFiniteSet(S)
    PROVE  \E g : AddsUp(F, S, g)
<1> DEFINE T == {w \in SUBSET S : ~\E g : AddsUp(F, w, g)}
<1> SUFFICES ASSUME T # {} PROVE FALSE
  OBVIOUS
<1>1. PICK t \in T : \A w \in SUBSET t : w \in T => w = t
  <2>1. T \in SUBSET (SUBSET S)
    OBVIOUS
  <2> HIDE DEF T
  <2> QED BY <2>1, MinimalSubset
<1>2. \A w \in SUBSET t : w # t => \E g : AddsUp(F, w, g)
  BY <1>1
<1>3. t \in SUBSET S /\ ~\E g : AddsUp(F, t, g)
  OBVIOUS
<1> HIDE DEF T
<1> DEFINE Fn(w) == CHOOSE g : AddsUp(F, w, g)
           Val(w) == Fn(w)[w]
           Sum(s) == IF s = {} THEN 0 ELSE F[Some(s)] + Val(s \ {Some(s)})
           G == [s \in SUBSET t |-> Sum(s)]
<1>4. ASSUME NEW w \in SUBSET t, w # t PROVE AddsUp(F, w, Fn(w))
  BY <1>2, <1>4
<1> HIDE DEF Fn
<1>5. ASSUME NEW w \in SUBSET t, w # t PROVE Val(w) = Sum(w)
  <2>1. AddsUp(F, w, Fn(w))
    BY <1>4, <1>5
  <2>2. CASE w = {}
    BY <2>1, <2>2, AddsUpStep
  <2>3. CASE w # {}
    <3> DEFINE x == w \ {Some(w)}
    <3>1. x \in SUBSET w /\ x # w /\ x \in SUBSET t /\ x # t
      BY <1>5, <2>3, SomeTaken
    <3>2. AddsUp(F, x, Fn(x))
      BY <1>4, <3>1
    <3>3. Fn(w)[x] = Fn(x)[x]
      <4>1. w \in SUBSET S /\ x \in SUBSET S /\ x \in SUBSET (w \cap x)
        BY <1>3, <3>1
      <4> HIDE DEF x
      <4>2. \A s \in SUBSET (w \cap x) : Fn(w)[s] = Fn(x)[s]
        BY <2>1, <3>2, <4>1, AddsUpOnce
      <4> QED BY <4>1, <4>2
    <3>4. Fn(w)[w] = F[Some(w)] + Fn(w)[x]
      BY <2>1, <2>3, AddsUpStep
    <3> QED BY <2>3, <3>3, <3>4
  <2> QED BY <2>2, <2>3
<1>6. ASSUME NEW s \in SUBSET t, s # {} PROVE Val(s \ {Some(s)}) = G[s \ {Some(s)}]
  <2>1. s \ {Some(s)} \in SUBSET t /\ s \ {Some(s)} # t
    BY <1>6, SomeTaken
  <2> HIDE DEF Val, Sum
  <2> QED BY <1>5, <2>1
<1>7. \A s \in SUBSET t : Sum(s) = IF s = {} THEN 0 ELSE F[Some(s)] + G[s \ {Some(s)}]
  BY <1>6
<1>8. G = [s \in SUBSET t |-> IF s = {} THEN 0 ELSE F[Some(s)] + G[s \ {Some(s)}]]
  <2> HIDE DEF Sum
  <2> QED BY <1>7
<1>9. AddsUp(F, t, G)
  BY <1>8 DEF AddsUp
<1> QED BY <1>3, <1>9

\* The sum of a function is what such a function says of the whole domain.
LEMMA SumIsFold ==
    ASSUME NEW S, IsFiniteSet(S), NEW F, DOMAIN F = S
    PROVE  \E g : AddsUp(F, S, g) /\ SumFunction(F) = g[S]
<1>1. SumFunctionOnSet(F, S) = (CHOOSE g : AddsUp(F, S, g))[S]
  BY Zenon DEF SumFunctionOnSet, FoldFunctionOnSet, MapThenFoldSet, AddsUp, Some
<1>2. AddsUp(F, S, CHOOSE g : AddsUp(F, S, g))
  BY AddsUpExists
<1> QED BY <1>1, <1>2 DEF SumFunction

\* A property of the partial sums that holds of {} and is kept when an element
\* is added holds of the whole sum: the set P of the subsets it holds of.
LEMMA SubsetInduction ==
    ASSUME NEW S, IsFiniteSet(S), NEW P,
           \A s \in SUBSET S : (s = {} \/ s \ {Some(s)} \in P) => s \in P
    PROVE  SUBSET S \subseteq P
<1> DEFINE T == {w \in SUBSET S : w \notin P}
<1> SUFFICES ASSUME T # {} PROVE FALSE
  OBVIOUS
<1>1. PICK t \in T : \A w \in SUBSET t : w \in T => w = t
  <2>1. T \in SUBSET (SUBSET S)
    OBVIOUS
  <2> HIDE DEF T
  <2> QED BY <2>1, MinimalSubset
<1>2. t # {}
  BY <1>1
<1>3. t \ {Some(t)} \in SUBSET t /\ t \ {Some(t)} # t
  BY <1>2, SomeTaken
<1>4. t \in SUBSET S /\ t \notin P
  OBVIOUS
<1>5. t \ {Some(t)} \in SUBSET S /\ t \ {Some(t)} \notin T
  BY <1>1, <1>3, <1>4
<1>6. t \ {Some(t)} \in P
  BY <1>5
<1> QED BY <1>4, <1>6

\* A finite sum of integers is an integer.
LEMMA SumIsInt ==
    ASSUME NEW S, IsFiniteSet(S), NEW F \in [S -> Int]
    PROVE  SumFunction(F) \in Int
<1>1. PICK g : AddsUp(F, S, g) /\ SumFunction(F) = g[S]
  BY SumIsFold
<1>a. /\ g[{}] = 0
      /\ \A s \in SUBSET S : s # {} => g[s] = F[Some(s)] + g[s \ {Some(s)}]
  BY <1>1, AddsUpStep
<1> DEFINE P == {s \in SUBSET S : g[s] \in Int}
<1>2. ASSUME NEW s \in SUBSET S, s = {} \/ s \ {Some(s)} \in P PROVE s \in P
  <2>1. CASE s = {}
    <3>1. g[s] = 0
      BY <1>1, <2>1, AddsUpStep, Zenon
    <3> QED BY <3>1
  <2>2. CASE s # {}
    <3>1. g[s] = F[Some(s)] + g[s \ {Some(s)}]
      BY <1>a, <2>2
    <3> QED BY <1>2, <2>2, <3>1, SomeTaken
  <2> QED BY <2>1, <2>2
<1> HIDE DEF P
<1>3. SUBSET S \subseteq P
  BY <1>2, SubsetInduction
<1> QED BY <1>1, <1>3 DEF P

\* One term changes: so does the sum, by as much.
LEMMA SumUpdate ==
    ASSUME NEW S, IsFiniteSet(S), NEW F \in [S -> Int], NEW x \in S, NEW v \in Int
    PROVE  SumFunction([F EXCEPT ![x] = v]) = SumFunction(F) + v - F[x]
<1>z. PICK H : H = [F EXCEPT ![x] = v]
  OBVIOUS
<1>0. H \in [S -> Int] /\ H[x] = v /\ \A y \in S : y # x => H[y] = F[y]
  BY <1>z
<1>1. PICK g : AddsUp(F, S, g) /\ SumFunction(F) = g[S]
  BY SumIsFold
<1>2. PICK h : AddsUp(H, S, h) /\ SumFunction(H) = h[S]
  BY <1>0, SumIsFold
<1>b. \A s \in SUBSET S : s # {} => g[s] = F[Some(s)] + g[s \ {Some(s)}]
  BY <1>1, AddsUpStep
<1>c. AddsUp(H, S, h)
  BY <1>2
<1>d. \A s \in SUBSET S : s # {} => h[s] = H[Some(s)] + h[s \ {Some(s)}]
  BY <1>c, AddsUpStep
<1> DEFINE Same(s) == /\ g[s] \in Int
                      /\ h[s] = g[s] + (IF x \in s THEN v - F[x] ELSE 0)
           P == {s \in SUBSET S : Same(s)}
<1>3. ASSUME NEW s \in SUBSET S, s = {} \/ s \ {Some(s)} \in P PROVE s \in P
  <2>1. CASE s = {}
    BY <1>1, <1>2, <2>1, AddsUpStep
  <2>2. CASE s # {}
    <3> DEFINE y == Some(s)
               w == s \ {Some(s)}
    <3>1. y \in s /\ y \in S /\ w \in SUBSET S
      BY <2>2, SomeTaken
    <3>2. g[s] = F[y] + g[w] /\ h[s] = H[y] + h[w]
      BY <1>b, <1>d, <2>2
    <3>3. g[w] \in Int /\ h[w] = g[w] + (IF x \in w THEN v - F[x] ELSE 0)
      BY <1>3, <2>2
    <3>4. F[y] \in Int /\ F[x] \in Int
      BY <3>1
    <3> HIDE DEF w
    <3>5. CASE y = x
      <4>1. x \in s /\ x \notin w /\ H[y] = v
        BY <3>1, <3>5, <1>0 DEF w
      <4>2. h[s] = v + g[w] /\ g[s] = F[x] + g[w]
        BY <3>2, <3>3, <3>5, <4>1
      <4>3. Same(s)
        BY <3>3, <3>4, <4>1, <4>2
      <4> QED BY <4>3
    <3>6. CASE y # x
      <4>1. (x \in s <=> x \in w) /\ H[y] = F[y]
        BY <3>1, <3>6, <1>0 DEF w
      <4>2. Same(s)
        BY <3>2, <3>3, <3>4, <4>1
      <4> QED BY <4>2
    <3> QED BY <3>5, <3>6
  <2> QED BY <2>1, <2>2
<1> HIDE DEF P
<1>4. SUBSET S \subseteq P
  BY <1>3, SubsetInduction
<1>5. Same(S)
  BY <1>4 DEF P
<1>6. g[S] \in Int /\ h[S] = g[S] + (v - F[x])
  BY <1>5
<1> QED BY <1>z, <1>1, <1>2, <1>6

\* The same number k for everybody.
LEMMA SumConstant ==
    ASSUME NEW S, IsFiniteSet(S), NEW k \in Int
    PROVE  SumFunction([x \in S |-> k]) = k * Cardinality(S)
<1> DEFINE F == [x \in S |-> k]
<1>0. \A x \in S : F[x] = k
  OBVIOUS
<1>1. PICK g : AddsUp(F, S, g) /\ SumFunction(F) = g[S]
  BY SumIsFold
<1> HIDE DEF F
<1> DEFINE P == {s \in SUBSET S : g[s] = k * Cardinality(s)}
<1>2. ASSUME NEW s \in SUBSET S, s = {} \/ s \ {Some(s)} \in P PROVE s \in P
  <2>1. CASE s = {}
    BY <1>1, <2>1, AddsUpStep, FS_EmptySet
  <2>2. CASE s # {}
    <3> DEFINE w == s \ {Some(s)}
    <3>1. Some(s) \in s
      BY <2>2, SomeTaken
    <3>2. g[s] = k + g[w]
      BY <1>0, <1>1, <2>2, <3>1, AddsUpStep
    <3>3. g[w] = k * Cardinality(w)
      BY <1>2, <2>2
    <3>4. IsFiniteSet(s) /\ Cardinality(s) \in Nat
      BY FS_Subset, FS_CardinalityType
    <3>5. Cardinality(w) = Cardinality(s) - 1
      BY <3>1, <3>4, FS_RemoveElement
    <3> HIDE DEF w
    <3> DEFINE n == Cardinality(s)
    <3>6. g[s] = k + k * (n - 1)
      BY <3>2, <3>3, <3>5
    <3>7. n \in Nat
      BY <3>4
    <3> HIDE DEF n
    <3>8. k + k * (n - 1) = k * n
      BY <3>7
    <3> QED BY <3>6, <3>8 DEF n
  <2> QED BY <2>1, <2>2
<1> HIDE DEF P
<1>3. SUBSET S \subseteq P
  BY <1>2, SubsetInduction
<1>4. g[S] = k * Cardinality(S)
  BY <1>3 DEF P
<1> QED BY <1>1, <1>4 DEF F

\* g is the partial sums of F, which take one element at a time.
Partial(F, S, g) ==
    /\ SumFunction(F) = g[S] /\ g[{}] = 0
    /\ \A s \in SUBSET S : s # {} => g[s] = F[Some(s)] + g[s \ {Some(s)}]

\* Every function on a finite set has them.
LEMMA PartialSums ==
    ASSUME NEW S, IsFiniteSet(S), NEW F \in [S -> Int]
    PROVE  \E g : Partial(F, S, g)
<1>1. PICK g : AddsUp(F, S, g) /\ SumFunction(F) = g[S]
  BY SumIsFold
<1>2. /\ g[{}] = 0
      /\ \A s \in SUBSET S : s # {} => g[s] = F[Some(s)] + g[s \ {Some(s)}]
  BY <1>1, AddsUpStep
<1> QED BY <1>1, <1>2 DEF Partial

\* Two sums are the sum of the two terms.
LEMMA SumPlus ==
    ASSUME NEW S, IsFiniteSet(S), NEW F \in [S -> Int], NEW G \in [S -> Int],
           NEW H \in [S -> Int], \A x \in S : H[x] = F[x] + G[x]
    PROVE  SumFunction(H) = SumFunction(F) + SumFunction(G)
<1>1. PICK f : Partial(F, S, f)
  BY PartialSums
<1>2. PICK g : Partial(G, S, g)
  BY PartialSums
<1>3. PICK h : Partial(H, S, h)
  BY PartialSums
<1> DEFINE Same(s) == f[s] \in Int /\ g[s] \in Int /\ h[s] = f[s] + g[s]
           P == {s \in SUBSET S : Same(s)}
<1>4. ASSUME NEW s \in SUBSET S, s = {} \/ s \ {Some(s)} \in P PROVE s \in P
  <2>1. CASE s = {}
    BY <1>1, <1>2, <1>3, <2>1 DEF Partial
  <2>2. CASE s # {}
    <3> DEFINE y == Some(s)
               w == s \ {Some(s)}
    <3>1. y \in S
      BY <2>2, SomeTaken
    <3>2. Same(w)
      BY <1>4, <2>2
    <3>3. f[s] = F[y] + f[w] /\ g[s] = G[y] + g[w] /\ h[s] = H[y] + h[w]
      BY <1>1, <1>2, <1>3, <2>2 DEF Partial
    <3>4. F[y] \in Int /\ G[y] \in Int /\ H[y] = F[y] + G[y]
      BY <3>1
    <3> HIDE DEF y, w
    <3> QED BY <3>2, <3>3, <3>4
  <2> QED BY <2>1, <2>2
<1> HIDE DEF P
<1>5. SUBSET S \subseteq P
  BY <1>4, SubsetInduction
<1> QED BY <1>1, <1>2, <1>3, <1>5 DEF P, Partial

\* Every term k times as large: so is the sum.
LEMMA SumScaled ==
    ASSUME NEW S, IsFiniteSet(S), NEW F \in [S -> Int], NEW k \in Int,
           NEW H \in [S -> Int], \A x \in S : H[x] = k * F[x]
    PROVE  SumFunction(H) = k * SumFunction(F)
<1>1. PICK f : Partial(F, S, f)
  BY PartialSums
<1>3. PICK h : Partial(H, S, h)
  BY PartialSums
<1> DEFINE Same(s) == f[s] \in Int /\ h[s] = k * f[s]
           P == {s \in SUBSET S : Same(s)}
<1>4. ASSUME NEW s \in SUBSET S, s = {} \/ s \ {Some(s)} \in P PROVE s \in P
  <2>1. CASE s = {}
    BY <1>1, <1>3, <2>1 DEF Partial
  <2>2. CASE s # {}
    <3> DEFINE y == Some(s)
               w == s \ {Some(s)}
    <3>1. y \in S
      BY <2>2, SomeTaken
    <3>2. Same(w)
      BY <1>4, <2>2
    <3>3. f[s] = F[y] + f[w] /\ h[s] = k * F[y] + h[w]
      BY <1>1, <1>3, <2>2, <3>1 DEF Partial
    <3>4. F[y] \in Int
      BY <3>1
    <3> HIDE DEF y, w
    <3>5. k * (F[y] + f[w]) = k * F[y] + k * f[w]
      BY <3>2, <3>4
    <3> QED BY <3>2, <3>3, <3>4, <3>5
  <2> QED BY <2>1, <2>2
<1> HIDE DEF P
<1>5. SUBSET S \subseteq P
  BY <1>4, SubsetInduction
<1> QED BY <1>1, <1>3, <1>5 DEF P, Partial

\* No term larger: nor is the sum.
LEMMA SumAtMost ==
    ASSUME NEW S, IsFiniteSet(S), NEW F \in [S -> Int], NEW G \in [S -> Int],
           \A x \in S : F[x] <= G[x]
    PROVE  SumFunction(F) <= SumFunction(G)
<1>1. PICK f : Partial(F, S, f)
  BY PartialSums
<1>2. PICK g : Partial(G, S, g)
  BY PartialSums
<1> DEFINE Less(s) == f[s] \in Int /\ g[s] \in Int /\ f[s] <= g[s]
           P == {s \in SUBSET S : Less(s)}
<1>4. ASSUME NEW s \in SUBSET S, s = {} \/ s \ {Some(s)} \in P PROVE s \in P
  <2>1. CASE s = {}
    BY <1>1, <1>2, <2>1 DEF Partial
  <2>2. CASE s # {}
    <3> DEFINE y == Some(s)
               w == s \ {Some(s)}
    <3>1. y \in S
      BY <2>2, SomeTaken
    <3>2. Less(w)
      BY <1>4, <2>2
    <3>3. f[s] = F[y] + f[w] /\ g[s] = G[y] + g[w]
      BY <1>1, <1>2, <2>2 DEF Partial
    <3>4. F[y] \in Int /\ G[y] \in Int /\ F[y] <= G[y]
      BY <3>1
    <3> HIDE DEF y, w
    <3> QED BY <3>2, <3>3, <3>4
  <2> QED BY <2>1, <2>2
<1> HIDE DEF P
<1>5. SUBSET S \subseteq P
  BY <1>4, SubsetInduction
<1> QED BY <1>1, <1>2, <1>5 DEF P, Partial

\* The same number k for the members of M, nothing for the others.
LEMMA SumOfSome ==
    ASSUME NEW S, IsFiniteSet(S), NEW k \in Int, NEW M \in SUBSET S
    PROVE  SumFunction([x \in S |-> IF x \in M THEN k ELSE 0]) = k * Cardinality(M)
<1> DEFINE F == [x \in S |-> IF x \in M THEN k ELSE 0]
<1>0. F \in [S -> Int] /\ \A x \in S : F[x] = IF x \in M THEN k ELSE 0
  OBVIOUS
<1> HIDE DEF F
<1>1. PICK f : Partial(F, S, f)
  BY <1>0, PartialSums
<1> DEFINE P == {s \in SUBSET S : f[s] = k * Cardinality(s \cap M)}
<1>2. ASSUME NEW s \in SUBSET S, s = {} \/ s \ {Some(s)} \in P PROVE s \in P
  <2>1. CASE s = {}
    <3>1. s \cap M = {}
      BY <2>1
    <3> QED BY <1>1, <2>1, <3>1, FS_EmptySet DEF Partial
  <2>2. CASE s # {}
    <3> DEFINE y == Some(s)
               w == s \ {Some(s)}
               n == Cardinality(s \cap M)
    <3>1. y \in s /\ y \in S
      BY <2>2, SomeTaken
    <3>2. f[s] = F[y] + f[w] /\ f[w] = k * Cardinality(w \cap M)
      BY <1>1, <1>2, <2>2 DEF Partial
    <3>3. IsFiniteSet(s \cap M) /\ n \in Nat
      BY FS_Subset, FS_CardinalityType
    <3>4. CASE y \in M
      <4>1. w \cap M = (s \cap M) \ {y} /\ y \in s \cap M
        BY <3>1, <3>4
      <4>2. Cardinality((s \cap M) \ {y}) = n - 1
        BY <3>3, <4>1, FS_RemoveElement
      <4>2a. Cardinality(w \cap M) = n - 1
        BY <4>1, <4>2
      <4>3. F[y] = k
        BY <1>0, <3>1, <3>4
      <4> HIDE DEF n, w, y
      <4>4. k + k * (n - 1) = k * n
        BY <3>3
      <4>5. f[s] = k * n
        BY <3>2, <4>2a, <4>3, <4>4
      <4> QED BY <4>5 DEF n
    <3>5. CASE y \notin M
      <4>1. w \cap M = s \cap M
        BY <3>1, <3>5
      <4>2. F[y] = 0
        BY <1>0, <3>1, <3>5
      <4>3. f[s] = 0 + k * n
        BY <3>2, <4>1, <4>2
      <4> HIDE DEF n
      <4>4. f[s] = k * n
        BY <4>3, <3>3
      <4> QED BY <4>4 DEF n
    <3> QED BY <3>4, <3>5
  <2> QED BY <2>1, <2>2
<1> HIDE DEF P
<1>3. SUBSET S \subseteq P
  BY <1>2, SubsetInduction
<1>4. S \cap M = M
  OBVIOUS
<1>5. f[S] = k * Cardinality(M)
  BY <1>3, <1>4 DEF P, Partial
<1> QED BY <1>1, <1>5 DEF F, Partial
=============================================================================
