------------------------------ MODULE SumLemmas ------------------------------
(***************************************************************************)
(* Lemmas about the sums of the community modules (SumFunctionOnSet): that  *)
(* a sum over a finite set is a number, depends on the summands only, and   *)
(* grows by a summand when its set grows by an element.  The ledger's and   *)
(* the daily limit's properties are about such sums.                        *)
(*                                                                         *)
(* Induction is by least counterexample: a set of sizes that is not empty   *)
(* has a least member (LeastSize).                                          *)
(***************************************************************************)
EXTENDS Integers, FiniteSets, Functions, FiniteSetTheorems, WellFoundedInduction, TLAPS

\* A set of natural numbers that is not empty has a least member.
LEMMA LeastSize ==
    ASSUME NEW T \in SUBSET Nat, T # {}
    PROVE  \E n \in T : \A m \in T : n <= m
<1> DEFINE R == {p \in Nat \X Nat : p[1] < p[2]}
<1>1. IsWellFoundedOn(R, Nat)
  BY NatLessThanWellFounded, Zenon DEF OpToRel
<1>2. PICK n \in T : \A m \in T : ~(<<m, n>> \in R)
  <2> HIDE DEF R
  <2> QED
    BY <1>1, WFMin
<1>3. \A m \in T : ~(m < n)
  BY <1>2
<1> QED
  BY <1>3

-----------------------------------------------------------------------------
(* The recursion behind a sum *)

\* The element a sum takes first.
First(t) == CHOOSE x \in t : TRUE

\* It is one of the elements.
LEMMA FirstIn == ASSUME NEW t, t # {} PROVE First(t) \in t
BY DEF First

\* g is the table of sums of f over the subsets of S.
SumTable(g, f, S) ==
    g = [t \in SUBSET S |-> IF t = {} THEN 0 ELSE f[First(t)] + g[t \ {First(t)}]]

\* What a sum of the community modules is.
LEMMA SumUnfolds ==
    ASSUME NEW f, NEW S
    PROVE  SumFunctionOnSet(f, S) = (CHOOSE g : SumTable(g, f, S))[S]
BY Zenon DEF SumFunctionOnSet, FoldFunctionOnSet, MapThenFoldSet, SumTable, First

\* Taking the first element away leaves a smaller set.
LEMMA Smaller ==
    ASSUME NEW t, IsFiniteSet(t), t # {}
    PROVE  /\ First(t) \in t /\ IsFiniteSet(t \ {First(t)})
           /\ Cardinality(t) \in Nat /\ Cardinality(t \ {First(t)}) = Cardinality(t) - 1
           /\ Cardinality(t) > 0
<1>1. First(t) \in t
  BY FirstIn
<1>2. Cardinality(t) \in Nat /\ Cardinality(t) # 0
  BY FS_CardinalityType, FS_EmptySet
<1> QED
  BY <1>1, <1>2, FS_RemoveElement

\* The tables of two functions agree where the functions do.
LEMMA TablesAgree ==
    ASSUME NEW S, NEW S2, S \subseteq S2, IsFiniteSet(S),
           NEW f, NEW f2, \A x \in S : f[x] = f2[x],
           NEW g, NEW g2, SumTable(g, f, S), SumTable(g2, f2, S2)
    PROVE  g[S] = g2[S]
<1> DEFINE Bad == {t \in SUBSET S : g[t] # g2[t]}
           Sizes == {Cardinality(t) : t \in Bad}
<1> SUFFICES ASSUME Bad # {} PROVE FALSE
  OBVIOUS
<1>1. \A t \in SUBSET S : IsFiniteSet(t) /\ Cardinality(t) \in Nat
  BY FS_Subset, FS_CardinalityType
<1>2. PICK n \in Sizes : \A m \in Sizes : n <= m
  <2>1. Sizes \in SUBSET Nat /\ Sizes # {}
    BY <1>1
  <2> HIDE DEF Sizes
  <2> QED
    BY <2>1, LeastSize
<1>3. PICK t \in Bad : n = Cardinality(t)
  OBVIOUS
<1>4. CASE t = {}
  <2>1. g[t] = 0 /\ g2[t] = 0
    BY <1>4 DEF SumTable
  <2> QED
    BY <1>3, <2>1
<1>5. CASE t # {}
  <2> DEFINE x == First(t)
             u == t \ {x}
  <2>1. x \in t /\ u \in SUBSET S /\ Cardinality(u) = n - 1 /\ n \in Nat
    BY <1>1, <1>3, <1>5, Smaller
  <2>2. u \notin Bad
    <3>1. SUFFICES ASSUME u \in Bad PROVE FALSE
      OBVIOUS
    <3>2. Cardinality(u) \in Sizes
      BY <3>1
    <3> HIDE DEF u, Sizes
    <3> QED
      BY <1>2, <2>1, <3>2
  <2>3. g[t] = f[x] + g[u] /\ g2[t] = f2[x] + g2[u]
    BY <1>3, <1>5 DEF SumTable
  <2>4. g[u] = g2[u] /\ f[x] = f2[x]
    BY <2>1, <2>2
  <2> QED
    BY <1>3, <2>3, <2>4
<1> QED
  BY <1>4, <1>5

\* Every function has a table of sums over a finite set.
LEMMA TableExists ==
    ASSUME NEW S, IsFiniteSet(S), NEW f, \A x \in S : f[x] \in Int
    PROVE  \E g \in [SUBSET S -> Int] : SumTable(g, f, S)
<1> DEFINE Upto(n) == {t \in SUBSET S : Cardinality(t) <= n}
           Part(g, n) == /\ g \in [Upto(n) -> Int]
                         /\ \A t \in Upto(n) :
                              g[t] = IF t = {} THEN 0 ELSE f[First(t)] + g[t \ {First(t)}]
           Missing == {n \in Nat : ~\E g : Part(g, n)}
<1>1. \A t \in SUBSET S : IsFiniteSet(t) /\ Cardinality(t) \in Nat
  BY FS_Subset, FS_CardinalityType
<1>2. \A t \in SUBSET S : t # {} =>
        /\ First(t) \in S /\ f[First(t)] \in Int /\ t \ {First(t)} \in SUBSET S
        /\ Cardinality(t \ {First(t)}) = Cardinality(t) - 1 /\ Cardinality(t) > 0
  BY <1>1, Smaller
<1>3. 0 \notin Missing
  <2> DEFINE g0 == [t \in Upto(0) |-> 0]
  <2>1. ASSUME NEW t \in Upto(0) PROVE t = {}
    <3>1. t \in SUBSET S /\ Cardinality(t) <= 0 /\ Cardinality(t) \in Nat
      BY <1>1
    <3>2. ~(Cardinality(t) > 0)
      BY <3>1
    <3> QED
      BY <1>2, <3>1, <3>2
  <2>2. Part(g0, 0)
    BY <2>1
  <2> QED
    BY <2>2
<1>4. ASSUME NEW n \in Nat, n \notin Missing PROVE n + 1 \notin Missing
  <2>1. PICK g : Part(g, n)
    BY <1>4
  <2> DEFINE h == [t \in Upto(n + 1) |->
                     IF t \in Upto(n) THEN g[t] ELSE f[First(t)] + g[t \ {First(t)}]]
  <2>2. ASSUME NEW t \in Upto(n + 1), t # {} PROVE t \ {First(t)} \in Upto(n) /\ t \ {First(t)} \in Upto(n + 1)
    BY <1>1, <1>2, <2>2
  <2>3. ASSUME NEW t \in Upto(n + 1), t = {} PROVE t \in Upto(n)
    BY <1>1, <2>3, FS_EmptySet
  <2>4. h \in [Upto(n + 1) -> Int]
    BY <1>2, <2>1, <2>2, <2>3
  <2>5. ASSUME NEW t \in Upto(n + 1)
        PROVE  h[t] = IF t = {} THEN 0 ELSE f[First(t)] + h[t \ {First(t)}]
    BY <2>1, <2>2, <2>3
  <2>6. Part(h, n + 1)
    BY <2>4, <2>5
  <2> HIDE DEF h, Part
  <2> QED
    BY <2>6
<1>5. Missing = {}
  <2> SUFFICES ASSUME Missing # {} PROVE FALSE
    OBVIOUS
  <2> HIDE DEF Part
  <2>1. PICK n \in Missing : \A m \in Missing : n <= m
    BY LeastSize
  <2>2. n \in Nat /\ n # 0
    BY <1>3
  <2>3. n - 1 \in Nat /\ n - 1 \notin Missing
    BY <2>1, <2>2
  <2>4. (n - 1) + 1 \notin Missing
    <3> HIDE DEF Missing
    <3> QED
      BY <2>3, <1>4
  <2> QED
    BY <2>2, <2>4
<1>6. Cardinality(S) \in Nat
  BY FS_CardinalityType
<1>7. PICK g : Part(g, Cardinality(S))
  <2> HIDE DEF Part
  <2> QED
    BY <1>5, <1>6
<1>8. Upto(Cardinality(S)) = SUBSET S
  BY FS_Subset
<1>9. g \in [SUBSET S -> Int] /\ SumTable(g, f, S)
  BY <1>7, <1>8 DEF SumTable
<1> QED
  BY <1>9

-----------------------------------------------------------------------------
(* Sums *)

\* A sum is an entry of any table of sums.
LEMMA SumInTable ==
    ASSUME NEW S, IsFiniteSet(S), NEW f, \A x \in S : f[x] \in Int,
           NEW S2, NEW f2, NEW g, S \subseteq S2, \A x \in S : f[x] = f2[x], SumTable(g, f2, S2)
    PROVE  SumFunctionOnSet(f, S) = g[S]
<1>1. \E h : SumTable(h, f, S) /\ SumFunctionOnSet(f, S) = h[S]
  <2>1. SumTable(CHOOSE h : SumTable(h, f, S), f, S)
    BY TableExists
  <2> QED
    BY <2>1, SumUnfolds
<1>2. PICK h : SumTable(h, f, S) /\ SumFunctionOnSet(f, S) = h[S]
  BY <1>1
<1>3. SumTable(h, f, S) /\ SumTable(g, f2, S2) /\ S \subseteq S2 /\ IsFiniteSet(S) /\ \A x \in S : f[x] = f2[x]
  BY <1>2
<1>4. h[S] = g[S]
  BY <1>3, TablesAgree
<1> QED
  BY <1>2, <1>4

\* A sum of numbers is a number.
LEMMA SumType ==
    ASSUME NEW S, IsFiniteSet(S), NEW f, \A x \in S : f[x] \in Int
    PROVE  SumFunctionOnSet(f, S) \in Int
<1>1. PICK g \in [SUBSET S -> Int] : SumTable(g, f, S)
  BY TableExists
<1>2. SumFunctionOnSet(f, S) = g[S]
  BY <1>1, SumInTable
<1> QED
  BY <1>1, <1>2

\* Nothing sums to zero.
LEMMA SumOfNothing == ASSUME NEW f PROVE SumFunctionOnSet(f, {}) = 0
<1>1. IsFiniteSet({})
  BY FS_EmptySet
<1>2. PICK g \in [SUBSET {} -> Int] : SumTable(g, f, {})
  BY <1>1, TableExists
<1>3. SumFunctionOnSet(f, {}) = g[{}]
  BY <1>1, <1>2, SumInTable
<1> QED
  BY <1>2, <1>3 DEF SumTable

\* A sum depends on its summands only.
LEMMA SumCongruence ==
    ASSUME NEW S, IsFiniteSet(S), NEW f, NEW f2, \A x \in S : f[x] \in Int /\ f[x] = f2[x]
    PROVE  SumFunctionOnSet(f, S) = SumFunctionOnSet(f2, S)
<1>1. PICK g \in [SUBSET S -> Int] : SumTable(g, f2, S)
  BY TableExists
<1> QED
  BY <1>1, SumInTable

\* A sum is its first summand and the sum of the rest.
LEMMA SumFirst ==
    ASSUME NEW S, IsFiniteSet(S), S # {}, NEW f, \A x \in S : f[x] \in Int
    PROVE  SumFunctionOnSet(f, S) = f[First(S)] + SumFunctionOnSet(f, S \ {First(S)})
<1>1. PICK g \in [SUBSET S -> Int] : SumTable(g, f, S)
  BY TableExists
<1>2. SumFunctionOnSet(f, S) = g[S]
  BY <1>1, SumInTable
<1>3. SumFunctionOnSet(f, S \ {First(S)}) = g[S \ {First(S)}]
  <2> DEFINE U == S \ {First(S)}
  <2>1. U \subseteq S /\ IsFiniteSet(U) /\ \A x \in U : f[x] \in Int
    BY Smaller
  <2> HIDE DEF U
  <2>2. SumFunctionOnSet(f, U) = g[U]
    BY <1>1, <2>1, SumInTable
  <2> QED
    BY <2>2 DEF U
<1>4. g[S] = f[First(S)] + g[S \ {First(S)}]
  BY <1>1 DEF SumTable
<1> QED
  BY <1>2, <1>3, <1>4

\* f's sum grows by its summand at d when d joins t.
Grows(f, t, d) == SumFunctionOnSet(f, t \union {d}) = SumFunctionOnSet(f, t) + f[d]

\* If every smaller set grows rightly, so does t, whichever element is first.
LEMMA GrowsStep ==
    ASSUME NEW t, IsFiniteSet(t), NEW d, d \notin t, NEW f, \A y \in t \union {d} : f[y] \in Int,
           \A u \in SUBSET t : \A y \in t \union {d} : u # t /\ y \notin u => Grows(f, u, y)
    PROVE  Grows(f, t, d)
<1> DEFINE all == t \union {d}
           x == First(all)
<1>1. IsFiniteSet(all) /\ all # {} /\ \A y \in all : f[y] \in Int
  BY FS_AddElement
<1>2. x \in all
  BY <1>1, FirstIn
<1>3. SumFunctionOnSet(f, all) = f[x] + SumFunctionOnSet(f, all \ {x})
  <2> HIDE DEF all
  <2> QED
    BY <1>1, SumFirst
<1>4. \A u \in SUBSET all : SumFunctionOnSet(f, u) \in Int
  <2> SUFFICES ASSUME NEW u \in SUBSET all PROVE SumFunctionOnSet(f, u) \in Int
    OBVIOUS
  <2>1. IsFiniteSet(u) /\ \A y \in u : f[y] \in Int
    BY <1>1, FS_Subset
  <2> QED
    BY <2>1, SumType
<1> HIDE DEF x
<1>5. CASE x = d
  <2>1. all \ {x} = t
    BY <1>5
  <2>2. SumFunctionOnSet(f, t) \in Int /\ f[d] \in Int
    BY <1>4
  <2>3. SumFunctionOnSet(f, all) = f[d] + SumFunctionOnSet(f, t)
    BY <1>3, <1>5, <2>1
  <2>4. SumFunctionOnSet(f, all) = SumFunctionOnSet(f, t) + f[d]
    BY <2>2, <2>3
  <2> QED
    BY <2>4 DEF Grows
<1>6. CASE x # d
  <2> DEFINE u == t \ {x}
  <2>1. x \in t /\ u \in SUBSET t /\ u # t /\ x \notin u /\ d \notin u
    BY <1>2, <1>6
  <2>2. Grows(f, u, x) /\ Grows(f, u, d)
    <3> HIDE DEF u
    <3> QED
      BY <2>1
  <2>3. u \union {x} = t /\ u \union {d} = all \ {x}
    BY <1>6, <2>1
  <2>4. SumFunctionOnSet(f, t) = SumFunctionOnSet(f, u) + f[x]
    BY <2>2, <2>3 DEF Grows
  <2>5. SumFunctionOnSet(f, all \ {x}) = SumFunctionOnSet(f, u) + f[d]
    BY <2>2, <2>3 DEF Grows
  <2>6. SumFunctionOnSet(f, u) \in Int /\ f[x] \in Int /\ f[d] \in Int
    BY <1>2, <1>4, <2>1
  <2> HIDE DEF u
  <2>7. SumFunctionOnSet(f, all) = SumFunctionOnSet(f, t) + f[d]
    BY <1>3, <2>4, <2>5, <2>6
  <2> QED
    BY <2>7 DEF Grows
<1> QED
  BY <1>5, <1>6

\* A new element adds its summand, whichever element is taken first.
LEMMA SumInsert ==
    ASSUME NEW S, IsFiniteSet(S), NEW e, e \notin S, NEW f, f[e] \in Int, \A x \in S : f[x] \in Int
    PROVE  SumFunctionOnSet(f, S \union {e}) = SumFunctionOnSet(f, S) + f[e]
<1> DEFINE all == S \union {e}
           Wrong == {t \in SUBSET all : \E d \in all : d \notin t /\ ~Grows(f, t, d)}
           Sizes == {Cardinality(t) : t \in Wrong}
<1>1. \A t \in SUBSET all : IsFiniteSet(t) /\ Cardinality(t) \in Nat
  BY FS_AddElement, FS_Subset, FS_CardinalityType
<1>2. \A x \in all : f[x] \in Int
  OBVIOUS
<1>3. Wrong = {}
  <2> SUFFICES ASSUME Wrong # {} PROVE FALSE
    OBVIOUS
  <2>1. PICK n \in Sizes : \A m \in Sizes : n <= m
    <3>1. Sizes \in SUBSET Nat /\ Sizes # {}
      <4> HIDE DEF all
      <4> QED
        BY <1>1
    <3> HIDE DEF Sizes
    <3> QED
      BY <3>1, LeastSize
  <2>2. PICK t \in Wrong : n = Cardinality(t)
    OBVIOUS
  <2>3. PICK d \in all : d \notin t /\ ~Grows(f, t, d)
    BY <2>2
  <2>4. t \in SUBSET all
    BY <2>2
  <2>5. ASSUME NEW u \in SUBSET t, NEW y \in t \union {d}, u # t, y \notin u PROVE Grows(f, u, y)
    <3>1. u \in SUBSET all /\ y \in all
      BY <2>4
    <3>2. Cardinality(u) < n
      <4> HIDE DEF all
      <4>1. Cardinality(u) <= Cardinality(t) /\ Cardinality(u) # Cardinality(t)
        BY <1>1, <2>4, <2>5, FS_Subset
      <4> QED
        BY <1>1, <2>2, <2>4, <3>1, <4>1
    <3>3. Cardinality(u) \in Nat /\ n \in Nat
      BY <1>1, <2>2, <2>4, <3>1
    <3>4. Cardinality(u) \notin Sizes
      <4> HIDE DEF Sizes
      <4> QED
        BY <2>1, <3>2, <3>3
    <3>5. u \notin Wrong
      BY <3>4
    <3> QED
      BY <2>5, <3>1, <3>5
  <2>6. IsFiniteSet(t) /\ \A y \in t \union {d} : f[y] \in Int
    BY <1>1, <1>2, <2>4
  <2>7. Grows(f, t, d)
    <3> HIDE DEF Wrong, Sizes, all
    <3> QED
      BY <2>3, <2>5, <2>6, GrowsStep
  <2> QED
    BY <2>3, <2>7
<1>4. S \in SUBSET all /\ e \in all
  OBVIOUS
<1>5. Grows(f, S, e)
  BY <1>3, <1>4
<1> QED
  BY <1>5 DEF Grows

\* One summand changes.
LEMMA SumChange ==
    ASSUME NEW S, IsFiniteSet(S), NEW e \in S, NEW f, NEW f2, \A x \in S : f[x] \in Int /\ f2[x] \in Int,
           \A x \in S \ {e} : f2[x] = f[x]
    PROVE  SumFunctionOnSet(f2, S) = SumFunctionOnSet(f, S) - f[e] + f2[e]
<1> DEFINE rest == S \ {e}
<1>1. /\ IsFiniteSet(rest) /\ e \notin rest /\ rest \union {e} = S
      /\ \A x \in rest : f[x] \in Int /\ f2[x] \in Int /\ f[x] = f2[x]
      /\ f[e] \in Int /\ f2[e] \in Int
  BY FS_Subset
<1> HIDE DEF rest
<1>2. SumFunctionOnSet(f, rest) = SumFunctionOnSet(f2, rest) /\ SumFunctionOnSet(f, rest) \in Int
  BY <1>1, SumCongruence, SumType
<1>3. SumFunctionOnSet(f, rest \union {e}) = SumFunctionOnSet(f, rest) + f[e]
  BY <1>1, SumInsert
<1>4. SumFunctionOnSet(f2, rest \union {e}) = SumFunctionOnSet(f2, rest) + f2[e]
  BY <1>1, SumInsert
<1>5. /\ SumFunctionOnSet(f, S) = SumFunctionOnSet(f, rest) + f[e]
      /\ SumFunctionOnSet(f2, S) = SumFunctionOnSet(f, rest) + f2[e]
  BY <1>1, <1>2, <1>3, <1>4
<1>6. f[e] \in Int /\ f2[e] \in Int
  OBVIOUS
<1> QED
  BY <1>2, <1>5, <1>6

\* One element sums to its summand.
LEMMA SumOfOne ==
    ASSUME NEW e, NEW f, f[e] \in Int
    PROVE  SumFunctionOnSet(f, {e}) = f[e]
<1>1. IsFiniteSet({}) /\ e \notin {} /\ {} \union {e} = {e}
  BY FS_EmptySet
<1>2. SumFunctionOnSet(f, {} \union {e}) = SumFunctionOnSet(f, {}) + f[e]
  BY <1>1, SumInsert
<1> QED
  BY <1>1, <1>2, SumOfNothing

\* The sum of a sequence of numbers, appended to.
LEMMA SumAppend ==
    ASSUME NEW n \in Nat, NEW f \in [1..n -> Int], NEW f2 \in [1..(n + 1) -> Int],
           \A i \in 1..n : f2[i] = f[i]
    PROVE  SumFunction(f2) = SumFunction(f) + f2[n + 1]
<1>1. IsFiniteSet(1..n) /\ n + 1 \notin 1..n /\ 1..(n + 1) = (1..n) \union {n + 1}
  <2>1. n \in Int /\ 1 \in Int
    OBVIOUS
  <2>2. IsFiniteSet(1..n)
    BY <2>1, FS_Interval
  <2>3. n + 1 \notin 1..n
    OBVIOUS
  <2>4. \A i \in Int : i \in 1..(n + 1) <=> i \in 1..n \/ i = n + 1
    OBVIOUS
  <2>5. 1..(n + 1) = (1..n) \union {n + 1}
    BY <2>4
  <2> QED
    BY <2>2, <2>3, <2>5
<1>2. SumFunction(f2) = SumFunctionOnSet(f2, (1..n) \union {n + 1})
  BY <1>1 DEF SumFunction
<1>3. SumFunctionOnSet(f2, (1..n) \union {n + 1}) = SumFunctionOnSet(f2, 1..n) + f2[n + 1]
  BY <1>1, SumInsert
<1>4. SumFunctionOnSet(f2, 1..n) = SumFunctionOnSet(f, 1..n)
  BY <1>1, SumCongruence
<1> QED
  BY <1>2, <1>3, <1>4 DEF SumFunction

=============================================================================
