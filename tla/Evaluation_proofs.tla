-------------------------- MODULE Evaluation_proofs --------------------------
(***************************************************************************)
(* What is proved of the reports: the rows an evaluation of a routing      *)
(* experiment compares and its verdict (PolicyEvaluation), for every       *)
(* configuration the controller accepts; the ranking, the calibration and  *)
(* the operating envelope of a capacity sweep (Planner), whatever its runs *)
(* measured; the blocks found by exact cache keys (BlockHash); and the     *)
(* totals of a metrics page (MetricsPage).                                 *)
(***************************************************************************)
EXTENDS PolicyEvaluation, Planner, BlockHash, MetricsPage, FiniteSetTheorems,
        WellFoundedInduction, TLAPS

-----------------------------------------------------------------------------
(* Numbers, finite sets and recursive functions.                         *)

\* A non-empty set of naturals has a least element.
LEMMA LeastIs ==
    ASSUME NEW S, S \subseteq Nat, S # {}
    PROVE  \E n \in S : \A m \in S : n <= m
<1> DEFINE less == {ss \in Nat \X Nat : ss[1] < ss[2]}
<1>1. IsWellFoundedOn(less, Nat)
  BY NatLessThanWellFounded DEF OpToRel
<1>2. \A m, k \in Nat : ~(<<m, k>> \in less) => k <= m
  OBVIOUS
<1> HIDE DEF less
<1>3. PICK n \in S : \A m \in S : ~(<<m, n>> \in less)
  BY <1>1, WFMin
<1> QED
  BY <1>2, <1>3

\* Two functions that agree at 0 and, wherever they agree, one further, agree.
LEMMA AgreeByStep ==
    ASSUME NEW N \in Nat, NEW f, NEW g, f[0] = g[0],
           \A n \in 1..N : f[n - 1] = g[n - 1] => f[n] = g[n]
    PROVE  \A n \in 0..N : f[n] = g[n]
<1> DEFINE bad == {n \in 0..N : f[n] # g[n]}
<1>1. SUFFICES ASSUME bad # {} PROVE FALSE
  OBVIOUS
<1>2. PICK n \in bad : \A m \in bad : n <= m
  <2>1. bad \subseteq Nat
    OBVIOUS
  <2> HIDE DEF bad
  <2> QED
    BY <1>1, <2>1, LeastIs
<1>3. n \in 1..N /\ n - 1 \in 0..N /\ ~(n <= n - 1)
  OBVIOUS
<1>4. f[n - 1] = g[n - 1]
  BY <1>2, <1>3
<1> QED
  BY <1>3, <1>4

\* Max and Min of a non-empty set of integers between two bounds.
LEMMA MaxIs ==
    ASSUME NEW S, S # {}, NEW lo \in Int, NEW hi \in Int, S \subseteq lo .. hi
    PROVE  Max(S) \in S /\ \A x \in S : x <= Max(S)
<1> DEFINE T == {hi - x : x \in S}
<1>1. T \subseteq Nat /\ T # {}
  <2>1. \A x \in S : x \in Int /\ lo <= x /\ x <= hi
    OBVIOUS
  <2>2. \A x \in S : hi - x \in Nat
    BY <2>1
  <2>3. T \subseteq Nat
    BY <2>2
  <2>4. PICK x \in S : TRUE
    OBVIOUS
  <2>5. hi - x \in T
    BY <2>4
  <2> QED
    BY <2>3, <2>5
<1> HIDE DEF T
<1>2. PICK n \in T : \A m \in T : n <= m
  BY <1>1, LeastIs
<1>3. PICK x \in S : n = hi - x
  BY <1>2 DEF T
<1>4. \A y \in S : hi - y \in T /\ y \in Int
  BY DEF T
<1>5. \A y \in S : x >= y
  BY <1>2, <1>3, <1>4
<1>6. Max(S) \in S /\ \A y \in S : Max(S) >= y
  BY <1>5 DEF Max
<1> QED
  BY <1>4, <1>6

LEMMA MinIs ==
    ASSUME NEW S, S # {}, NEW lo \in Int, NEW hi \in Int, S \subseteq lo .. hi
    PROVE  Min(S) \in S /\ \A x \in S : Min(S) <= x
<1> DEFINE T == {x - lo : x \in S}
<1>1. T \subseteq Nat /\ T # {}
  <2>1. \A x \in S : x \in Int /\ lo <= x /\ x <= hi
    OBVIOUS
  <2>2. \A x \in S : x - lo \in Nat
    BY <2>1
  <2>3. T \subseteq Nat
    BY <2>2
  <2>4. PICK x \in S : TRUE
    OBVIOUS
  <2>5. x - lo \in T
    BY <2>4
  <2> QED
    BY <2>3, <2>5
<1> HIDE DEF T
<1>2. PICK n \in T : \A m \in T : n <= m
  BY <1>1, LeastIs
<1>3. PICK x \in S : n = x - lo
  BY <1>2 DEF T
<1>4. \A y \in S : y - lo \in T /\ y \in Int
  BY DEF T
<1>5. \A y \in S : x <= y
  BY <1>2, <1>3, <1>4
<1>6. Min(S) \in S /\ \A y \in S : Min(S) <= y
  BY <1>5 DEF Min
<1> QED
  BY <1>4, <1>6

LEMMA TimesKeeps ==
    ASSUME NEW a \in Nat, NEW b \in Nat, NEW c \in Nat, a <= b PROVE a * c <= b * c
  OBVIOUS

\* A finite strict order has a minimal element: one with the fewest below it.
LEMMA MinimalIs ==
    ASSUME NEW S, IsFiniteSet(S), S # {}, NEW R,
           \A x \in S : <<x, x>> \notin R,
           \A x, y, z \in S : <<x, y>> \in R /\ <<y, z>> \in R => <<x, z>> \in R
    PROVE  \E x \in S : \A y \in S : <<y, x>> \notin R
<1> DEFINE Below(x) == {y \in S : <<y, x>> \in R}
           sizes    == {Cardinality(Below(x)) : x \in S}
<1>1. \A x \in S : IsFiniteSet(Below(x)) /\ Cardinality(Below(x)) \in Nat
  BY FS_Subset, FS_CardinalityType
<1> HIDE DEF Below
<1>2. sizes \subseteq Nat /\ sizes # {}
  BY <1>1
<1>3. PICK n \in sizes : \A m \in sizes : n <= m
  <2> HIDE DEF sizes
  <2> QED
    BY <1>2, LeastIs
<1>4. PICK x \in S : n = Cardinality(Below(x))
  OBVIOUS
<1>5. ASSUME NEW y \in S, <<y, x>> \in R PROVE FALSE
  <2>1. Below(y) \subseteq Below(x) /\ y \in Below(x) /\ y \notin Below(y)
    BY <1>5 DEF Below
  <2>2. Cardinality(Below(x)) <= Cardinality(Below(y))
    BY <1>3, <1>4
  <2>3. /\ Cardinality(Below(y)) <= Cardinality(Below(x))
        /\ Cardinality(Below(x)) # Cardinality(Below(y))
    BY <1>1, <2>1, FS_Subset
  <2> QED
    BY <1>1, <2>2, <2>3
<1> QED
  BY <1>5

\* The largest of finitely many values.
LEMMA MaxOf ==
    ASSUME NEW S, IsFiniteSet(S), S # {}, NEW f \in [S -> Int], NEW V, V = {f[i] : i \in S}
    PROVE  Max(V) \in V /\ \A v \in V : v <= Max(V)
<1> DEFINE R == {p \in S \X S : f[p[1]] > f[p[2]]}
<1>1. \A i, j \in S : <<i, j>> \in R <=> f[i] > f[j]
  OBVIOUS
<1>2. \A i \in S : f[i] \in Int
  OBVIOUS
<1> HIDE DEF R
<1>3. /\ \A i \in S : <<i, i>> \notin R
      /\ \A i, j, k \in S : <<i, j>> \in R /\ <<j, k>> \in R => <<i, k>> \in R
  BY <1>1, <1>2
<1>4. PICK i \in S : \A j \in S : <<j, i>> \notin R
  BY <1>3, MinimalIs
<1>5. ASSUME NEW j \in S PROVE f[i] >= f[j]
  <2>1. ~(f[j] > f[i])
    BY <1>1, <1>4
  <2>2. f[i] \in Int /\ f[j] \in Int
    BY <1>2
  <2> QED
    BY ONLY <2>1, <2>2
<1>6. f[i] \in V /\ \A v \in V : f[i] >= v
  BY <1>5
<1>7. Max(V) \in V /\ \A v \in V : Max(V) >= v
  BY <1>6 DEF Max
<1> QED
  BY <1>2, <1>7

LEMMA MinOf ==
    ASSUME NEW S, IsFiniteSet(S), S # {}, NEW f \in [S -> Int], NEW V, V = {f[i] : i \in S}
    PROVE  Min(V) \in V /\ \A v \in V : Min(V) <= v
<1> DEFINE R == {p \in S \X S : f[p[1]] < f[p[2]]}
<1>1. \A i, j \in S : <<i, j>> \in R <=> f[i] < f[j]
  OBVIOUS
<1>2. \A i \in S : f[i] \in Int
  OBVIOUS
<1> HIDE DEF R
<1>3. /\ \A i \in S : <<i, i>> \notin R
      /\ \A i, j, k \in S : <<i, j>> \in R /\ <<j, k>> \in R => <<i, k>> \in R
  BY <1>1, <1>2
<1>4. PICK i \in S : \A j \in S : <<j, i>> \notin R
  BY <1>3, MinimalIs
<1>5. ASSUME NEW j \in S PROVE f[i] <= f[j]
  <2>1. ~(f[j] < f[i])
    BY <1>1, <1>4
  <2>2. f[i] \in Int /\ f[j] \in Int
    BY <1>2
  <2> QED
    BY ONLY <2>1, <2>2
<1>6. f[i] \in V /\ \A v \in V : f[i] <= v
  BY <1>5
<1>7. Min(V) \in V /\ \A v \in V : Min(V) <= v
  BY <1>6 DEF Min
<1> QED
  BY <1>2, <1>7

\* The recursion of a sum over the subsets of its domain: one element is taken out after
\* the other.
Pick(s) == CHOOSE x \in s : TRUE

SumStep(f, g, s) == IF s = {} THEN 0 ELSE f[Pick(s)] + g[s \ {Pick(s)}]

SumTable(f, g) == [s \in SUBSET DOMAIN f |-> SumStep(f, g, s)]

LEMMA PickIs ==
    ASSUME NEW s, IsFiniteSet(s), s # {}
    PROVE  /\ Pick(s) \in s /\ IsFiniteSet(s \ {Pick(s)})
           /\ Cardinality(s) \in Nat /\ Cardinality(s) >= 1
           /\ Cardinality(s \ {Pick(s)}) = Cardinality(s) - 1
<1>1. Pick(s) \in s
  BY DEF Pick
<1>2. /\ IsFiniteSet(s \ {Pick(s)}) /\ Cardinality(s \ {Pick(s)}) = Cardinality(s) - 1
      /\ Cardinality(s) \in Nat /\ Cardinality(s \ {Pick(s)}) \in Nat
  <2> DEFINE x == Pick(s)
  <2> HIDE DEF x
  <2>1. x \in s
    BY <1>1 DEF x
  <2>2. /\ IsFiniteSet(s \ {x}) /\ Cardinality(s \ {x}) = Cardinality(s) - 1
        /\ Cardinality(s) \in Nat /\ Cardinality(s \ {x}) \in Nat
    BY <2>1, FS_RemoveElement, FS_CardinalityType
  <2> QED
    BY <2>2 DEF x
<1> QED
  BY <1>1, <1>2

\* Some table solves the recursion: one for the sets of up to n elements gives one for the
\* sets of up to n + 1, so that there is no least n without one.
LEMMA SumTableExists ==
    ASSUME NEW f, IsFiniteSet(DOMAIN f)
    PROVE  \E g : g = SumTable(f, g)
<1> DEFINE D == DOMAIN f
           Small(n) == {s \in SUBSET D : Cardinality(s) <= n}
           Solves(g, n) == \A s \in Small(n) : g[s] = SumStep(f, g, s)
           bad == {n \in Nat : ~\E g : Solves(g, n)}
<1>1. \A s \in SUBSET D : IsFiniteSet(s) /\ Cardinality(s) \in Nat
  BY FS_Subset, FS_CardinalityType
<1>2. bad = {}
  <2> SUFFICES ASSUME bad # {} PROVE FALSE
    OBVIOUS
  <2>1. PICK n \in bad : \A m \in bad : n <= m
    <3>1. bad \subseteq Nat
      OBVIOUS
    <3> HIDE DEF bad
    <3> QED
      BY <3>1, LeastIs
  <2>2. CASE n = 0
    <3> DEFINE z == [s \in SUBSET D |-> 0]
    <3>1. ASSUME NEW s \in Small(n) PROVE z[s] = SumStep(f, z, s)
      <4>1. s = {}
        <5> SUFFICES ASSUME s # {} PROVE FALSE
          OBVIOUS
        <5>1. s \in SUBSET D /\ Cardinality(s) <= 0 /\ IsFiniteSet(s)
          BY <1>1, <2>2
        <5>2. Cardinality(s) \in Nat /\ Cardinality(s) >= 1
          BY <5>1, PickIs
        <5> QED
          BY <5>1, <5>2
      <4> QED
        BY <4>1 DEF SumStep
    <3> HIDE DEF z
    <3>2. Solves(z, n)
      BY <3>1
    <3> HIDE DEF Solves
    <3> QED
      BY <2>1, <3>2
  <2>3. CASE n # 0
    <3>1. n - 1 \in Nat /\ n - 1 \notin bad
      BY <2>1, <2>3
    <3>2. PICK g : Solves(g, n - 1)
      BY <3>1
    <3> DEFINE k == [s \in SUBSET D |-> SumStep(f, g, s)]
    <3>3. ASSUME NEW s \in Small(n) PROVE k[s] = SumStep(f, k, s)
      <4>1. s \in SUBSET D /\ Cardinality(s) <= n /\ IsFiniteSet(s) /\ k[s] = SumStep(f, g, s)
        BY <1>1
      <4>2. CASE s = {}
        BY <4>1, <4>2 DEF SumStep
      <4>3. CASE s # {}
        <5> DEFINE t == s \ {Pick(s)}
        <5>1. t \in SUBSET D /\ Cardinality(s) \in Nat /\ Cardinality(t) = Cardinality(s) - 1
          BY <4>1, <4>3, PickIs
        <5> HIDE DEF t
        <5>2. t \in Small(n - 1)
          BY <4>1, <5>1
        <5>3. g[t] = SumStep(f, g, t) /\ k[t] = SumStep(f, g, t)
          BY <3>2, <5>1, <5>2
        <5> HIDE DEF k
        <5> QED
          BY <4>1, <4>3, <5>3 DEF SumStep, t
      <4> QED
        BY <4>2, <4>3
    <3> HIDE DEF k
    <3>4. Solves(k, n)
      BY <3>3
    <3> HIDE DEF Solves
    <3> QED
      BY <2>1, <3>4
  <2> QED
    BY <2>2, <2>3
<1>3. Cardinality(D) \in Nat
  BY FS_CardinalityType
<1>4. PICK g : Solves(g, Cardinality(D))
  <2> HIDE DEF Solves
  <2> QED
    BY <1>2, <1>3
<1>5. \A s \in SUBSET D : g[s] = SumStep(f, g, s)
  <2>1. ASSUME NEW s \in SUBSET D PROVE s \in Small(Cardinality(D))
    BY FS_Subset
  <2> QED
    BY <1>4, <2>1
<1> DEFINE k == [s \in SUBSET D |-> g[s]]
<1>6. ASSUME NEW s \in SUBSET D PROVE k[s] = SumStep(f, k, s)
  <2>1. s # {} => s \ {Pick(s)} \in SUBSET D
    OBVIOUS
  <2> QED
    BY <1>5, <2>1 DEF SumStep
<1>7. k = [s \in SUBSET D |-> SumStep(f, k, s)]
  <2>1. k = [s \in SUBSET D |-> k[s]]
    OBVIOUS
  <2> HIDE DEF k
  <2> QED
    BY <1>6, <2>1
<1> HIDE DEF k
<1>8. k = SumTable(f, k)
  BY <1>7 DEF SumTable
<1> QED
  BY <1>8

\* A sum of integers is one, and lies between the multiples of two bounds of its terms.
LEMMA SumBounds ==
    ASSUME NEW D, IsFiniteSet(D), NEW f \in [D -> Int], NEW lo \in Int, NEW hi \in Int,
           \A x \in D : lo <= f[x] /\ f[x] <= hi
    PROVE  /\ SumFunction(f) \in Int /\ Cardinality(D) \in Nat
           /\ lo * Cardinality(D) <= SumFunction(f) /\ SumFunction(f) <= hi * Cardinality(D)
<1> DEFINE h == CHOOSE g : g = SumTable(f, g)
           Within(s) == h[s] \in Int /\ lo * Cardinality(s) <= h[s] /\ h[s] <= hi * Cardinality(s)
<1>1. DOMAIN f = D
  OBVIOUS
<1>2. SumFunction(f) = h[D]
  BY <1>1 DEF SumFunction, SumFunctionOnSet, FoldFunctionOnSet, MapThenFoldSet, SumTable, SumStep,
              Pick
<1>3. h = SumTable(f, h)
  BY <1>1, SumTableExists
<1> HIDE DEF h
<1>4. \A s \in SUBSET D : h[s] = SumStep(f, h, s)
  BY <1>1, <1>3 DEF SumTable
<1>5. \A s \in SUBSET D : IsFiniteSet(s) /\ Cardinality(s) \in Nat
  BY FS_Subset, FS_CardinalityType
<1> DEFINE bad   == {s \in SUBSET D : ~Within(s)}
           sizes == {Cardinality(s) : s \in bad}
<1>6. bad = {}
  <2> SUFFICES ASSUME bad # {} PROVE FALSE
    OBVIOUS
  <2>1. PICK n \in sizes : \A m \in sizes : n <= m
    <3>1. sizes \subseteq Nat /\ sizes # {}
      BY <1>5
    <3> HIDE DEF sizes
    <3> QED
      BY <3>1, LeastIs
  <2>2. PICK s \in bad : n = Cardinality(s)
    OBVIOUS
  <2>3. s # {}
    <3> SUFFICES ASSUME s = {} PROVE FALSE
      OBVIOUS
    <3>1. h[s] = 0 /\ Cardinality(s) = 0
      BY <1>4, FS_EmptySet DEF SumStep
    <3> QED
      BY <3>1
  <2> DEFINE x == Pick(s)  t == s \ {x}  c == Cardinality(s)
  <2>4. /\ s \in SUBSET D /\ x \in s /\ t \in SUBSET D /\ c \in Nat /\ c >= 1
        /\ Cardinality(t) = c - 1
    BY <1>5, <2>3, PickIs
  <2>5. h[s] = f[x] + h[t] /\ f[x] \in Int /\ lo <= f[x] /\ f[x] <= hi
    BY <1>4, <2>3, <2>4 DEF SumStep
  <2> HIDE DEF x, t
  <2>6. t \notin bad
    <3> SUFFICES ASSUME t \in bad PROVE FALSE
      OBVIOUS
    <3>1. c - 1 \in sizes /\ n = c
      BY <2>2, <2>4
    <3> HIDE DEF sizes, bad, c
    <3> QED
      BY <2>1, <2>4, <3>1
  <2> DEFINE v == h[t]  a == f[x]
  <2>7. v \in Int /\ lo * (c - 1) <= v /\ v <= hi * (c - 1)
    BY <2>4, <2>6
  <2>8. h[s] = a + v /\ a \in Int /\ lo <= a /\ a <= hi
    BY <2>5
  <2> HIDE DEF v, a, c
  <2>9. lo * (c - 1) + lo = lo * c /\ hi * (c - 1) + hi = hi * c
    BY <2>4
  <2>10. a + v \in Int /\ lo * c <= a + v /\ a + v <= hi * c
    BY <2>4, <2>7, <2>8, <2>9
  <2>11. Within(s)
    BY <2>8, <2>10 DEF c
  <2> QED
    BY <2>2, <2>11
<1>7. Within(D)
  BY <1>6
<1> QED
  BY <1>2, <1>5, <1>7

\* A mean, rounded down, has a value that is not above it and one that is not below it.
LEMMA MeanBetween ==
    ASSUME NEW s \in Int, NEW c \in Nat, c >= 1, NEW lo \in Int, NEW hi \in Int,
           lo * c <= s, s <= hi * c
    PROVE  s \div c \in Int /\ lo <= s \div c /\ s \div c <= hi
<1> DEFINE q == s \div c
           r == s % c
<1>1. q \in Int /\ r \in 0 .. c - 1 /\ s = c * q + r
  OBVIOUS
<1> HIDE DEF q, r
<1>2. lo <= q
  <2> SUFFICES ASSUME ~(lo <= q) PROVE FALSE
    OBVIOUS
  <2>1. lo - q \in Nat /\ lo - q >= 1
    BY <1>1
  <2>2. (lo - q) * c >= c
    <3>1. 1 * c <= (lo - q) * c
      BY <2>1, TimesKeeps
    <3> QED
      BY <3>1
  <2>3. (lo - q) * c = lo * c - c * q
    BY <1>1
  <2> QED
    BY <1>1, <2>2, <2>3
<1>3. q <= hi
  <2> SUFFICES ASSUME ~(q <= hi) PROVE FALSE
    OBVIOUS
  <2>1. q - hi \in Nat /\ q - hi >= 1
    BY <1>1
  <2>2. (q - hi) * c >= c
    <3>1. 1 * c <= (q - hi) * c
      BY <2>1, TimesKeeps
    <3> QED
      BY <3>1
  <2>3. (q - hi) * c = c * q - hi * c
    BY <1>1
  <2> QED
    BY <1>1, <2>2, <2>3
<1> QED
  BY <1>1, <1>2, <1>3 DEF q

LEMMA MeanReached ==
    ASSUME NEW D, IsFiniteSet(D), D # {}, NEW f \in [D -> Int]
    PROVE  /\ SumFunction(f) \div Cardinality(D) \in Int
           /\ \E x \in D : f[x] <= SumFunction(f) \div Cardinality(D)
           /\ \E x \in D : SumFunction(f) \div Cardinality(D) <= f[x]
<1> DEFINE V == {f[x] : x \in D}
           lo == Min(V)
           hi == Max(V)
           s  == SumFunction(f)
           c  == Cardinality(D)
<1>1. lo \in V /\ \A v \in V : lo <= v
  BY MinOf
<1>2. hi \in V /\ \A v \in V : v <= hi
  BY MaxOf
<1> HIDE DEF lo, hi
<1>3. lo \in Int /\ hi \in Int /\ \A x \in D : lo <= f[x] /\ f[x] <= hi
  BY <1>1, <1>2
<1>4. s \in Int /\ c \in Nat /\ lo * c <= s /\ s <= hi * c
  BY <1>3, SumBounds
<1>5. c >= 1
  BY PickIs
<1> HIDE DEF s, c
<1>6. s \div c \in Int /\ lo <= s \div c /\ s \div c <= hi
  BY <1>3, <1>4, <1>5, MeanBetween
<1> QED
  BY <1>1, <1>2, <1>6 DEF s, c

\* Counts of disjoint sets add up.
LEMMA DisjointUnion ==
    ASSUME NEW S, IsFiniteSet(S), NEW T, IsFiniteSet(T), S \cap T = {}
    PROVE  /\ IsFiniteSet(S \cup T)
           /\ Cardinality(S \cup T) = Cardinality(S) + Cardinality(T)
<1>1. /\ IsFiniteSet(S \cup T)
      /\ Cardinality(S \cup T) = Cardinality(S) + Cardinality(T) - Cardinality(S \cap T)
  BY FS_Union
<1>2. Cardinality(S) \in Nat /\ Cardinality(T) \in Nat /\ Cardinality(S \cap T) = 0
  BY FS_CardinalityType, FS_EmptySet
<1> QED
  BY <1>1, <1>2

\* The first of four names that hold.
LEMMA FirstOfFour ==
    ASSUME NEW A \in SUBSET (1 .. 4), A # {}
    PROVE  Min(A) = IF 1 \in A THEN 1 ELSE IF 2 \in A THEN 2 ELSE IF 3 \in A THEN 3 ELSE 4
<1>1. Min(A) \in A /\ \A x \in A : Min(A) <= x
  <2>1. A \subseteq 1 .. 4 /\ 1 \in Int /\ 4 \in Int
    OBVIOUS
  <2> QED
    BY <2>1, MinIs
<1> DEFINE m == Min(A)
<1>2. m \in A /\ \A x \in A : m <= x
  BY <1>1
<1> HIDE DEF m
<1>3. m \in 1 .. 4
  BY <1>2
<1>4. m = IF 1 \in A THEN 1 ELSE IF 2 \in A THEN 2 ELSE IF 3 \in A THEN 3 ELSE 4
  BY <1>2, <1>3
<1> QED
  BY <1>4 DEF m

\* Sums of numbers that are not negative are not negative ...
LEMMA SumNat ==
    ASSUME NEW D, IsFiniteSet(D), D # {}, NEW f \in [D -> Nat]
    PROVE  SumFunction(f) \in Nat
<1> DEFINE V == {f[x] : x \in D}
           hi == Max(V)
<1>1. f \in [D -> Int] /\ \A x \in D : f[x] \in Nat
  OBVIOUS
<1>2. hi \in V /\ \A v \in V : v <= hi
  BY <1>1, MaxOf
<1>3. hi \in Int /\ \A x \in D : 0 <= f[x] /\ f[x] <= hi
  BY <1>1, <1>2
<1> HIDE DEF hi
<1>4. SumFunction(f) \in Int /\ Cardinality(D) \in Nat /\ 0 * Cardinality(D) <= SumFunction(f)
  BY <1>1, <1>3, SumBounds
<1> QED
  BY <1>4

\* The sums over all subsets of a domain, in one table.
Sums(f) == CHOOSE g : g = SumTable(f, g)

LEMMA SumsIs ==
    ASSUME NEW f, IsFiniteSet(DOMAIN f)
    PROVE  /\ \A s \in SUBSET DOMAIN f : Sums(f)[s] = SumStep(f, Sums(f), s)
           /\ SumFunction(f) = Sums(f)[DOMAIN f]
<1>1. SumFunction(f) = Sums(f)[DOMAIN f]
  BY DEF SumFunction, SumFunctionOnSet, FoldFunctionOnSet, MapThenFoldSet, SumTable, SumStep,
         Pick, Sums
<1>2. Sums(f) = SumTable(f, Sums(f))
  <2>1. \E g : g = SumTable(f, g)
    BY SumTableExists
  <2> QED
    BY <2>1, Zenon DEF Sums
<1> QED
  BY <1>1, <1>2 DEF SumTable

\* What holds of a subset as soon as it holds of the smaller ones holds of all.
LEMMA BySize ==
    ASSUME NEW D, IsFiniteSet(D), NEW good,
           ASSUME NEW s \in SUBSET D,
                  \A t \in SUBSET D : Cardinality(t) < Cardinality(s) => t \in good
           PROVE  s \in good
    PROVE  \A s \in SUBSET D : s \in good
<1> DEFINE bad   == {s \in SUBSET D : s \notin good}
           sizes == {Cardinality(s) : s \in bad}
<1>1. \A s \in SUBSET D : IsFiniteSet(s) /\ Cardinality(s) \in Nat
  BY FS_Subset, FS_CardinalityType
<1> SUFFICES ASSUME bad # {} PROVE FALSE
  OBVIOUS
<1>2. PICK n \in sizes : \A m \in sizes : n <= m
  <2>1. sizes \subseteq Nat /\ sizes # {}
    BY <1>1
  <2> HIDE DEF sizes
  <2> QED
    BY <2>1, LeastIs
<1>3. PICK s \in bad : n = Cardinality(s)
  OBVIOUS
<1>4. ASSUME NEW t \in SUBSET D, Cardinality(t) < Cardinality(s) PROVE t \in good
  <2> SUFFICES ASSUME t \in bad PROVE FALSE
    OBVIOUS
  <2>1. Cardinality(t) \in sizes /\ Cardinality(t) \in Nat /\ n \in Nat
    BY <1>1, <1>3
  <2> HIDE DEF sizes
  <2> QED
    BY <1>2, <1>3, <1>4, <2>1
<1> QED
  BY <1>3, <1>4

\* One element out is one less.
LEMMA OneLess ==
    ASSUME NEW s, IsFiniteSet(s), NEW x \in s
    PROVE  Cardinality(s \ {x}) < Cardinality(s) /\ IsFiniteSet(s \ {x})
<1>1. /\ IsFiniteSet(s \ {x}) /\ Cardinality(s \ {x}) = Cardinality(s) - 1
      /\ Cardinality(s) \in Nat /\ Cardinality(s \ {x}) \in Nat
  BY FS_RemoveElement, FS_CardinalityType
<1> QED
  BY <1>1

\* h is a table of sums of f, whichever element is taken out first.
Summed(f, h, D) ==
    \A s \in SUBSET D : h[s] \in Nat /\ \A x \in s : h[s] = f[x] + h[s \ {x}]

LEMMA TakeOut ==
    ASSUME NEW D, IsFiniteSet(D), NEW f \in [D -> Nat]
    PROVE  Summed(f, Sums(f), D)
<1> DEFINE h == Sums(f)
           Good(s) == h[s] \in Nat /\ \A x \in s : h[s] = f[x] + h[s \ {x}]
           good == {s \in SUBSET D : Good(s)}
<1>1. \A s \in SUBSET D : h[s] = SumStep(f, h, s) /\ IsFiniteSet(s)
  BY SumsIs, FS_Subset
<1> HIDE DEF h
<1>2. ASSUME NEW s \in SUBSET D,
             \A t \in SUBSET D : Cardinality(t) < Cardinality(s) => t \in good
      PROVE  s \in good
  <2>1. CASE s = {}
    <3>1. h[s] = 0
      BY <1>1, <2>1 DEF SumStep
    <3> QED
      BY <2>1, <3>1
  <2>2. CASE s # {}
    <3> DEFINE y == Pick(s)
    <3>1. y \in s /\ h[s] = f[y] + h[s \ {y}]
      BY <1>1, <2>2, PickIs DEF SumStep
    <3> HIDE DEF y
    <3>2. ASSUME NEW x \in s
          PROVE  h[s \ {x}] \in Nat /\ \A z \in s \ {x} : h[s \ {x}] = f[z] + h[(s \ {x}) \ {z}]
      <4>1. s \ {x} \in SUBSET D /\ Cardinality(s \ {x}) < Cardinality(s)
        BY <1>1, OneLess
      <4>2. s \ {x} \in good
        BY <1>2, <4>1
      <4> QED
        BY <4>2
    <3>3. \A x \in s : f[x] \in Nat
      OBVIOUS
    <3>4. h[s] \in Nat
      <4>1. h[s \ {y}] \in Nat /\ f[y] \in Nat
        BY <3>1, <3>2, <3>3
      <4> QED
        BY <3>1, <4>1
    <3>5. ASSUME NEW x \in s PROVE h[s] = f[x] + h[s \ {x}]
      <4>1. CASE x = y
        BY <3>1, <4>1
      <4>2. CASE x # y
        <5>1. x \in s \ {y} /\ y \in s \ {x} /\ (s \ {y}) \ {x} = (s \ {x}) \ {y}
          BY <3>1, <4>2
        <5> DEFINE r == (s \ {x}) \ {y}
        <5>2. h[s \ {y}] = f[x] + h[r]
          BY <3>1, <3>2, <5>1
        <5>3. h[s \ {x}] = f[y] + h[r]
          BY <3>2, <5>1
        <5>4. h[r] \in Nat
          <6>1. s \ {x} \in SUBSET D /\ r \in SUBSET D
            OBVIOUS
          <6>2. Cardinality(s \ {x}) < Cardinality(s) /\ IsFiniteSet(s \ {x}) /\ IsFiniteSet(s)
            BY <1>1, OneLess
          <6>3. Cardinality(r) < Cardinality(s \ {x}) /\ IsFiniteSet(r)
            BY <5>1, <6>2, OneLess
          <6>4. /\ Cardinality(s) \in Nat /\ Cardinality(s \ {x}) \in Nat
                /\ Cardinality(r) \in Nat
            BY <6>2, <6>3, FS_CardinalityType
          <6> HIDE DEF r
          <6>5. Cardinality(r) < Cardinality(s)
            BY <6>2, <6>3, <6>4
          <6>6. r \in good
            BY <1>2, <6>1, <6>5
          <6> QED
            BY <6>6
        <5> HIDE DEF r
        <5>5. f[x] \in Nat /\ f[y] \in Nat
          BY <3>1, <3>3
        <5> QED
          BY <3>1, <5>2, <5>3, <5>4, <5>5
      <4> QED
        BY <4>1, <4>2
    <3> QED
      BY <3>4, <3>5
  <2> QED
    BY <2>1, <2>2
<1>3. \A s \in SUBSET D : s \in good
  <2> HIDE DEF good
  <2> QED
    BY <1>2, BySize
<1> QED
  BY <1>3 DEF h, Summed

\* The sum of two parts is the sum of the whole.
LEMMA SumsAdd ==
    ASSUME NEW D, IsFiniteSet(D), NEW f \in [D -> Nat], NEW B \in SUBSET D
    PROVE  \A s \in SUBSET D : s \cap B = {} => Sums(f)[s \cup B] = Sums(f)[s] + Sums(f)[B]
<1> DEFINE h == Sums(f)
           good == {s \in SUBSET D : s \cap B = {} => h[s \cup B] = h[s] + h[B]}
<1>1. \A s \in SUBSET D : h[s] \in Nat /\ \A x \in s : h[s] = f[x] + h[s \ {x}]
  <2>1. Summed(f, h, D)
    BY TakeOut
  <2> QED
    BY <2>1 DEF Summed
<1>2. h[{}] = 0
  BY SumsIs DEF SumStep
<1> HIDE DEF h
<1>3. ASSUME NEW s \in SUBSET D,
             \A t \in SUBSET D : Cardinality(t) < Cardinality(s) => t \in good
      PROVE  s \in good
  <2> SUFFICES ASSUME s \cap B = {} PROVE h[s \cup B] = h[s] + h[B]
    OBVIOUS
  <2>1. CASE s = {}
    <3>1. s \cup B = B /\ h[B] \in Nat
      BY <1>1, <2>1
    <3> QED
      BY <1>2, <2>1, <3>1
  <2>2. CASE s # {}
    <3>1. PICK x : x \in s
      BY <2>2
    <3> DEFINE t == s \ {x}
    <3>2. t \in SUBSET D /\ t \cap B = {} /\ (s \cup B) \ {x} = t \cup B
      BY <3>1
    <3>3. Cardinality(t) < Cardinality(s)
      BY <3>1, OneLess, FS_Subset
    <3>4. t \in good
      BY <1>3, <3>2, <3>3
    <3>5. h[t \cup B] = h[t] + h[B]
      BY <3>2, <3>4
    <3>6. h[s] = f[x] + h[t] /\ h[s \cup B] = f[x] + h[t \cup B]
      <4>1. s \cup B \in SUBSET D /\ x \in s \cup B
        BY <3>1
      <4> QED
        BY <1>1, <3>1, <3>2, <4>1
    <3>7. h[t] \in Nat /\ h[B] \in Nat /\ f[x] \in Nat
      BY <1>1, <3>1, <3>2
    <3> HIDE DEF t
    <3> QED
      BY <3>5, <3>6, <3>7
  <2> QED
    BY <2>1, <2>2
<1>4. \A s \in SUBSET D : s \in good
  <2> HIDE DEF good
  <2> QED
    BY <1>3, BySize
<1> QED
  BY <1>4 DEF h

\* The sum over a part is an entry of the table.
LEMMA SumOfPart ==
    ASSUME NEW D, IsFiniteSet(D), NEW f \in [D -> Nat], NEW A \in SUBSET D
    PROVE  SumFunction([x \in A |-> f[x]]) = Sums(f)[A]
<1> DEFINE h == Sums(f)
           g == [x \in A |-> f[x]]
           k == Sums(g)
           good == {s \in SUBSET A : k[s] = h[s]}
<1>0. IsFiniteSet(A) /\ DOMAIN g = A /\ g \in [A -> Nat]
  BY FS_Subset
<1>1. SumFunction(g) = k[A] /\ \A s \in SUBSET A : k[s] = SumStep(g, k, s)
  <2> HIDE DEF g
  <2> QED
    BY <1>0, SumsIs
<1>2. \A s \in SUBSET D : h[s] = SumStep(f, h, s)
  BY SumsIs
<1> HIDE DEF h, k
<1>3. ASSUME NEW s \in SUBSET A,
             \A t \in SUBSET A : Cardinality(t) < Cardinality(s) => t \in good
      PROVE  s \in good
  <2>1. CASE s = {}
    BY <1>1, <1>2, <2>1 DEF SumStep
  <2>2. CASE s # {}
    <3> DEFINE x == Pick(s)
    <3>1. s \in SUBSET D /\ IsFiniteSet(s)
      BY <1>0, FS_Subset
    <3>2. x \in s
      BY <2>2, <3>1, PickIs
    <3>3. k[s] = g[x] + k[s \ {x}] /\ h[s] = f[x] + h[s \ {x}]
      <4> HIDE DEF g
      <4> QED
        BY <1>1, <1>2, <2>2, <3>1 DEF SumStep
    <3> HIDE DEF x
    <3>4. s \ {x} \in good
      <4>1. s \ {x} \in SUBSET A /\ Cardinality(s \ {x}) < Cardinality(s)
        BY <3>1, <3>2, OneLess
      <4> HIDE DEF good
      <4> QED
        BY <1>3, <4>1
    <3>5. g[x] = f[x]
      BY <3>2
    <3> QED
      BY <3>3, <3>4, <3>5
  <2> QED
    BY <2>1, <2>2
<1>4. \A s \in SUBSET A : s \in good
  <2> HIDE DEF good
  <2> QED
    BY <1>0, <1>3, BySize
<1> QED
  BY <1>1, <1>4 DEF h

\* A sum over D, part by part.
PartsAddUp(f, D, key, K) ==
    SumFunction([l \in K |-> Sums(f)[{i \in D : key[i] = l}]]) = Sums(f)[{i \in D : key[i] \in K}]

LEMMA SumByKey ==
    ASSUME NEW D, IsFiniteSet(D), NEW f \in [D -> Nat], NEW K, IsFiniteSet(K), NEW key
    PROVE  PartsAddUp(f, D, key, K)
<1> DEFINE h == Sums(f)
           Part(s) == {i \in D : key[i] \in s}
           g == [l \in K |-> h[{i \in D : key[i] = l}]]
           k == Sums(g)
           good == {s \in SUBSET K : k[s] = h[Part(s)]}
<1>1. \A s \in SUBSET D : h[s] \in Nat
  <2>1. Summed(f, h, D)
    BY TakeOut
  <2> QED
    BY <2>1 DEF Summed
<1>2. h[{}] = 0
  BY SumsIs DEF SumStep
<1>3. \A s, t \in SUBSET D : s \cap t = {} => h[s \cup t] = h[s] + h[t]
  BY SumsAdd
<1> HIDE DEF h
<1>4. DOMAIN g = K /\ g \in [K -> Nat]
  <2>1. \A l \in K : {i \in D : key[i] = l} \in SUBSET D
    OBVIOUS
  <2> QED
    BY <1>1, <2>1
<1>5. \A l \in K : g[l] = h[{i \in D : key[i] = l}]
  OBVIOUS
<1> HIDE DEF g
<1>6. /\ SumFunction(g) = k[K] /\ \A s \in SUBSET K : k[s] = SumStep(g, k, s)
  BY <1>4, SumsIs
<1> HIDE DEF k
<1>7. ASSUME NEW s \in SUBSET K,
             \A t \in SUBSET K : Cardinality(t) < Cardinality(s) => t \in good
      PROVE  s \in good
  <2>1. CASE s = {}
    <3>1. k[s] = 0
      BY <1>6, <2>1 DEF SumStep
    <3>2. Part(s) = {}
      BY <2>1
    <3> HIDE DEF Part
    <3> QED
      BY <1>2, <3>1, <3>2
  <2>2. CASE s # {}
    <3> DEFINE x == Pick(s)
    <3>1. IsFiniteSet(s)
      BY FS_Subset
    <3>2. x \in s
      BY <2>2, <3>1, PickIs
    <3>3. k[s] = g[x] + k[s \ {x}]
      BY <1>6, <2>2 DEF SumStep
    <3> HIDE DEF x
    <3>4. s \ {x} \in good
      <4>1. s \ {x} \in SUBSET K /\ Cardinality(s \ {x}) < Cardinality(s)
        BY <3>1, <3>2, OneLess
      <4> HIDE DEF good
      <4> QED
        BY <1>7, <4>1
    <3> DEFINE A == {i \in D : key[i] = x}
    <3>5. /\ Part(s) = A \cup Part(s \ {x}) /\ A \cap Part(s \ {x}) = {}
          /\ A \in SUBSET D /\ Part(s \ {x}) \in SUBSET D
      BY <3>2
    <3>6. g[x] = h[A] /\ k[s \ {x}] = h[Part(s \ {x})]
      BY <1>5, <3>2, <3>4
    <3> HIDE DEF A, Part
    <3>7. h[Part(s)] = h[A] + h[Part(s \ {x})]
      BY <1>3, <3>5
    <3> QED
      BY <3>3, <3>6, <3>7
  <2> QED
    BY <2>1, <2>2
<1>8. \A s \in SUBSET K : s \in good
  <2> HIDE DEF good
  <2> QED
    BY <1>7, BySize
<1>9. SumFunction(g) = h[Part(K)]
  BY <1>6, <1>8
<1> QED
  BY <1>9 DEF g, h, PartsAddUp

\* ... and neither are their quotients.
LEMMA QuotientNat ==
    ASSUME NEW a \in Nat, NEW b \in Nat, b >= 1 PROVE a \div b \in Nat
<1>1. a \div b \in Int /\ a % b \in 0 .. b - 1 /\ a = b * (a \div b) + (a % b)
  OBVIOUS
<1> DEFINE q == a \div b
<1> HIDE DEF q
<1>2. q \in Int /\ b * q > -b
  BY <1>1 DEF q
<1>3. q >= 0
  <2> SUFFICES ASSUME ~(q >= 0) PROVE FALSE
    OBVIOUS
  <2>1. 1 * b <= (-q) * b
    <3>1. 1 \in Nat /\ -q \in Nat /\ 1 <= -q
      BY <1>2
    <3> QED
      BY <3>1, TimesKeeps
  <2>2. (-q) * b = -(b * q)
    BY <1>2
  <2> QED
    BY <1>2, <2>1, <2>2
<1> QED
  BY <1>2, <1>3 DEF q

\* The lexicographic order of keys of one length is a strict total order.
LEMMA AboveOrder ==
    ASSUME NEW n \in Nat
    PROVE  /\ \A a \in [1 .. n -> Int] : ~Above(a, a)
           /\ \A a, b, c \in [1 .. n -> Int] : Above(a, b) /\ Above(b, c) => Above(a, c)
           /\ \A a, b \in [1 .. n -> Int] : a = b \/ Above(a, b) \/ Above(b, a)
<1> DEFINE K == [1 .. n -> Int]
<1>0. \A a \in K : DOMAIN a = 1 .. n /\ \A k \in 1 .. n : a[k] \in Int
  OBVIOUS
<1>1. \A a \in K : ~Above(a, a)
  BY <1>0 DEF Above
<1>2. ASSUME NEW a \in K, NEW b \in K, NEW c \in K, Above(a, b), Above(b, c) PROVE Above(a, c)
  <2>1. PICK k \in 1 .. n : a[k] > b[k] /\ \A j \in 1 .. k - 1 : a[j] = b[j]
    BY <1>0, <1>2 DEF Above
  <2>2. PICK m \in 1 .. n : b[m] > c[m] /\ \A j \in 1 .. m - 1 : b[j] = c[j]
    BY <1>0, <1>2 DEF Above
  <2> DEFINE l == IF k < m THEN k ELSE m
  <2>3. l \in 1 .. n /\ \A j \in 1 .. l - 1 : j \in 1 .. k - 1 /\ j \in 1 .. m - 1
    OBVIOUS
  <2>4. \A j \in 1 .. l - 1 : a[j] = c[j]
    BY <2>1, <2>2, <2>3
  <2>5. a[l] > c[l]
    <3>1. a[l] \in Int /\ b[l] \in Int /\ c[l] \in Int
      BY <1>0, <2>3
    <3>2. CASE k < m
      BY <2>1, <2>2, <3>1, <3>2
    <3>3. CASE k = m
      BY <2>1, <2>2, <3>1, <3>3
    <3>4. CASE k > m
      BY <2>1, <2>2, <3>1, <3>4
    <3> QED
      BY <3>2, <3>3, <3>4
  <2> HIDE DEF l
  <2> QED
    BY <1>0, <2>3, <2>4, <2>5 DEF Above
<1>3. ASSUME NEW a \in K, NEW b \in K, a # b PROVE Above(a, b) \/ Above(b, a)
  <2> DEFINE D == {k \in 1 .. n : a[k] # b[k]}
  <2>1. D \subseteq Nat /\ D # {}
    BY <1>3
  <2>2. PICK k \in D : \A j \in D : k <= j
    <3> HIDE DEF D
    <3> QED
      BY <2>1, LeastIs
  <2>3. \A j \in 1 .. k - 1 : a[j] = b[j]
    BY <2>2
  <2>4. k \in 1 .. n /\ a[k] \in Int /\ b[k] \in Int /\ a[k] # b[k]
    BY <1>0
  <2>5. a[k] > b[k] \/ b[k] > a[k]
    BY <2>4
  <2> QED
    BY <1>0, <2>3, <2>4, <2>5 DEF Above
<1> QED
  BY <1>1, <1>2, <1>3

\* Finitely many elements that their sort keys and their places in a list tell apart.
Sortable(S, n, key, rank) ==
    /\ IsFiniteSet(S) /\ S # {} /\ n \in Nat
    /\ \A i \in S : key[i] \in [1 .. n -> Int]
    /\ \A i \in S : rank[i] \in Int
    /\ \A i, j \in S : key[i] = key[j] /\ rank[i] = rank[j] => i = j

\* They have a first one: what a stable sort by key, largest first, puts in front.
LEMMA FirstExists ==
    ASSUME NEW S, NEW n, NEW key, NEW rank, Sortable(S, n, key, rank)
    PROVE  \E i \in S : \A j \in S \ {i} :
              Above(key[i], key[j]) \/ (key[i] = key[j] /\ rank[i] < rank[j])
<1> DEFINE Wins(i, j) == Above(key[i], key[j]) \/ (key[i] = key[j] /\ rank[i] < rank[j])
           R == {p \in S \X S : Wins(p[1], p[2])}
<1> USE DEF Sortable
<1>1. \A i, j \in S : <<i, j>> \in R <=> Wins(i, j)
  OBVIOUS
<1> HIDE DEF R
<1>2. \A i \in S : ~Wins(i, i)
  BY AboveOrder
<1>3. ASSUME NEW i \in S, NEW j \in S, NEW k \in S, Wins(i, j), Wins(j, k) PROVE Wins(i, k)
  <2> DEFINE a == key[i]  b == key[j]  c == key[k]
  <2>1. /\ a \in [1 .. n -> Int] /\ b \in [1 .. n -> Int] /\ c \in [1 .. n -> Int]
        /\ rank[i] \in Int /\ rank[j] \in Int /\ rank[k] \in Int
    OBVIOUS
  <2> HIDE DEF a, b, c
  <2>2. Above(a, b) \/ (a = b /\ rank[i] < rank[j])
    BY <1>3 DEF a, b
  <2>3. Above(b, c) \/ (b = c /\ rank[j] < rank[k])
    BY <1>3 DEF b, c
  <2>4. Above(a, b) /\ Above(b, c) => Above(a, c)
    BY <2>1, AboveOrder
  <2>5. Above(a, c) \/ (a = c /\ rank[i] < rank[k])
    BY <2>1, <2>2, <2>3, <2>4
  <2> QED
    BY <2>5 DEF a, c
<1>4. ASSUME NEW i \in S, NEW j \in S, i # j PROVE Wins(i, j) \/ Wins(j, i)
  <2> DEFINE a == key[i]  b == key[j]
  <2>1. /\ a \in [1 .. n -> Int] /\ b \in [1 .. n -> Int]
        /\ rank[i] \in Int /\ rank[j] \in Int
    OBVIOUS
  <2>2. a = b => rank[i] # rank[j]
    BY <1>4
  <2> HIDE DEF a, b
  <2>3. a = b \/ Above(a, b) \/ Above(b, a)
    BY <2>1, AboveOrder
  <2>4. \/ Above(a, b) \/ (a = b /\ rank[i] < rank[j])
        \/ Above(b, a) \/ (b = a /\ rank[j] < rank[i])
    BY <2>1, <2>2, <2>3
  <2> QED
    BY <2>4 DEF a, b
<1> HIDE DEF Wins
<1>5. /\ \A i \in S : <<i, i>> \notin R
      /\ \A i, j, k \in S : <<i, j>> \in R /\ <<j, k>> \in R => <<i, k>> \in R
  BY <1>1, <1>2, <1>3
<1>6. PICK i \in S : \A j \in S : <<j, i>> \notin R
  BY <1>5, MinimalIs
<1>7. \A j \in S \ {i} : Wins(i, j)
  BY <1>1, <1>4, <1>6
<1> QED
  BY <1>7 DEF Wins

-----------------------------------------------------------------------------
(* The rows of an experiment.                                              *)

\* The inductive invariant: every decision was made by the assignment of its own request at
\* some time, or without the experiment.  It is what the rows of a report are read from.
Decided ==
    \A r \in DOMAIN decisions :
       decisions[r] = inactiveAssignment \/ \E now \in Times : decisions[r] = Assign(r, now)

\* The assignment reads the design and the samples only, which no step changes.
LEMMA AssignKeeps ==
    ASSUME UNCHANGED <<design, treated>>, NEW r, NEW now PROVE Assign(r, now)' = Assign(r, now)
  BY DEF Assign, inactiveAssignment

LEMMA DecideKeeps ==
    ASSUME Decided, NEW r, NEW now \in Times, Decide(r, now) PROVE Decided'
<1>1. UNCHANGED <<design, treated>>
  BY DEF Decide
<1>2. PICK a \in {Assign(r, now), inactiveAssignment} :
         decisions' = [q \in DOMAIN decisions \cup {r} |-> IF q = r THEN a ELSE decisions[q]]
  BY DEF Decide
<1>3. \A q, t : Assign(q, t)' = Assign(q, t)
  BY <1>1, AssignKeeps
<1>4. ASSUME NEW q \in DOMAIN decisions'
      PROVE  \/ decisions'[q] = inactiveAssignment
             \/ \E t \in Times : decisions'[q] = Assign(q, t)'
  <2>1. CASE q = r
    BY <1>2, <1>3, <2>1
  <2>2. CASE q # r
    <3>1. q \in DOMAIN decisions /\ decisions'[q] = decisions[q]
      BY <1>2, <1>4, <2>2
    <3> QED
      BY <1>3, <3>1 DEF Decided
  <2> QED
    BY <2>1, <2>2
<1>5. inactiveAssignment' = inactiveAssignment
  BY DEF inactiveAssignment
<1> QED
  BY <1>4, <1>5 DEF Decided

LEMMA OthersKeep ==
    ASSUME Decided, UNCHANGED <<design, treated, decisions>> PROVE Decided'
<1>1. \A q, t : Assign(q, t)' = Assign(q, t)
  BY AssignKeeps
<1> QED
  BY <1>1 DEF Decided, inactiveAssignment

\* A row that is compared was assigned by the running experiment, outside the guards.
LEMMA RowAssigned ==
    ASSUME Decided, NEW r \in eligible
    PROVE  \E now \in Times :
             /\ decisions[r] = Assign(r, now) /\ decisions[r].at = now
             /\ now - StartAt \in 0 .. MaxDuration - 1
             /\ decisions[r].policy \in {"control", "treatment"}
             /\ decisions[r].probability = 50
             /\ design = "switchback" =>
                   /\ (now - StartAt) % Window \in Warmup .. Window - Cooldown - 1
                   /\ decisions[r].window = <<"window", (now - StartAt) \div Window>>
                   /\ decisions[r].policy = IF (now - StartAt) \div Window \in treated
                                            THEN "treatment" ELSE "control"
             /\ design # "switchback" => decisions[r].window = <<"isolated-pool">>
<1>1. r \in DOMAIN decisions /\ ~decisions[r].warmup /\ ~decisions[r].guard
  BY DEF eligible, guarded, joined
<1>2. decisions[r] # inactiveAssignment
  BY <1>1 DEF inactiveAssignment
<1>3. PICK now \in Times : decisions[r] = Assign(r, now)
  BY <1>1, <1>2 DEF Decided
<1> DEFINE elapsed == now - StartAt
           offset  == elapsed % Window
           index   == elapsed \div Window
           unit    == IF design = "switchback" THEN index ELSE r
           row     == [policy |-> IF unit \in treated THEN "treatment" ELSE "control",
                       window |-> IF design = "switchback" THEN <<"window", index>>
                                  ELSE <<"isolated-pool">>,
                       warmup |-> design = "switchback" /\ offset < Warmup,
                       guard  |-> design = "switchback"
                                  /\ (offset < Warmup \/ Window - offset <= Cooldown),
                       probability |-> 50, at |-> now]
<1>4. ~(now < StartAt \/ elapsed >= MaxDuration) /\ decisions[r] = row
  BY <1>2, <1>3 DEF Assign
<1>5. now \in Int /\ elapsed \in 0 .. MaxDuration - 1
  <2>1. ~(now < StartAt) /\ ~(now - StartAt >= MaxDuration)
    BY <1>4
  <2>2. now \in Int /\ StartAt \in Int /\ MaxDuration \in Nat
    BY ExperimentAssumption
  <2> QED
    BY ONLY <2>1, <2>2
<1>6. offset \in 0 .. Window - 1
  BY <1>5, ExperimentAssumption
<1> HIDE DEF offset, index, elapsed
<1>7. decisions[r].at = now /\ decisions[r].policy \in {"control", "treatment"}
      /\ decisions[r].probability = 50
  BY <1>4
<1>8. design = "switchback" => /\ offset \in Warmup .. Window - Cooldown - 1
                               /\ decisions[r].window = <<"window", index>>
                               /\ decisions[r].policy = IF index \in treated THEN "treatment"
                                                        ELSE "control"
  <2> HAVE design = "switchback"
  <2>1. ~(offset < Warmup) /\ ~(Window - offset <= Cooldown)
    <3>1. decisions[r].guard = (design = "switchback"
                                /\ (offset < Warmup \/ Window - offset <= Cooldown))
      BY <1>4
    <3> HIDE DEF row
    <3> QED
      BY <1>1, <3>1, Zenon
  <2>2. offset \in Warmup .. Window - Cooldown - 1
    BY <1>6, <2>1, ExperimentAssumption
  <2> QED
    BY <1>4, <2>2
<1>9. design # "switchback" => decisions[r].window = <<"isolated-pool">>
  BY <1>4
<1> QED
  BY <1>3, <1>5, <1>7, <1>8, <1>9 DEF offset, index, elapsed

\* Every row, compared or not, has a probability and an arm.
LEMMA AssignmentHolds == ASSUME Decided PROVE assignment_ok
<1> SUFFICES ASSUME NEW r \in joined
             PROVE  /\ 0 < decisions[r].probability /\ decisions[r].probability <= 100
                    /\ decisions[r].policy \in {"control", "treatment"}
  BY DEF assignment_ok
<1>1. r \in DOMAIN decisions
  BY DEF joined
<1>2. ASSUME NEW now \in Times
      PROVE  /\ Assign(r, now).probability \in {50, 100}
             /\ Assign(r, now).policy \in {"control", "treatment"}
  BY DEF Assign, inactiveAssignment
<1>3. inactiveAssignment.probability = 100 /\ inactiveAssignment.policy = "control"
  BY DEF inactiveAssignment
<1>4. /\ decisions[r].probability \in {50, 100}
      /\ decisions[r].policy \in {"control", "treatment"}
  BY <1>1, <1>2, <1>3 DEF Decided
<1> QED
  BY <1>4

\* The rows of one window of a switchback are of one arm.
LEMMA OneArmPerWindow ==
    ASSUME Decided, NEW r \in eligible, NEW q \in eligible, design = "switchback",
           \/ decisions[r].window = decisions[q].window
           \/ (decisions[r].at - StartAt) \div Window = (decisions[q].at - StartAt) \div Window
    PROVE  decisions[r].policy = decisions[q].policy
<1>1. PICK i : /\ decisions[r].window = <<"window", i>>
               /\ i = (decisions[r].at - StartAt) \div Window
               /\ decisions[r].policy = IF i \in treated THEN "treatment" ELSE "control"
  BY RowAssigned
<1>2. PICK j : /\ decisions[q].window = <<"window", j>>
               /\ j = (decisions[q].at - StartAt) \div Window
               /\ decisions[q].policy = IF j \in treated THEN "treatment" ELSE "control"
  BY RowAssigned
<1>3. i = j
  BY <1>1, <1>2
<1> QED
  BY <1>1, <1>2, <1>3

LEMMA NoneContaminated == ASSUME Decided PROVE contaminated_windows = {}
<1> SUFFICES ASSUME NEW w \in contaminated_windows PROVE FALSE
  OBVIOUS
<1> DEFINE rows     == {r \in eligible : decisions[r].window = w}
           policies == {decisions[r].policy : r \in rows}
<1>1. /\ w # <<"isolated-pool">> /\ Cardinality(policies) > 1
      /\ \E r \in eligible : w = decisions[r].window
  BY DEF contaminated_windows
<1>2. PICK r \in rows : TRUE
  BY <1>1
<1>3. design = "switchback"
  BY <1>1, <1>2, RowAssigned
<1>4. \A q \in rows : decisions[q].policy = decisions[r].policy
  BY <1>2, <1>3, OneArmPerWindow
<1>5. policies = {decisions[r].policy}
  BY <1>2, <1>4
<1>6. Cardinality(policies) = 1
  BY <1>5, FS_Singleton
<1> QED
  BY <1>1, <1>6

LEMMA DecidedImplies == ASSUME Decided PROVE RowsComparable
<1>1. ASSUME NEW r \in eligible
      PROVE  /\ decisions[r].at - StartAt \in 0 .. MaxDuration - 1
             /\ design = "switchback" =>
                   (decisions[r].at - StartAt) % Window \in Warmup .. Window - Cooldown - 1
  BY <1>1, RowAssigned
<1>2. ASSUME NEW r \in eligible, NEW q \in eligible, design = "switchback",
             (decisions[r].at - StartAt) \div Window = (decisions[q].at - StartAt) \div Window
      PROVE  decisions[r].policy = decisions[q].policy
  BY <1>2, OneArmPerWindow
<1> QED
  BY <1>1, <1>2, AssignmentHolds, NoneContaminated DEF RowsComparable

LEMMA DecidedAlways == Spec => []Decided
<1>1. Init => Decided
  BY DEF Init, Decided
<1>2. Decided /\ [Next]_vars => Decided'
  <2> SUFFICES ASSUME Decided, [Next]_vars PROVE Decided'
    OBVIOUS
  <2>1. ASSUME NEW r \in Requests, NEW now \in Times, Decide(r, now) PROVE Decided'
    BY <2>1, DecideKeeps
  <2>2. ASSUME NEW r \in Requests, NEW o \in Outcomes, Complete(r, o) PROVE Decided'
    BY <2>2, OthersKeep DEF Complete
  <2>3. CASE UNCHANGED vars
    BY <2>3, OthersKeep DEF vars
  <2> QED
    BY <2>1, <2>2, <2>3 DEF Next
<1> QED
  BY <1>1, <1>2, PTL DEF Spec

\* Whatever the requests, the times and the samples, and for every window, warm-up, cool-down
\* and duration that NewController accepts: the rows an evaluation compares were decided by
\* the running experiment outside the guards of their window, and no window of a switchback
\* serves both arms (controller.go Assign, policy_evaluation.py).
THEOREM RowsAlwaysComparable == Spec => []RowsComparable
<1>1. Decided => RowsComparable
  BY DecidedImplies
<1> QED
  BY <1>1, DecidedAlways, PTL

-----------------------------------------------------------------------------
(* The verdict on an experiment.                                           *)

\* No outcome comes without its decision.
Answered == DOMAIN outcomes \subseteq DOMAIN decisions

LEMMA AnsweredAlways == Spec => []Answered
<1>1. Init => Answered
  BY DEF Init, Answered
<1>2. Answered /\ [Next]_vars => Answered'
  <2> SUFFICES ASSUME Answered, [Next]_vars PROVE Answered'
    OBVIOUS
  <2>1. ASSUME NEW r \in Requests, NEW now \in Times, Decide(r, now) PROVE Answered'
    <3>1. DOMAIN decisions' = DOMAIN decisions \cup {r} /\ outcomes' = outcomes
      BY <2>1 DEF Decide
    <3> QED
      BY <3>1 DEF Answered
  <2>2. ASSUME NEW r \in Requests, NEW o \in Outcomes, Complete(r, o) PROVE Answered'
    BY <2>2 DEF Complete, Answered
  <2>3. CASE UNCHANGED vars
    BY <2>3 DEF vars, Answered
  <2> QED
    BY <2>1, <2>2, <2>3 DEF Next
<1> QED
  BY <1>1, <1>2, PTL DEF Spec

\* The report is made of the rows that are compared: it stays while they do.
LEMMA SameRowsSameVerdict ==
    ASSUME eligible' = eligible, assignment_ok, assignment_ok',
           \A r \in eligible : decisions'[r] = decisions[r] /\ outcomes'[r] = outcomes[r]
    PROVE  promotion_eligible' = promotion_eligible
<1>1. \A policy : Arm(policy)' = Arm(policy)
  BY DEF Arm
<1>2. \A policy : \A r \in Arm(policy) : decisions'[r] = decisions[r] /\ outcomes'[r] = outcomes[r]
  BY DEF Arm
<1>3. \A policy : Sampled(Arm(policy))' = Sampled(Arm(policy))
  BY <1>1, <1>2 DEF Sampled
<1>4. \A policy : Sampled(Arm(policy)) \subseteq Arm(policy)
  BY DEF Sampled
<1>5. \A policy : ttfts(Arm(policy))' = ttfts(Arm(policy))
  BY <1>2, <1>3, <1>4 DEF ttfts
<1>6. ASSUME NEW policy
      PROVE  /\ arm_metrics(Arm(policy)).error_rate' = arm_metrics(Arm(policy)).error_rate
             /\ arm_metrics(Arm(policy)).fallback_rate' = arm_metrics(Arm(policy)).fallback_rate
             /\ arm_metrics(Arm(policy)).ttft_p95' = arm_metrics(Arm(policy)).ttft_p95
  <2> DEFINE A == Arm(policy)
  <2>1. /\ {r \in A : ~outcomes[r].success}' = {r \in A : ~outcomes[r].success}
        /\ {r \in A : outcomes[r].fallback}' = {r \in A : outcomes[r].fallback}
    BY <1>1, <1>2
  <2>2. A' = A /\ Sampled(A)' = Sampled(A) /\ ttfts(A)' = ttfts(A)
    BY <1>1, <1>3, <1>5
  <2> HIDE DEF A
  <2>3. arm_metrics(A).error_rate' = arm_metrics(A).error_rate
    BY <2>1, <2>2 DEF arm_metrics, Rate
  <2>4. arm_metrics(A).fallback_rate' = arm_metrics(A).fallback_rate
    BY <2>1, <2>2 DEF arm_metrics, Rate
  <2>5. arm_metrics(A).ttft_p95' = arm_metrics(A).ttft_p95
    BY <2>2 DEF arm_metrics
  <2> QED
    BY <2>3, <2>4, <2>5 DEF A
<1>7. \A policy : window_means(Arm(policy))' = window_means(Arm(policy))
  <2> SUFFICES ASSUME NEW policy PROVE window_means(Arm(policy))' = window_means(Arm(policy))
    OBVIOUS
  <2> DEFINE S == Sampled(Arm(policy))
             W == {decisions[r].window : r \in S}
             Of(w) == {r \in S : decisions[r].window = w}
  <2>1. S' = S /\ ttfts(Arm(policy))' = ttfts(Arm(policy))
    BY <1>3, <1>5
  <2>2. \A r \in S : decisions'[r] = decisions[r]
    BY <1>2, <1>4
  <2> HIDE DEF S
  <2>3. W' = W /\ \A w : Of(w)' = Of(w)
    BY <2>1, <2>2
  <2> DEFINE mark(w) == [window |-> w, mean |-> mean(Restrict(ttfts(Arm(policy)), Of(w)))]
  <2>4. \A w : mark(w)' = mark(w)
    <3> HIDE DEF Of
    <3> QED
      BY <2>1, <2>3
  <2>5. window_means(Arm(policy)) = {mark(w) : w \in W}
    BY DEF window_means, S
  <2>6. window_means(Arm(policy))' = {mark(w)' : w \in W'}
    BY DEF window_means, S
  <2> HIDE DEF mark, W
  <2>7. {mark(w)' : w \in W'} = {mark(w) : w \in W}
    BY <2>3, <2>4
  <2> QED
    BY <2>5, <2>6, <2>7
<1>8. MayImprove' = MayImprove
  <2>1. clustered' = clustered
    BY <1>7 DEF clustered
  <2>2. \A policy : Values(policy)' = Values(policy)
    BY <1>5, <1>7, <2>1 DEF Values
  <2> QED
    BY <2>2 DEF MayImprove
<1>9. contaminated_windows' = contaminated_windows
  <2> DEFINE W == {decisions[r].window : r \in eligible}
             Of(w) == {r \in eligible : decisions[r].window = w}
             policies(w) == {decisions[r].policy : r \in Of(w)}
  <2>1. W' = W /\ \A w : Of(w)' = Of(w) /\ Of(w) \subseteq eligible
    OBVIOUS
  <2>2. \A w : policies(w)' = policies(w)
    <3> HIDE DEF Of
    <3> QED
      BY <2>1
  <2>3. contaminated_windows = {w \in W : w # <<"isolated-pool">> /\ Cardinality(policies(w)) > 1}
    BY DEF contaminated_windows
  <2>4. contaminated_windows'
          = {w \in W' : w # <<"isolated-pool">> /\ Cardinality(policies(w)') > 1}
    BY DEF contaminated_windows
  <2> HIDE DEF policies, W
  <2> QED
    BY <2>1, <2>2, <2>3, <2>4
<1>10. Evaluable' = Evaluable
  BY <1>3 DEF Evaluable
<1> QED
  BY <1>6, <1>8, <1>9, <1>10 DEF promotion_eligible

\* What an evaluation finds in the journals at any time.
Placed == assignment_ok /\ \A r \in eligible : InMeasure(r)

LEMMA PlacedAlways == Spec => []Placed
<1>1. Decided => Placed
  <2> SUFFICES ASSUME Decided PROVE Placed
    OBVIOUS
  <2>1. ASSUME NEW r \in eligible PROVE InMeasure(r)
    <3>1. PICK now \in Times :
             /\ decisions[r].at = now /\ now - StartAt \in 0 .. MaxDuration - 1
             /\ design = "switchback" =>
                   (now - StartAt) % Window \in Warmup .. Window - Cooldown - 1
      BY RowAssigned
    <3> QED
      BY <3>1, ExperimentAssumption DEF InMeasure
  <2> QED
    BY <2>1, AssignmentHolds DEF Placed
<1> QED
  BY <1>1, DecidedAlways, PTL

\* A step changes the rows that are compared by the answer to a measured request only.
LEMMA OnlyMeasuredAnswers ==
    ASSUME Placed, Placed', Answered, Next
    PROVE  \/ \E r \in DOMAIN outcomes' \ DOMAIN outcomes : InMeasure(r)
           \/ promotion_eligible' = promotion_eligible
<1>0. assignment_ok /\ assignment_ok'
  BY DEF Placed
<1>1. ASSUME NEW r \in Requests, NEW now \in Times, Decide(r, now)
      PROVE  promotion_eligible' = promotion_eligible
  <2>1. /\ r \notin DOMAIN decisions /\ outcomes' = outcomes
        /\ DOMAIN decisions' = DOMAIN decisions \cup {r}
        /\ \A q \in DOMAIN decisions : decisions'[q] = decisions[q]
    BY <1>1 DEF Decide
  <2>2. joined' = joined /\ joined \subseteq DOMAIN decisions
    BY <2>1 DEF joined, Answered
  <2>3. guarded' = guarded
    BY <2>1, <2>2 DEF guarded
  <2>4. eligible' = eligible /\ eligible \subseteq DOMAIN decisions
    BY <2>2, <2>3 DEF eligible
  <2> QED
    BY <1>0, <2>1, <2>4, SameRowsSameVerdict
<1>2. ASSUME NEW r \in Requests, NEW o \in Outcomes, Complete(r, o), ~InMeasure(r)
      PROVE  promotion_eligible' = promotion_eligible
  <2>1. /\ r \notin DOMAIN outcomes /\ UNCHANGED <<design, decisions>>
        /\ DOMAIN outcomes' = DOMAIN outcomes \cup {r}
        /\ \A q \in DOMAIN outcomes : outcomes'[q] = outcomes[q]
    BY <1>2 DEF Complete
  <2>2. InMeasure(r)' <=> InMeasure(r)
    BY <2>1 DEF InMeasure
  <2>3. r \notin eligible' /\ r \notin eligible
    <3>1. r \notin eligible'
      BY <1>2, <2>2 DEF Placed
    <3> QED
      BY <1>2, <3>1 DEF Placed
  <2>4. \A q : q # r => (q \in eligible' <=> q \in eligible)
    BY <2>1 DEF eligible, guarded, joined
  <2>5. eligible' = eligible
    BY <2>3, <2>4
  <2>6. eligible \subseteq DOMAIN outcomes
    BY DEF eligible, joined
  <2> QED
    BY <1>0, <2>1, <2>5, <2>6, SameRowsSameVerdict
<1>3. ASSUME NEW r \in Requests, NEW o \in Outcomes, Complete(r, o)
      PROVE  r \in DOMAIN outcomes' \ DOMAIN outcomes
  BY <1>3 DEF Complete
<1> QED
  BY <1>1, <1>2, <1>3 DEF Next

\* For every configuration, every number of requests and any outcomes: only the answer to a
\* request that the running experiment decided outside the guards of its window changes
\* whether the treatment may be promoted (controller.go Assign, ControlAssignment;
\* policy_evaluation.py evaluate_experiment).
THEOREM VerdictAlwaysUnswayed == Spec => VerdictUnswayed
<1>1. Placed /\ Placed' /\ Answered /\ [Next]_vars
        => [\/ \E r \in DOMAIN outcomes' \ DOMAIN outcomes : InMeasure(r)
            \/ promotion_eligible' = promotion_eligible]_vars
  BY OnlyMeasuredAnswers
<1> QED
  BY <1>1, PlacedAlways, AnsweredAlways, PTL DEF Spec, VerdictUnswayed

-----------------------------------------------------------------------------
(* The points of a sweep.                                                  *)

\* A point that was measured n times, with everything the sweep derives from its runs.
SweepPoint(n) ==
    {p \in [scenario : STRING, concurrency : Nat, runs : Seq(Run),
            aggregates : {aggregate_run_entries(rs) : rs \in Seq(Run)},
            recommendation : {build_point_recommendation(rs) : rs \in Seq(Run)}] :
        /\ Len(p.runs) = n
        /\ p.aggregates = aggregate_run_entries(p.runs)
        /\ p.recommendation = build_point_recommendation(p.runs)}

\* The inductive invariant: the document holds points of the plan's number of repeats only,
\* whose aggregates and boundaries are those of their own runs.
Measured ==
    /\ plan \in Sweeps
    /\ points \in Seq(SweepPoint(plan.repeats))
    /\ runs \in Seq(Run) /\ Len(runs) <= plan.repeats

LEMMA MeasuredAlways == SweepSpec => []Measured
<1>1. SweepInit => Measured
  <2> SUFFICES ASSUME SweepInit PROVE Measured
    OBVIOUS
  <2>1. plan.repeats \in Nat
    BY PlannerAssumption DEF SweepInit
  <2> QED
    BY <2>1 DEF SweepInit, Measured
<1>2. Measured /\ [SweepNext]_sweepVars => Measured'
  <2> SUFFICES ASSUME Measured, [SweepNext]_sweepVars PROVE Measured'
    OBVIOUS
  <2>1. /\ plan.repeats \in Nat /\ plan.grid \in Seq([scenario : STRING, concurrency : Nat])
    BY PlannerAssumption DEF Measured
  <2>2. ASSUME NEW entry \in Entries, RunOnce(entry) PROVE Measured'
    <3>1. plan' = plan /\ points' = points /\ runs' = Append(runs, entry) /\ Len(runs) < plan.repeats
      BY <2>2 DEF RunOnce
    <3>2. Append(runs, entry) \in Seq(Run) /\ Len(Append(runs, entry)) = Len(runs) + 1
          /\ Len(runs) \in Nat
      <4>1. entry \in Run /\ runs \in Seq(Run)
        BY PlannerAssumption DEF Measured
      <4> QED
        BY <4>1
    <3>3. Len(runs) + 1 <= plan.repeats
      BY <2>1, <3>1, <3>2
    <3> QED
      BY <3>1, <3>2, <3>3 DEF Measured
  <2>3. ASSUME PointEnds PROVE Measured'
    <3> DEFINE g == plan.grid[Len(points) + 1]
               p == [scenario |-> g.scenario, concurrency |-> g.concurrency, runs |-> runs,
                     aggregates |-> aggregate_run_entries(runs),
                     recommendation |-> build_point_recommendation(runs)]
    <3>1. plan' = plan /\ points' = Append(points, p) /\ runs' = <<>> /\ Len(runs) = plan.repeats
          /\ Len(points) < Len(plan.grid)
      BY <2>3 DEF PointEnds, Running
    <3>2. g.scenario \in STRING /\ g.concurrency \in Nat
      <4>1. Len(points) \in Nat /\ Len(plan.grid) \in Nat
        BY <2>1 DEF Measured
      <4>2. Len(points) + 1 \in 1 .. Len(plan.grid)
        BY <3>1, <4>1
      <4> DEFINE G == [scenario : STRING, concurrency : Nat]
                 grid == plan.grid
      <4>3. grid \in Seq(G)
        BY <2>1
      <4> HIDE DEF G, grid
      <4>4. grid[Len(points) + 1] \in G
        BY <4>2, <4>3 DEF grid
      <4>5. g \in G
        BY <4>4 DEF grid
      <4> HIDE DEF g
      <4> QED
        BY <4>5 DEF G
    <3>3. runs \in Seq(Run) /\ Len(runs) = plan.repeats
      BY <3>1 DEF Measured
    <3> HIDE DEF g
    <3>4. p \in SweepPoint(plan.repeats)
      BY <3>2, <3>3 DEF SweepPoint
    <3> HIDE DEF p
    <3>5. Append(points, p) \in Seq(SweepPoint(plan.repeats))
      BY <3>4 DEF Measured
    <3>6. <<>> \in Seq(Run) /\ Len(<<>>) <= plan.repeats
      BY <2>1
    <3> QED
      BY <3>1, <3>5, <3>6 DEF Measured
  <2>4. CASE UNCHANGED sweepVars
    BY <2>4 DEF sweepVars, Measured
  <2> QED
    BY <2>2, <2>3, <2>4 DEF SweepNext
<1> QED
  BY <1>1, <1>2, PTL DEF SweepSpec

\* What is known of a measured point.
Point(p, n) ==
    /\ p.runs \in Seq(Run) /\ Len(p.runs) = n /\ n \in Nat /\ n >= 1
    /\ p.concurrency \in Nat
    /\ p.aggregates = aggregate_run_entries(p.runs)
    /\ p.recommendation = build_point_recommendation(p.runs)

LEMMA PointIs ==
    ASSUME Measured, NEW i \in DOMAIN points
    PROVE  /\ Point(points[i], plan.repeats) /\ i \in Nat
           /\ DOMAIN points = 1 .. Len(points) /\ Len(points) \in Nat
<1>1. plan.repeats \in Nat \ {0}
  BY PlannerAssumption DEF Measured
<1>2. DOMAIN points = 1 .. Len(points) /\ Len(points) \in Nat
      /\ points[i] \in SweepPoint(plan.repeats)
  BY DEF Measured
<1> DEFINE p == points[i]
<1>3. Point(p, plan.repeats)
  <2> HIDE DEF p
  <2>1. p \in SweepPoint(plan.repeats)
    BY <1>2 DEF p
  <2> QED
    BY <1>1, <2>1 DEF SweepPoint, Point
<1> QED
  BY <1>2, <1>3

\* The mean of measurements that are no negative numbers is none.
LEMMA MeanNat ==
    ASSUME NEW D, IsFiniteSet(D), D # {}, NEW f \in [D -> Nat]
    PROVE  SumFunction(f) \div Cardinality(D) \in Nat
<1> DEFINE m == SumFunction(f) \div Cardinality(D)
<1>1. f \in [D -> Int] /\ \A x \in D : f[x] \in Nat
  OBVIOUS
<1>2. m \in Int /\ \E x \in D : f[x] <= m
  BY <1>1, MeanReached
<1> HIDE DEF m
<1>3. m \in Nat
  BY <1>1, <1>2
<1> QED
  BY <1>3 DEF m

\* Indices of a list of runs.
LEMMA RunsIs ==
    ASSUME NEW rs \in Seq(Run), Len(rs) >= 1, NEW D, D \subseteq DOMAIN rs
    PROVE  /\ IsFiniteSet(D) /\ IsFiniteSet(DOMAIN rs) /\ DOMAIN rs = 1 .. Len(rs)
           /\ DOMAIN rs # {} /\ Cardinality(DOMAIN rs) = Len(rs) /\ Len(rs) \in Nat
           /\ Cardinality(D) \in Nat /\ Cardinality(D) <= Len(rs)
           /\ Cardinality(D) = Len(rs) <=> D = DOMAIN rs
           /\ \A i \in D : rs[i] \in Run
<1>1. DOMAIN rs = 1 .. Len(rs) /\ Len(rs) \in Nat /\ \A i \in DOMAIN rs : rs[i] \in Run
  OBVIOUS
<1>2. IsFiniteSet(DOMAIN rs) /\ Cardinality(DOMAIN rs) = Len(rs)
  <2>1. IsFiniteSet(1 .. Len(rs)) /\ Cardinality(1 .. Len(rs)) = Len(rs)
    BY <1>1, FS_Interval
  <2> QED
    BY <1>1, <2>1
<1>3. 1 \in DOMAIN rs
  BY <1>1
<1>4. /\ IsFiniteSet(D) /\ Cardinality(D) \in Nat /\ Cardinality(D) <= Cardinality(DOMAIN rs)
      /\ Cardinality(D) = Cardinality(DOMAIN rs) => D = DOMAIN rs
  BY <1>2, FS_Subset, FS_CardinalityType
<1> QED
  BY <1>1, <1>2, <1>3, <1>4

\* The means of a point are numbers or missing.
LEMMA AggregatesIs ==
    ASSUME NEW rs \in Seq(Run), Len(rs) >= 1
    PROVE  LET a == aggregate_run_entries(rs)
           IN  /\ a.req_s_mean \in Nat /\ a.e2e_p95_ms_mean \in Nat
               /\ a.goodput_mean \in Nat \cup {Null} /\ a.gpu_seconds_mean \in Nat \cup {Null}
               /\ a.quality_summary = summarize_runs_quality(rs)
<1> DEFINE all   == DOMAIN rs
           good  == {i \in all : rs[i].goodput # Null}
           known == {i \in all : rs[i].gpu_seconds # Null}
           q == [i \in all |-> rs[i].req_s]
           e == [i \in all |-> rs[i].e2e]
           g == [i \in good |-> rs[i].goodput]
           k == [i \in known |-> rs[i].gpu_seconds]
           a == aggregate_run_entries(rs)
<1>1. /\ IsFiniteSet(all) /\ all # {} /\ IsFiniteSet(good) /\ IsFiniteSet(known)
      /\ \A i \in all : rs[i] \in Run
  BY RunsIs
<1>2. q \in [all -> Nat] /\ e \in [all -> Nat]
  BY <1>1 DEF Run
<1>3. g \in [good -> Nat]
  BY <1>1 DEF Run
<1>4. k \in [known -> Nat]
  BY <1>1 DEF Run
<1>5. /\ a.req_s_mean = SumFunction(q) \div Cardinality(all)
      /\ a.e2e_p95_ms_mean = SumFunction(e) \div Cardinality(all)
      /\ a.goodput_mean = IF good = {} THEN Null ELSE SumFunction(g) \div Cardinality(good)
      /\ a.gpu_seconds_mean = IF known = {} THEN Null ELSE SumFunction(k) \div Cardinality(known)
      /\ a.quality_summary = summarize_runs_quality(rs)
  BY DEF aggregate_run_entries, Mean, ReqS
<1> HIDE DEF all, good, known, q, e, g, k, a
<1>6. /\ SumFunction(q) \div Cardinality(all) \in Nat /\ SumFunction(e) \div Cardinality(all) \in Nat
      /\ good # {} => SumFunction(g) \div Cardinality(good) \in Nat
      /\ known # {} => SumFunction(k) \div Cardinality(known) \in Nat
  BY <1>1, <1>2, <1>3, <1>4, MeanNat
<1>7. /\ a.req_s_mean \in Nat /\ a.e2e_p95_ms_mean \in Nat
      /\ a.goodput_mean \in Nat \cup {Null} /\ a.gpu_seconds_mean \in Nat \cup {Null}
  BY <1>5, <1>6
<1> QED
  BY <1>5, <1>7 DEF a

-----------------------------------------------------------------------------
(* The ranking of the points.                                              *)

\* What may be said of one run.
LEMMA RunIs ==
    ASSUME NEW r \in Run
    PROVE  /\ Quality(r) \in {"ok", "stale", "missing"}
           /\ Source(r) \in {"window", "snapshot_fallback", "missing"}
           /\ get_entry_evidence_quality(r) \in {"missing", "strict", "estimated", "fallback"}
           /\ get_entry_prefix_metric_check(r) \in {"missing", "strict", "token_fallback", "other"}
           /\ Quality(r) = "ok" => get_entry_hit_ratio_quality_and_source(r).ratio \in Nat
<1>1. r.derived \in Derived \cup {Null} /\ r.exporter \in Exporter \cup {Null}
  BY DEF Run
<1>2. r.derived # Null => /\ r.derived.ratio \in Nat \cup {Null}
                          /\ r.derived.evidence \in {"missing", "fallback", "strict"}
  BY <1>1 DEF Derived
<1>3. r.exporter # Null => r.exporter.ratio \in Nat \cup {Null}
  BY <1>1 DEF Exporter
<1> DEFINE g == get_entry_hit_ratio_quality_and_source(r)
<1>4. /\ g.quality \in {"ok", "stale", "missing"}
      /\ g.source \in {"window", "snapshot_fallback", "missing"}
      /\ g.quality = "ok" => g.ratio \in Nat
  BY <1>2, <1>3 DEF get_entry_hit_ratio_quality_and_source
<1>5. get_entry_evidence_quality(r) \in {"missing", "strict", "estimated", "fallback"}
  BY <1>2 DEF get_entry_evidence_quality
<1>6. get_entry_prefix_metric_check(r) \in {"missing", "strict", "token_fallback", "other"}
  BY DEF get_entry_prefix_metric_check
<1> QED
  BY <1>4, <1>5, <1>6 DEF Quality, Source

\* How many runs of a list have a property: all of them exactly if it is their number.
LEMMA CountIs ==
    ASSUME NEW rs \in Seq(Run), Len(rs) >= 1, NEW D, D \subseteq DOMAIN rs
    PROVE  /\ Cardinality(D) \in Nat
           /\ Cardinality(D) = Len(rs) <=> \A i \in DOMAIN rs : i \in D
  BY RunsIs

\* The two summaries of the prefix checks are one.
LEMMA ChecksAgree ==
    ASSUME NEW rs \in Seq(Run), Len(rs) >= 1
    PROVE  recommend_runs(rs, e2e_p95_slo_ms, min_success_rate, min_hit_ratio)
             .quality_summary.prefix_metric_check = summarize_prefix_metric_checks(rs)
<1> DEFINE C(v) == Count(rs, get_entry_prefix_metric_check, v) = Len(rs)
           names == <<"missing", "strict", "token_fallback", "other">>
           all   == {k \in DOMAIN names : C(names[k])}
<1>1. recommend_runs(rs, e2e_p95_slo_ms, min_success_rate, min_hit_ratio)
        .quality_summary.prefix_metric_check = IF all = {} THEN "mixed" ELSE names[Min(all)]
  BY DEF recommend_runs
<1>2. summarize_prefix_metric_checks(rs) =
        IF C("missing") THEN "missing" ELSE IF C("strict") THEN "strict"
        ELSE IF C("token_fallback") THEN "token_fallback"
        ELSE IF C("other") THEN "other" ELSE "mixed"
  BY DEF summarize_prefix_metric_checks
<1> HIDE DEF C
<1>3. DOMAIN names = 1 .. 4 /\ names[1] = "missing" /\ names[2] = "strict"
      /\ names[3] = "token_fallback" /\ names[4] = "other"
  OBVIOUS
<1> HIDE DEF names
<1>4. /\ all \in SUBSET (1 .. 4)
      /\ (1 \in all <=> C("missing")) /\ (2 \in all <=> C("strict"))
      /\ (3 \in all <=> C("token_fallback")) /\ (4 \in all <=> C("other"))
  BY <1>3
<1> HIDE DEF all
<1>5. CASE all = {}
  BY <1>1, <1>2, <1>4, <1>5
<1>6. CASE all # {}
  <2>1. Min(all) = IF 1 \in all THEN 1 ELSE IF 2 \in all THEN 2 ELSE IF 3 \in all THEN 3 ELSE 4
    BY <1>4, <1>6, FirstOfFour
  <2>2. 1 \in all \/ 2 \in all \/ 3 \in all \/ 4 \in all
    <3>1. PICK k \in all : TRUE
      BY <1>6
    <3>2. k \in 1 .. 4
      BY <1>4
    <3>3. k = 1 \/ k = 2 \/ k = 3 \/ k = 4
      BY <3>2
    <3> QED
      BY <3>1, <3>3
  <2> QED
    BY <1>1, <1>2, <1>3, <1>4, <1>6, <2>1, <2>2
<1> QED
  BY <1>5, <1>6

\* The evidence of all runs is one exactly if some quality is that of all of them.
LEMMA EvidenceAgrees ==
    ASSUME NEW rs \in Seq(Run), Len(rs) >= 1
    PROVE  recommend_runs(rs, e2e_p95_slo_ms, min_success_rate, min_hit_ratio)
             .quality_summary.evidence_quality = summarize_evidence_quality(rs)
<1> DEFINE E(i)  == get_entry_evidence_quality(rs[i])
           C(v)  == Count(rs, get_entry_evidence_quality, v) = Len(rs)
           names == <<"missing", "strict", "estimated", "fallback">>
           all   == {k \in DOMAIN names : C(names[k])}
           Q     == {E(i) : i \in DOMAIN rs}
<1>1. recommend_runs(rs, e2e_p95_slo_ms, min_success_rate, min_hit_ratio)
        .quality_summary.evidence_quality = IF all = {} THEN "mixed" ELSE names[Min(all)]
  BY DEF recommend_runs
<1>2. summarize_evidence_quality(rs) =
        IF Q = {} THEN "missing"
        ELSE IF Cardinality(Q) = 1 THEN CHOOSE q \in Q : TRUE ELSE "mixed"
  BY DEF summarize_evidence_quality
<1>3. DOMAIN rs # {} /\ \A i \in DOMAIN rs : rs[i] \in Run
  BY RunsIs
<1>4. ASSUME NEW v PROVE C(v) <=> \A i \in DOMAIN rs : E(i) = v
  <2> DEFINE D == {i \in DOMAIN rs : get_entry_evidence_quality(rs[i]) = v}
  <2>1. Count(rs, get_entry_evidence_quality, v) = Cardinality(D)
    BY DEF Count
  <2>2. Cardinality(D) = Len(rs) <=> \A i \in DOMAIN rs : i \in D
    <3>1. D \subseteq DOMAIN rs
      OBVIOUS
    <3> HIDE DEF D
    <3> QED
      BY <3>1, CountIs
  <2> QED
    BY <2>1, <2>2
<1>5. \A i \in DOMAIN rs : E(i) \in {"missing", "strict", "estimated", "fallback"}
  BY <1>3, RunIs
<1> HIDE DEF C, E
<1>6. DOMAIN names = 1 .. 4 /\ names[1] = "missing" /\ names[2] = "strict"
      /\ names[3] = "estimated" /\ names[4] = "fallback"
  OBVIOUS
<1> HIDE DEF names
<1>7. CASE \E v : \A i \in DOMAIN rs : E(i) = v
  <2>1. PICK v : \A i \in DOMAIN rs : E(i) = v
    BY <1>7
  <2>2. Q = {v}
    BY <1>3, <2>1
  <2>3. Cardinality(Q) = 1 /\ (CHOOSE q \in Q : TRUE) = v
    BY <2>2, FS_Singleton
  <2>4. PICK k \in 1 .. 4 : names[k] = v
    BY <1>3, <1>5, <1>6, <2>1
  <2>5. all = {k}
    <3>1. \A w : C(w) <=> w = v
      BY <1>3, <1>4, <2>1
    <3> QED
      BY <1>6, <2>4, <3>1
  <2>6. Min(all) = k
    <3>1. {k} \subseteq 1 .. 4 /\ {k} # {} /\ 1 \in Int /\ 4 \in Int
      OBVIOUS
    <3>2. Min({k}) \in {k}
      BY <3>1, MinIs
    <3> QED
      BY <2>5, <3>2
  <2> QED
    BY <1>1, <1>2, <2>2, <2>3, <2>4, <2>5, <2>6
<1>8. CASE ~\E v : \A i \in DOMAIN rs : E(i) = v
  <2>1. all = {}
    BY <1>4, <1>8
  <2>2. Q # {}
    BY <1>3
  <2>3. Cardinality(Q) # 1
    <3> SUFFICES ASSUME Cardinality(Q) = 1 PROVE FALSE
      OBVIOUS
    <3>1. Q \subseteq {"missing", "strict", "estimated", "fallback"}
      BY <1>5
    <3>2. IsFiniteSet(Q)
      <4>1. IsFiniteSet({"missing"} \cup {"strict"} \cup {"estimated"} \cup {"fallback"})
        BY FS_Singleton, FS_Union
      <4>2. Q \subseteq {"missing"} \cup {"strict"} \cup {"estimated"} \cup {"fallback"}
        BY <3>1
      <4> HIDE DEF Q
      <4> QED
        BY <4>1, <4>2, FS_Subset
    <3>3. PICK v : Q = {v}
      <4> HIDE DEF Q
      <4> QED
        BY <3>2, FS_Singleton
    <3>4. \A i \in DOMAIN rs : E(i) = v
      BY <3>3
    <3> QED
      BY <1>8, <3>4
  <2> QED
    BY <1>1, <1>2, <2>1, <2>2, <2>3
<1> QED
  BY <1>7, <1>8

\* The summary of a point by planner/policy.py is the one by benchmark/window_metrics.py.
LEMMA SummariesAgree ==
    ASSUME NEW rs \in Seq(Run), Len(rs) >= 1
    PROVE  build_point_recommendation(rs).quality_summary = summarize_runs_quality(rs)
<1> DEFINE n == Len(rs)
           q == recommend_runs(rs, e2e_p95_slo_ms, min_success_rate, min_hit_ratio).quality_summary
           useful == Cardinality({i \in DOMAIN rs : Quality(rs[i]) \notin {"missing", "stale"}})
           ok == Count(rs, Quality, "ok")
           Qualified(k) == summarize_metric_quality_counts(n, k, Count(rs, Quality, "stale"),
                                                           Count(rs, Quality, "missing"))
           w == Count(rs, Source, "window")
           f == Count(rs, Source, "snapshot_fallback")
           Sourced(k) == summarize_hit_ratio_source_counts(w, f, k)
           Summary(k, quality, source, check, evidence) ==
               [total_runs |-> n, ok_metrics |-> k, metric_quality |-> quality,
                hit_ratio_source |-> source,
                hit_ratio_comparable |-> quality = "ok" /\ source # "mixed",
                prefix_metric_check |-> check, evidence_quality |-> evidence]
<1>1. q = Summary(useful, Qualified(useful), Sourced(n - w - f), q.prefix_metric_check,
                  q.evidence_quality)
  BY DEF recommend_runs
<1>2. summarize_runs_quality(rs) =
        Summary(ok, Qualified(ok), Sourced(Count(rs, Source, "missing")),
                summarize_prefix_metric_checks(rs), summarize_evidence_quality(rs))
  BY DEF summarize_runs_quality
<1>3. \A i \in DOMAIN rs : rs[i] \in Run
  BY RunsIs
<1>4. useful = ok
  <2>1. {i \in DOMAIN rs : Quality(rs[i]) \notin {"missing", "stale"}}
          = {i \in DOMAIN rs : Quality(rs[i]) = "ok"}
    <3>1. \A i \in DOMAIN rs : Quality(rs[i]) \in {"ok", "stale", "missing"}
      BY <1>3, RunIs
    <3> QED
      BY <3>1
  <2> QED
    BY <2>1 DEF Count
<1>5. n - w - f = Count(rs, Source, "missing")
  <2> DEFINE W == {i \in DOMAIN rs : Source(rs[i]) = "window"}
             F == {i \in DOMAIN rs : Source(rs[i]) = "snapshot_fallback"}
             M == {i \in DOMAIN rs : Source(rs[i]) = "missing"}
  <2>1. w = Cardinality(W) /\ f = Cardinality(F) /\ Count(rs, Source, "missing") = Cardinality(M)
    BY DEF Count
  <2>2. W \cap F = {} /\ (W \cup F) \cap M = {} /\ (W \cup F) \cup M = DOMAIN rs
    <3>1. \A i \in DOMAIN rs : Source(rs[i]) \in {"window", "snapshot_fallback", "missing"}
      BY <1>3, RunIs
    <3> QED
      BY <3>1
  <2>3. /\ IsFiniteSet(W) /\ IsFiniteSet(F) /\ IsFiniteSet(M) /\ Cardinality(W) \in Nat
        /\ Cardinality(F) \in Nat /\ Cardinality(M) \in Nat /\ Cardinality(DOMAIN rs) = n /\ n \in Nat
    BY RunsIs
  <2> HIDE DEF W, F, M, w, f, n
  <2>4. IsFiniteSet(W \cup F) /\ Cardinality(W \cup F) = Cardinality(W) + Cardinality(F)
    BY <2>2, <2>3, DisjointUnion
  <2>5. Cardinality((W \cup F) \cup M) = Cardinality(W \cup F) + Cardinality(M)
    BY <2>2, <2>3, <2>4, DisjointUnion
  <2> QED
    BY <2>1, <2>2, <2>3, <2>4, <2>5
<1>6. /\ q.prefix_metric_check = summarize_prefix_metric_checks(rs)
      /\ q.evidence_quality = summarize_evidence_quality(rs)
  BY ChecksAgree, EvidenceAgrees
<1>7. build_point_recommendation(rs).quality_summary = q
  BY DEF build_point_recommendation
<1> HIDE DEF q, useful, ok, Qualified, Sourced, Summary, w, f, n
<1> QED
  BY <1>1, <1>2, <1>4, <1>5, <1>6, <1>7

\* The recommended rate of a list of runs: that of the fastest run that passes.
Passed(rs, slo, success, hit) == {i \in DOMAIN rs : Passes(rs[i], slo, success, hit)}

Fastest(rs, D) == IF D = {} THEN 0 ELSE Max({rs[i].req_s : i \in D})

LEMMA FastestIs ==
    ASSUME NEW rs \in Seq(Run), Len(rs) >= 1, NEW D, D \subseteq DOMAIN rs
    PROVE  /\ Fastest(rs, D) \in Nat
           /\ \A i \in D : rs[i].req_s \in Nat /\ rs[i].req_s <= Fastest(rs, D)
           /\ D # {} => \E i \in D : rs[i].req_s = Fastest(rs, D)
<1>1. IsFiniteSet(D) /\ \A i \in D : rs[i].req_s \in Nat
  BY RunsIs DEF Run
<1>2. CASE D = {}
  BY <1>2 DEF Fastest
<1>3. CASE D # {}
  <2> DEFINE f == [i \in D |-> rs[i].req_s]
             V == {f[i] : i \in D}
  <2>1. f \in [D -> Int] /\ V = {rs[i].req_s : i \in D} /\ \A i \in D : f[i] = rs[i].req_s
    BY <1>1
  <2>2. Max(V) \in V /\ \A v \in V : v <= Max(V)
    <3>1. V = {f[i] : i \in D}
      OBVIOUS
    <3> HIDE DEF f, V
    <3>2. IsFiniteSet(D) /\ f \in [D -> Int]
      BY <1>1, <2>1
    <3> QED
      BY ONLY <1>3, <3>1, <3>2, MaxOf
  <2>3. Fastest(rs, D) = Max(V)
    BY <1>3, <2>1 DEF Fastest
  <2> HIDE DEF f
  <2> QED
    BY <1>1, <1>3, <2>1, <2>2, <2>3
<1> QED
  BY <1>2, <1>3

LEMMA RateIs ==
    ASSUME NEW rs, NEW slo, NEW success, NEW hit
    PROVE  recommend_runs(rs, slo, success, hit).recommended_rps =
             Fastest(rs, Passed(rs, slo, success, hit)) * safety_factor
<1> DEFINE D == Passed(rs, slo, success, hit)
           V == {rs[i].req_s : i \in D}
<1>1. recommend_runs(rs, slo, success, hit).recommended_rps =
        IF V = {} THEN 0 ELSE Max(V) * safety_factor
  BY DEF recommend_runs, Passed
<1>2. V = {} <=> D = {}
  OBVIOUS
<1>3. 0 * safety_factor = 0
  BY PlannerAssumption
<1> HIDE DEF D
<1> QED
  BY <1>1, <1>2, <1>3 DEF Fastest, D

\* Fewer runs that pass never raise the rate.
LEMMA RateFollows ==
    ASSUME NEW rs \in Seq(Run), Len(rs) >= 1, NEW D, NEW E, D \subseteq E, E \subseteq DOMAIN rs
    PROVE  /\ Fastest(rs, D) * safety_factor \in Nat
           /\ Fastest(rs, D) * safety_factor <= Fastest(rs, E) * safety_factor
<1>1. Fastest(rs, D) \in Nat /\ Fastest(rs, E) \in Nat /\ safety_factor \in Nat
  BY FastestIs, PlannerAssumption
<1>2. Fastest(rs, D) <= Fastest(rs, E)
  <2>1. CASE D = {}
    BY <1>1, <2>1 DEF Fastest
  <2>2. CASE D # {}
    <3>1. PICK i \in D : rs[i].req_s = Fastest(rs, D)
      BY <2>2, FastestIs
    <3> QED
      BY <3>1, FastestIs
  <2> QED
    BY <2>1, <2>2
<1> QED
  BY <1>1, <1>2, TimesKeeps

\* A run that passes stricter limits passes these.
LEMMA PassesLooser ==
    ASSUME NEW r \in Run, NEW cut \in {0, 1}, NEW hit \in Nat, NEW least \in Nat, least <= hit,
           Passes(r, e2e_p95_slo_ms - cut, min_success_rate + cut, hit)
    PROVE  /\ Passes(r, e2e_p95_slo_ms, min_success_rate, least)
           /\ Passes(r, e2e_p95_slo_ms, min_success_rate, Null)
<1> DEFINE ratio == get_entry_hit_ratio_quality_and_source(r).ratio
           slo == e2e_p95_slo_ms
           rate == min_success_rate
<1>1. hit # Null /\ least # Null
  BY NullAssumption
<1>2. /\ r.e2e <= slo - cut /\ Succeeds(r, rate + cut) /\ Quality(r) = "ok" /\ ratio >= hit
  BY <1>1 DEF Passes
<1>3. /\ r.e2e \in Nat /\ r.total \in Nat /\ r.ok \in Nat /\ slo \in Nat /\ rate \in Nat
  BY PlannerAssumption DEF Run
<1>4. ratio \in Nat
  BY <1>2, RunIs
<1> HIDE DEF ratio, slo, rate
<1>5. Succeeds(r, rate)
  <2>1. CASE r.total > 0
    <3>1. rate * r.total <= (rate + cut) * r.total
      BY <1>3, TimesKeeps
    <3>2. 100 * r.ok >= (rate + cut) * r.total
      BY <1>2, <2>1 DEF Succeeds
    <3>3. 100 * r.ok >= rate * r.total
      <4> DEFINE a == rate * r.total
                 b == (rate + cut) * r.total
                 c == 100 * r.ok
      <4>1. a \in Nat /\ b \in Nat /\ c \in Nat /\ a <= b /\ c >= b
        BY <1>3, <3>1, <3>2
      <4> HIDE DEF a, b, c
      <4>2. c >= a
        BY <4>1
      <4> QED
        BY <4>2 DEF a, c
    <3> QED
      BY <2>1, <3>3 DEF Succeeds
  <2>2. CASE ~(r.total > 0)
    <3>1. 0 >= rate + cut
      BY <1>2, <2>2 DEF Succeeds
    <3>2. 0 >= rate
      BY <1>3, <3>1
    <3> QED
      BY <2>2, <3>2 DEF Succeeds
  <2> QED
    BY <2>1, <2>2
<1>6. r.e2e <= slo /\ ratio >= least
  BY <1>2, <1>3, <1>4
<1> QED
  BY <1>1, <1>2, <1>5, <1>6 DEF Passes, ratio, slo, rate

LEMMA PassedLooser ==
    ASSUME NEW rs \in Seq(Run), Len(rs) >= 1, NEW cut \in {0, 1}, NEW hit \in Nat,
           NEW least \in Nat, least <= hit
    PROVE  LET D == Passed(rs, e2e_p95_slo_ms - cut, min_success_rate + cut, hit)
           IN  /\ D \subseteq Passed(rs, e2e_p95_slo_ms, min_success_rate, least)
               /\ D \subseteq Passed(rs, e2e_p95_slo_ms, min_success_rate, Null)
<1>1. \A i \in DOMAIN rs : rs[i] \in Run
  BY RunsIs
<1> SUFFICES ASSUME NEW i \in DOMAIN rs,
                    Passes(rs[i], e2e_p95_slo_ms - cut, min_success_rate + cut, hit)
             PROVE  /\ Passes(rs[i], e2e_p95_slo_ms, min_success_rate, least)
                    /\ Passes(rs[i], e2e_p95_slo_ms, min_success_rate, Null)
  BY DEF Passed
<1> QED
  BY <1>1, PassesLooser

LEMMA LeastThreshold ==
    Min(Thresholds) \in Thresholds /\ \A t \in Thresholds : t \in Nat /\ Min(Thresholds) <= t
<1>1. PICK t \in Thresholds : \A u \in Thresholds : t <= u
  BY PlannerAssumption, LeastIs
<1>2. Min(Thresholds) \in Thresholds /\ \A u \in Thresholds : Min(Thresholds) <= u
  BY <1>1 DEF Min
<1> QED
  BY <1>2, PlannerAssumption

\* A measured point meets the docs' claim about stricter limits.
LEMMA PointStricter ==
    ASSUME NEW p, NEW n, Point(p, n)
    PROVE  /\ Stricter(p)
           /\ p.recommendation.dual \in Nat /\ p.recommendation.baseline \in Nat
           /\ p.recommendation.dual <= p.recommendation.baseline
<1> DEFINE rs == p.runs
           slo == e2e_p95_slo_ms
           rate == min_success_rate
           R(s, m, hit) == recommend_runs(rs, s, m, hit).recommended_rps
<1>1. rs \in Seq(Run) /\ Len(rs) >= 1 /\ p.recommendation = build_point_recommendation(rs)
  BY DEF Point
<1>2. \A s, m, hit : Passed(rs, s, m, hit) \subseteq DOMAIN rs
  BY DEF Passed
<1>3. ASSUME NEW cut \in {0, 1}, NEW hit \in Nat, NEW least,
             (least \in Nat /\ least <= hit) \/ least = Null
      PROVE  /\ R(slo - cut, rate + cut, hit) \in Nat
             /\ R(slo - cut, rate + cut, hit) <= R(slo, rate, least)
  <2>1. Passed(rs, slo - cut, rate + cut, hit) \subseteq Passed(rs, slo, rate, least)
    <3>1. CASE least = Null
      <4>1. hit <= hit
        OBVIOUS
      <4> QED
        BY <1>1, <3>1, <4>1, PassedLooser
    <3>2. CASE least \in Nat /\ least <= hit
      BY <1>1, <3>2, PassedLooser
    <3> QED
      BY <1>3, <3>1, <3>2
  <2> QED
    BY <1>1, <1>2, <2>1, RateIs, RateFollows
<1>4. /\ p.recommendation.dual = R(slo, rate, min_hit_ratio)
      /\ p.recommendation.baseline = R(slo, rate, Null)
  BY <1>1 DEF build_point_recommendation
<1>5. ASSUME NEW hit \in Thresholds, NEW cut \in {0, 1}
      PROVE  R(slo - cut, rate + cut, hit) <= R(slo, rate, Min(Thresholds))
  BY <1>3, LeastThreshold
<1>6. R(slo, rate, min_hit_ratio) \in Nat /\ R(slo, rate, min_hit_ratio) <= R(slo, rate, Null)
  <2>1. slo - 0 = slo /\ rate + 0 = rate /\ min_hit_ratio \in Nat /\ 0 \in {0, 1}
    BY PlannerAssumption
  <2>2. /\ R(slo - 0, rate + 0, min_hit_ratio) \in Nat
        /\ R(slo - 0, rate + 0, min_hit_ratio) <= R(slo, rate, Null)
    BY <1>3, <2>1
  <2> QED
    BY <2>1, <2>2
<1>7. R(slo, rate, Null) \in Nat
  BY <1>1, <1>2, RateIs, RateFollows
<1>8. Stricter(p)
  BY <1>4, <1>5, <1>6 DEF Stricter
<1> HIDE DEF R
<1> QED
  BY <1>4, <1>6, <1>7, <1>8

\* A ranking of measured points has a first one.
LEMMA RankFirst ==
    ASSUME Measured, NEW S, S \subseteq DOMAIN points, S # {}
    PROVE  LET i == First(S, RankKey)
           IN  /\ i \in S /\ i # Null
               /\ \A j \in S \ {i} :
                     Above(RankKey(i), RankKey(j)) \/ (RankKey(i) = RankKey(j) /\ i < j)
<1> DEFINE key  == [i \in S |-> RankKey(i)]
           rank == [i \in S |-> i]
<1>1. DOMAIN points = 1 .. Len(points) /\ Len(points) \in Nat
  BY DEF Measured
<1>2. IsFiniteSet(S) /\ \A i \in S : i \in Nat
  <2>1. IsFiniteSet(1 .. Len(points)) /\ S \in SUBSET (1 .. Len(points))
    BY <1>1, FS_Interval
  <2> QED
    BY <1>1, <2>1, FS_Subset
<1>3. ASSUME NEW i \in S PROVE RankKey(i) \in [1 .. 3 -> Int]
  <2> DEFINE p == points[i]
             a == aggregate_run_entries(p.runs)
  <2>1. Point(p, plan.repeats)
    BY PointIs
  <2> HIDE DEF p
  <2>2. p.runs \in Seq(Run) /\ Len(p.runs) >= 1 /\ p.concurrency \in Nat /\ p.aggregates = a
    BY <2>1 DEF Point
  <2>3. a.req_s_mean \in Nat /\ a.e2e_p95_ms_mean \in Nat
    BY <2>2, AggregatesIs
  <2>4. point_rank_record(p).key =
          <<p.aggregates.req_s_mean, -p.aggregates.e2e_p95_ms_mean, -p.concurrency>>
    BY DEF point_rank_record
  <2>5. RankKey(i) = point_rank_record(p).key
    BY DEF RankKey, p
  <2>6. \A x, y, z \in Int : <<x, y, z>> \in [1 .. 3 -> Int]
    OBVIOUS
  <2> HIDE DEF a
  <2>7. p.aggregates.req_s_mean \in Int /\ -p.aggregates.e2e_p95_ms_mean \in Int
        /\ -p.concurrency \in Int
    BY <2>2, <2>3
  <2> QED
    BY <2>4, <2>5, <2>6, <2>7
<1>4. /\ \A i \in S : key[i] \in [1 .. 3 -> Int] /\ rank[i] \in Int
      /\ \A i, j \in S : key[i] = key[j] /\ rank[i] = rank[j] => i = j
  BY <1>2, <1>3
<1>5. \A i \in S : key[i] = RankKey(i) /\ rank[i] = i
  OBVIOUS
<1> HIDE DEF key, rank
<1>6. \E i \in S : \A j \in S \ {i} :
         Above(key[i], key[j]) \/ (key[i] = key[j] /\ rank[i] < rank[j])
  <2>1. /\ IsFiniteSet(S) /\ S # {} /\ 3 \in Nat
        /\ \A i \in S : key[i] \in [1 .. 3 -> Int]
        /\ \A i \in S : rank[i] \in Int
        /\ \A i, j \in S : key[i] = key[j] /\ rank[i] = rank[j] => i = j
    BY <1>2, <1>4
  <2>2. Sortable(S, 3, key, rank)
    BY <2>1 DEF Sortable
  <2> QED
    BY <2>2, FirstExists
<1>7. \E i \in S : \A j \in S \ {i} :
         Above(RankKey(i), RankKey(j)) \/ (RankKey(i) = RankKey(j) /\ i < j)
  BY <1>5, <1>6
<1>8. First(S, RankKey) =
        CHOOSE i \in S : \A j \in S \ {i} :
           Above(RankKey(i), RankKey(j)) \/ (RankKey(i) = RankKey(j) /\ i < j)
  BY DEF First
<1>9. First(S, RankKey) \in S /\ \A j \in S \ {First(S, RankKey)} :
         \/ Above(RankKey(First(S, RankKey)), RankKey(j))
         \/ RankKey(First(S, RankKey)) = RankKey(j) /\ First(S, RankKey) < j
  BY <1>7, <1>8
<1>10. First(S, RankKey) # Null
  BY <1>2, <1>9, NullAssumption
<1> QED
  BY <1>9, <1>10

LEMMA MeasuredRanking == ASSUME Measured PROVE RankingSound
<1>1. ASSUME NEW i \in DOMAIN points
      PROVE  /\ points[i].aggregates.quality_summary = points[i].recommendation.quality_summary
             /\ Stricter(points[i])
             /\ points[i].recommendation.dual \in Nat /\ points[i].recommendation.baseline \in Nat
             /\ points[i].recommendation.dual <= points[i].recommendation.baseline
  <2> DEFINE p == points[i]
  <2>1. Point(p, plan.repeats)
    BY PointIs
  <2> HIDE DEF p
  <2>2. p.runs \in Seq(Run) /\ Len(p.runs) >= 1 /\ p.aggregates = aggregate_run_entries(p.runs)
        /\ p.recommendation = build_point_recommendation(p.runs)
    BY <2>1 DEF Point
  <2>3. p.aggregates.quality_summary = p.recommendation.quality_summary
    BY <2>2, SummariesAgree, AggregatesIs
  <2>4. /\ Stricter(p) /\ p.recommendation.dual \in Nat /\ p.recommendation.baseline \in Nat
        /\ p.recommendation.dual <= p.recommendation.baseline
    BY <2>1, PointStricter
  <2> QED
    BY <2>3, <2>4 DEF p
<1>2. ASSUME NEW s, best_safe_point(s) # Null
      PROVE  LET best    == best_safe_point(s)
                 highest == highest_feasible_point(s)
             IN  /\ highest # Null
                 /\ \/ best = highest \/ Above(RankKey(highest), RankKey(best))
                    \/ RankKey(highest) = RankKey(best) /\ highest < best
  <2> DEFINE F == {i \in InScenario(s) : point_rank_record(points[i]).is_feasible}
             B == {i \in InScenario(s) : point_rank_record(points[i]).is_best_safe_candidate}
             best == best_safe_point(s)
             highest == highest_feasible_point(s)
  <2>1. best = First(B, RankKey) /\ highest = First(F, RankKey)
    BY DEF best_safe_point, highest_feasible_point
  <2>2. B # {}
    BY <1>2, <2>1 DEF First
  <2>3. F \subseteq DOMAIN points /\ B \subseteq DOMAIN points
    BY DEF InScenario
  <2>4. B \subseteq F
    <3> SUFFICES ASSUME NEW i \in B PROVE i \in F
      OBVIOUS
    <3>1. i \in InScenario(s) /\ i \in DOMAIN points
      BY <2>3
    <3>2. points[i].recommendation.dual > 0
      BY DEF point_rank_record
    <3>3. points[i].recommendation.baseline > 0
      BY <1>1, <3>1, <3>2
    <3>4. point_rank_record(points[i]).is_feasible = (points[i].recommendation.baseline > 0)
      BY DEF point_rank_record
    <3> QED
      BY <3>1, <3>3, <3>4
  <2> HIDE DEF F, B, best, highest
  <2>5. best \in B
    BY <2>1, <2>2, <2>3, RankFirst
  <2>6. /\ highest \in F /\ highest # Null
        /\ \A j \in F \ {highest} : \/ Above(RankKey(highest), RankKey(j))
                                    \/ RankKey(highest) = RankKey(j) /\ highest < j
    BY <2>1, <2>2, <2>3, <2>4, RankFirst
  <2>7. /\ highest # Null
        /\ \/ best = highest \/ Above(RankKey(highest), RankKey(best))
           \/ RankKey(highest) = RankKey(best) /\ highest < best
    BY <2>4, <2>5, <2>6
  <2> QED
    BY <2>7 DEF best, highest
<1> QED
  BY <1>1, <1>2 DEF RankingSound

\* For every sweep, whatever its runs measured: the two summaries of a point agree, a stricter
\* limit never raises its recommendation, and the best safe point of a scenario is feasible and
\* not ranked above the highest feasible one (planner/policy.py recommend_runs,
\* run_capacity_sweep.py _point_rank_record and _build_sweep_ranking).
THEOREM RankingAlwaysSound == SweepSpec => []RankingSound
<1>1. Measured => RankingSound
  BY MeasuredRanking
<1> QED
  BY <1>1, MeasuredAlways, PTL

-----------------------------------------------------------------------------
(* The calibration.                                                        *)

\* A whole root of a natural number exists.
LEMMA RootIs ==
    ASSUME NEW v \in Nat
    PROVE  Root(v) \in Nat
<1> DEFINE S == {r \in 0 .. v : r * r <= v}
           m == Max(S)
<1>1. S \subseteq 0 .. v /\ 0 \in S
  OBVIOUS
<1>2. m \in S /\ \A r \in S : r <= m
  <2>1. 0 \in Int /\ v \in Int
    OBVIOUS
  <2> HIDE DEF S
  <2> QED
    BY <1>1, <2>1, MaxIs
<1> HIDE DEF m
<1>3. m \in 0 .. v /\ m * m <= v
  BY <1>2
<1>4. (m + 1) * (m + 1) > v
  <2> SUFFICES ASSUME ~((m + 1) * (m + 1) > v) PROVE FALSE
    OBVIOUS
  <2>1. 1 * (m + 1) <= (m + 1) * (m + 1)
    <3>1. 1 \in Nat /\ m + 1 \in Nat /\ 1 <= m + 1
      BY <1>3
    <3> QED
      BY <3>1, TimesKeeps
  <2> DEFINE w == (m + 1) * (m + 1)
  <2>2. w \in Nat /\ ~(w > v) /\ m + 1 <= w
    BY <1>3, <2>1
  <2> HIDE DEF w
  <2>3. m + 1 \in 0 .. v /\ w <= v
    BY <1>3, <2>2
  <2>4. m + 1 \in S
    BY <2>3 DEF w
  <2> QED
    BY <1>2, <1>3, <2>4
<1>5. \E r \in 0 .. v : r * r <= v /\ (r + 1) * (r + 1) > v
  BY <1>3, <1>4
<1>6. Root(v) \in 0 .. v
  BY <1>5 DEF Root
<1> QED
  BY <1>6

\* A run is feasible for the calibrator if it passes the dual boundary and has evidence.
LEMMA RejectionIs ==
    ASSUME NEW r \in Run, NEW t \in Nat
    PROVE  Rejection(r, t) = Null <=>
             /\ Passes(r, e2e_p95_slo_ms, min_success_rate, t)
             /\ get_entry_evidence_quality(r) # "missing"
<1> DEFINE ratio == get_entry_hit_ratio_quality_and_source(r).ratio
<1>1. /\ t # Null /\ r.e2e \in Nat /\ e2e_p95_slo_ms \in Nat
      /\ Null \notin {"slo", "success_rate", "metric_quality", "hit_ratio", "evidence_missing"}
  BY NullAssumption, PlannerAssumption DEF Run
<1>2. Quality(r) = "ok" => ratio \in Nat
  BY RunIs
<1> HIDE DEF ratio
<1>3. r.e2e > e2e_p95_slo_ms <=> ~(r.e2e <= e2e_p95_slo_ms)
  BY <1>1
<1>4. Quality(r) = "ok" => (ratio < t <=> ~(ratio >= t))
  BY <1>2
<1> QED
  BY <1>1, <1>3, <1>4 DEF Rejection, Passes, ratio

\* What the calibrator computes from the feasible runs F of a point, where there are any.
FeasibleRuns(rs, t) == {k \in DOMAIN rs : Rejection(rs[k], t) = Null}

Variance(rs, F) ==
    LET avg == Mean(rs, ReqS, F)
        squares == SumFunction([k \in F |-> (rs[k].req_s - avg) * (rs[k].req_s - avg)])
    IN  IF Cardinality(F) > 1 THEN squares \div (Cardinality(F) - 1) ELSE 0

Lower(rs, F) ==
    Max({0, Mean(rs, ReqS, F) - (196 * Root(Variance(rs, F) \div Cardinality(F))) \div 100})

Doubt(rs, F) == Mean(rs, EVIDENCE_UNCERTAINTY, F)

Score(rs, F) == 100 * Lower(rs, F) - 75 * Root(Variance(rs, F))
                  - (75 * Mean(rs, ReqS, F) * Doubt(rs, F)) \div 100

LEMMA CandidateOf ==
    ASSUME NEW i, NEW t
    PROVE  LET rs == points[i].runs
               F  == FeasibleRuns(rs, t)
           IN  evaluate_candidate(i, t) =
                 [point |-> i, threshold |-> t, concurrency |-> points[i].concurrency,
                  feasible |-> Cardinality(F),
                  score |-> IF Cardinality(F) = 0 THEN Null ELSE Score(rs, F),
                  uncertainty |-> IF Cardinality(F) = 0 THEN 100 ELSE Doubt(rs, F),
                  expected_rps |-> IF Cardinality(F) = 0 THEN 0 ELSE Lower(rs, F) * safety_factor]
  BY DEF evaluate_candidate, FeasibleRuns, Score, Doubt, Lower, Variance

\* The numbers of a candidate: a score that is an integer, and an expected rate that the
\* fastest feasible run reaches.
LEMMA ScoreIs ==
    ASSUME NEW rs \in Seq(Run), Len(rs) >= 1, NEW F, F \subseteq DOMAIN rs, F # {}
    PROVE  /\ Score(rs, F) \in Int /\ Doubt(rs, F) \in Nat
           /\ Lower(rs, F) \in Nat /\ Lower(rs, F) <= Fastest(rs, F)
<1> DEFINE q == [k \in F |-> rs[k].req_s]
           d == [k \in F |-> EVIDENCE_UNCERTAINTY(rs[k])]
           avg == Mean(rs, ReqS, F)
           s == [k \in F |-> (rs[k].req_s - avg) * (rs[k].req_s - avg)]
           n == Cardinality(F)
           v == Variance(rs, F)
<1>1. IsFiniteSet(F) /\ n \in Nat /\ \A k \in F : rs[k].req_s \in Nat
  BY RunsIs DEF Run
<1>2. n >= 1
  BY <1>1, PickIs
<1>3. q \in [F -> Nat] /\ d \in [F -> Nat]
  BY <1>1 DEF EVIDENCE_UNCERTAINTY
<1>4. avg = SumFunction(q) \div n /\ Doubt(rs, F) = SumFunction(d) \div n
  BY DEF Mean, ReqS, Doubt
<1>5. v = IF n > 1 THEN SumFunction(s) \div (n - 1) ELSE 0
  BY DEF Variance
<1> HIDE DEF n, v, d
<1>6. avg \in Nat /\ Doubt(rs, F) \in Nat
  <2> HIDE DEF q, avg
  <2> QED
    BY <1>1, <1>3, <1>4, MeanNat DEF n
<1>7. avg <= Fastest(rs, F)
  <2>1. PICK k \in F : avg <= q[k]
    <3>1. q \in [F -> Int]
      BY <1>3
    <3> HIDE DEF q, avg
    <3> QED
      BY <1>1, <1>4, <3>1, MeanReached DEF n
  <2>2. q[k] = rs[k].req_s /\ rs[k].req_s \in Nat /\ rs[k].req_s <= Fastest(rs, F)
    BY <1>1, FastestIs
  <2> HIDE DEF q, avg
  <2> QED
    BY <1>6, <2>1, <2>2, FastestIs
<1>8. SumFunction(s) \in Nat
  <2> HIDE DEF avg
  <2>1. \A a \in Int : a * a \in Nat
    OBVIOUS
  <2>2. ASSUME NEW k \in F PROVE s[k] \in Nat
    <3>1. rs[k].req_s - avg \in Int
      BY <1>1, <1>6
    <3> QED
      BY <2>1, <3>1
  <2>3. s \in [F -> Nat]
    BY <2>2
  <2> HIDE DEF s
  <2> QED
    BY <1>1, <2>3, SumNat
<1> HIDE DEF s
<1>9. v \in Nat /\ v \div n \in Nat
  <2>1. n > 1 => n - 1 \in Nat /\ n - 1 >= 1
    BY <1>1
  <2>2. v \in Nat
    BY <1>5, <1>8, <2>1, QuotientNat
  <2> QED
    BY <1>1, <1>2, <2>2, QuotientNat
<1> DEFINE a == Root(v)
           b == Root(v \div n)
           cut == (196 * b) \div 100
<1>10. a \in Nat /\ b \in Nat
  BY <1>9, RootIs
<1> HIDE DEF a, b, avg
<1>11. cut \in Nat
  BY <1>10
<1> HIDE DEF cut
<1>12. Lower(rs, F) = Max({0, avg - cut})
  BY DEF Lower, avg, cut, b, n, v
<1>13. Lower(rs, F) \in Nat /\ Lower(rs, F) <= avg
  <2> DEFINE x == avg - cut
             L == Max({0, x})
  <2>1. x \in Int /\ x <= avg
    BY <1>6, <1>11
  <2> HIDE DEF x
  <2>2. L \in {0, x} /\ \A y \in {0, x} : L >= y
    <3>1. \E y \in {0, x} : \A z \in {0, x} : y >= z
      BY <2>1
    <3> QED
      BY <3>1 DEF Max
  <2> HIDE DEF L
  <2>3. L \in Nat /\ L <= avg
    BY <1>6, <2>1, <2>2
  <2> QED
    BY <1>12, <2>3 DEF L, x
<1>14. Score(rs, F) = 100 * Lower(rs, F) - 75 * a - (75 * avg * Doubt(rs, F)) \div 100
  BY DEF Score, a, v, avg
<1>15. Score(rs, F) \in Int
  <2> DEFINE m == 75 * avg * Doubt(rs, F)
  <2>1. m \in Int
    BY <1>6
  <2> HIDE DEF m
  <2>2. m \div 100 \in Int
    BY <2>1
  <2> QED
    BY <1>10, <1>13, <1>14, <2>2 DEF m
<1> QED
  BY <1>6, <1>7, <1>13, <1>15, FastestIs

\* The runs that back a threshold: those the calibrator counts as feasible.
LEMMA BackedIs ==
    ASSUME NEW rs \in Seq(Run), Len(rs) >= 1, NEW t \in Nat
    PROVE  /\ FeasibleRuns(rs, t) =
                {k \in DOMAIN rs : /\ Passes(rs[k], e2e_p95_slo_ms, min_success_rate, t)
                                   /\ get_entry_evidence_quality(rs[k]) # "missing"}
           /\ FeasibleRuns(rs, t) \subseteq Passed(rs, e2e_p95_slo_ms, min_success_rate, t)
           /\ FeasibleRuns(rs, t) \subseteq DOMAIN rs
<1>1. \A k \in DOMAIN rs : rs[k] \in Run
  BY RunsIs
<1>2. \A k \in DOMAIN rs : Rejection(rs[k], t) = Null <=>
         /\ Passes(rs[k], e2e_p95_slo_ms, min_success_rate, t)
         /\ get_entry_evidence_quality(rs[k]) # "missing"
  BY <1>1, RejectionIs
<1> QED
  BY <1>2 DEF FeasibleRuns, Passed

\* What is known of a candidate.
LEMMA CandidateIs ==
    ASSUME Measured, NEW i \in DOMAIN points, NEW t \in Thresholds
    PROVE  LET e  == evaluate_candidate(i, t)
               rs == points[i].runs
               F  == FeasibleRuns(rs, t)
           IN  /\ e \in Candidate /\ e.point = i /\ e.threshold = t
               /\ e.concurrency = points[i].concurrency /\ e.feasible = Cardinality(F)
               /\ e.feasible >= 1 => /\ e.score \in Int /\ e.score = Score(rs, F)
                                     /\ e.uncertainty = Doubt(rs, F)
               /\ e.expected_rps <=
                    recommend_runs(rs, e2e_p95_slo_ms, min_success_rate, t).recommended_rps
<1> DEFINE p  == points[i]
           rs == p.runs
           F  == FeasibleRuns(rs, t)
           P  == Passed(rs, e2e_p95_slo_ms, min_success_rate, t)
           n  == Cardinality(F)
           e  == evaluate_candidate(i, t)
<1>1. Point(p, plan.repeats) /\ i \in Nat
  BY PointIs
<1>2. e = [point |-> i, threshold |-> t, concurrency |-> p.concurrency, feasible |-> n,
           score |-> IF n = 0 THEN Null ELSE Score(rs, F),
           uncertainty |-> IF n = 0 THEN 100 ELSE Doubt(rs, F),
           expected_rps |-> IF n = 0 THEN 0 ELSE Lower(rs, F) * safety_factor]
  BY CandidateOf
<1> HIDE DEF p
<1>3. rs \in Seq(Run) /\ Len(rs) >= 1 /\ p.concurrency \in Nat
  BY <1>1 DEF Point
<1> HIDE DEF rs
<1>4. t \in Nat /\ safety_factor \in Nat
  BY PlannerAssumption
<1>5. F \subseteq P /\ F \subseteq DOMAIN rs /\ P \subseteq DOMAIN rs
  BY <1>3, <1>4, BackedIs DEF Passed
<1> HIDE DEF F, P
<1>6. n \in Nat /\ (n = 0 <=> F = {})
  BY <1>3, <1>5, RunsIs, FS_EmptySet
<1> HIDE DEF n, e
<1>7. CASE n = 0
  <2>1. Fastest(rs, P) * safety_factor \in Nat
    BY <1>3, <1>5, RateFollows
  <2>2. /\ e \in Candidate /\ e.point = i /\ e.threshold = t
        /\ e.concurrency = p.concurrency /\ e.feasible = n /\ ~(e.feasible >= 1)
        /\ e.expected_rps = 0
    BY <1>1, <1>2, <1>3, <1>4, <1>6, <1>7 DEF Candidate
  <2> QED
    BY <2>1, <2>2, RateIs DEF p, rs, F, P, n, e
<1>8. CASE n # 0
  <2> DEFINE L == Lower(rs, F)
             S == Score(rs, F)
             U == Doubt(rs, F)
  <2>1. L \in Nat /\ S \in Int /\ U \in Nat /\ L <= Fastest(rs, F)
    BY <1>3, <1>5, <1>6, <1>8, ScoreIs
  <2>2. Fastest(rs, F) \in Nat
    BY <1>3, <1>5, FastestIs
  <2> HIDE DEF L, S, U
  <2>3. L * safety_factor <= Fastest(rs, F) * safety_factor
    BY <1>4, <2>1, <2>2, TimesKeeps
  <2>4. Fastest(rs, F) * safety_factor <= Fastest(rs, P) * safety_factor
    BY <1>3, <1>5, RateFollows
  <2> DEFINE x == L * safety_factor
             y == Fastest(rs, F) * safety_factor
             z == Fastest(rs, P) * safety_factor
  <2>5. x \in Nat /\ y \in Nat /\ z \in Nat
    <3>1. Fastest(rs, P) \in Nat
      BY <1>3, <1>5, FastestIs
    <3> QED
      BY <1>4, <2>1, <2>2, <3>1
  <2>6. e = [point |-> i, threshold |-> t, concurrency |-> p.concurrency, feasible |-> n,
             score |-> S, uncertainty |-> U, expected_rps |-> x]
    BY <1>2, <1>8 DEF L, S, U
  <2>7. x <= y /\ y <= z
    BY <2>3, <2>4
  <2> HIDE DEF x, y, z
  <2>8. /\ e \in Candidate /\ e.point = i /\ e.threshold = t
        /\ e.concurrency = p.concurrency /\ e.feasible = n
        /\ e.score \in Int /\ e.score = S /\ e.uncertainty = U /\ e.expected_rps = x
    BY <1>1, <1>3, <1>4, <1>6, <2>1, <2>5, <2>6 DEF Candidate
  <2>9. x <= z
    BY <2>5, <2>7
  <2>10. z = recommend_runs(rs, e2e_p95_slo_ms, min_success_rate, t).recommended_rps
    BY RateIs DEF z, P
  <2> QED
    BY <2>8, <2>9, <2>10 DEF p, rs, F, n, e, S, U
<1> QED
  BY <1>7, <1>8

\* Candidates that may be selected, by their point and threshold.
LEMMA SelectableIs ==
    ASSUME Measured
    PROVE  /\ \A c \in Selectable : \E i \in DOMAIN points, t \in Thresholds :
                 c = evaluate_candidate(i, t) /\ c.feasible >= plan.repeats /\ c.feasible >= 1
           /\ \A i \in DOMAIN points, t \in Thresholds :
                 evaluate_candidate(i, t).feasible >= plan.repeats =>
                    evaluate_candidate(i, t) \in Selectable
<1> DEFINE E(x) == evaluate_candidate(x[1], x[2])
           X == (DOMAIN points) \X Thresholds
<1>0. plan.repeats \in Nat /\ plan.repeats >= 1
  BY PlannerAssumption DEF Measured
<1>1. ASSUME NEW c \in Selectable
      PROVE  \E i \in DOMAIN points, t \in Thresholds :
                c = evaluate_candidate(i, t) /\ c.feasible >= plan.repeats /\ c.feasible >= 1
  <2>1. c \in candidates /\ c.feasible >= plan.repeats
    BY DEF Selectable
  <2>2. PICK x \in X : c = E(x)
    BY <2>1 DEF candidates
  <2>3. x[1] \in DOMAIN points /\ x[2] \in Thresholds /\ c = evaluate_candidate(x[1], x[2])
    BY <2>2
  <2>4. c.feasible \in Nat
    BY <2>3, CandidateIs DEF Candidate
  <2>5. c.feasible >= 1
    BY <1>0, <2>1, <2>4
  <2> QED
    BY <2>1, <2>3, <2>5
<1>2. ASSUME NEW i \in DOMAIN points, NEW t \in Thresholds,
             evaluate_candidate(i, t).feasible >= plan.repeats
      PROVE  evaluate_candidate(i, t) \in Selectable
  <2> DEFINE e == evaluate_candidate(i, t)
  <2>1. e \in Candidate /\ (e.feasible >= 1 => e.score \in Int)
    BY CandidateIs
  <2>2. e \in candidates
    <3>1. <<i, t>> \in X /\ E(<<i, t>>) = e
      OBVIOUS
    <3> HIDE DEF e
    <3> QED
      BY <3>1 DEF candidates
  <2> HIDE DEF e
  <2>3. e.feasible \in Nat /\ e.feasible >= plan.repeats
    BY <1>2, <2>1 DEF Candidate, e
  <2>4. e.score # Null
    BY <1>0, <2>1, <2>3, NullAssumption
  <2>5. e \in Selectable
    BY <2>2, <2>3, <2>4 DEF Selectable
  <2> QED
    BY <2>5 DEF e
<1> QED
  BY <1>1, <1>2

\* The calibration is the first of the selectable candidates, if there is one.
LEMMA CalibrateIs ==
    ASSUME Measured
    PROVE  /\ Selectable = {} => calibrate = Null
           /\ Selectable # {} =>
                /\ calibrate \in Selectable
                /\ \A d \in Selectable \ {calibrate} :
                      \/ Above(CandidateKey(calibrate), CandidateKey(d))
                      \/ CandidateKey(calibrate) = CandidateKey(d) /\ calibrate.point < d.point
<1> DEFINE E(x) == evaluate_candidate(x[1], x[2])
           X    == (DOMAIN points) \X Thresholds
           S    == {x \in X : E(x) \in Selectable}
           key  == [x \in S |-> CandidateKey(E(x))]
           rank == [x \in S |-> x[1]]
           Wins(c, d) == \/ Above(CandidateKey(c), CandidateKey(d))
                         \/ CandidateKey(c) = CandidateKey(d) /\ c.point < d.point
<1>1. Selectable = {} => calibrate = Null
  BY DEF calibrate
<1>2. SUFFICES ASSUME Selectable # {}
               PROVE  \E c \in Selectable : \A d \in Selectable \ {c} : Wins(c, d)
  <2>1. Selectable # {} =>
          calibrate = CHOOSE c \in Selectable : \A d \in Selectable \ {c} : Wins(c, d)
    BY DEF calibrate
  <2> HIDE DEF Wins
  <2>2. Selectable # {} => /\ calibrate \in Selectable
                           /\ \A d \in Selectable \ {calibrate} : Wins(calibrate, d)
    BY <1>2, <2>1
  <2> QED
    BY <1>1, <2>2 DEF Wins
<1>3. IsFiniteSet(S)
  <2>1. DOMAIN points = 1 .. Len(points) /\ Len(points) \in Nat
    BY DEF Measured
  <2>2. IsFiniteSet(1 .. Len(points)) /\ IsFiniteSet(Thresholds)
    BY <2>1, FS_Interval, PlannerAssumption
  <2>3. IsFiniteSet(DOMAIN points)
    BY <2>1, <2>2
  <2>4. IsFiniteSet(X)
    BY <2>2, <2>3, FS_Product
  <2> HIDE DEF X, E
  <2> QED
    BY <2>4, FS_Subset
<1>4. ASSUME NEW x \in S
      PROVE  /\ x = <<x[1], x[2]>> /\ x[1] \in DOMAIN points /\ x[1] \in Int
             /\ E(x).point = x[1] /\ E(x).threshold = x[2]
             /\ CandidateKey(E(x)) \in [1 .. 4 -> Int] /\ CandidateKey(E(x))[3] = x[2]
  <2> DEFINE e == E(x)
  <2>1. x \in X /\ E(x) \in Selectable
    OBVIOUS
  <2>2. x = <<x[1], x[2]>> /\ x[1] \in DOMAIN points /\ x[2] \in Thresholds
    BY <2>1
  <2>3. e.feasible >= 1
    BY <2>1, SelectableIs
  <2>4. e \in Candidate /\ e.point = x[1] /\ e.threshold = x[2] /\ e.score \in Int
    BY <2>2, <2>3, CandidateIs
  <2>5. x[1] \in Int
    BY <2>2, PointIs
  <2> HIDE DEF e
  <2>6. /\ e.score \in Int /\ -e.uncertainty \in Int /\ e.threshold \in Int
        /\ -e.concurrency \in Int
    BY <2>4 DEF Candidate
  <2>7. \A a, b, c, d \in Int : <<a, b, c, d>> \in [1 .. 4 -> Int] /\ <<a, b, c, d>>[3] = c
    OBVIOUS
  <2>8. CandidateKey(e) \in [1 .. 4 -> Int] /\ CandidateKey(e)[3] = e.threshold
    BY <2>6, <2>7 DEF CandidateKey
  <2> QED
    BY <2>2, <2>4, <2>5, <2>8 DEF e
<1>5. ASSUME NEW c \in Selectable PROVE \E x \in S : c = E(x)
  <2>1. PICK i \in DOMAIN points, t \in Thresholds : c = evaluate_candidate(i, t)
    BY SelectableIs
  <2>2. <<i, t>> \in X /\ E(<<i, t>>) = c
    BY <2>1
  <2> HIDE DEF E, X
  <2> QED
    BY <2>2
<1>6. \A x \in S : key[x] = CandidateKey(E(x)) /\ rank[x] = x[1] /\ E(x) \in Selectable
  OBVIOUS
<1> HIDE DEF S, E, key, rank
<1>7. PICK x \in S : \A y \in S \ {x} :
         Above(key[x], key[y]) \/ (key[x] = key[y] /\ rank[x] < rank[y])
  <2>1. S # {}
    BY <1>2, <1>5
  <2>2. \A y \in S : key[y] \in [1 .. 4 -> Int]
    BY <1>4, <1>6
  <2>3. \A y \in S : rank[y] \in Int
    BY <1>4, <1>6
  <2>4. ASSUME NEW y \in S, NEW z \in S, key[y] = key[z], rank[y] = rank[z] PROVE y = z
    <3>1. y[1] = z[1] /\ y[2] = z[2]
      BY <1>4, <1>6, <2>4
    <3>2. y = <<y[1], y[2]>> /\ z = <<z[1], z[2]>>
      BY <1>4
    <3> QED
      BY ONLY <3>1, <3>2
  <2>5. \A y, z \in S : key[y] = key[z] /\ rank[y] = rank[z] => y = z
    BY <2>4
  <2>6. 4 \in Nat
    OBVIOUS
  <2>7. Sortable(S, 4, key, rank)
    BY <1>3, <2>1, <2>2, <2>3, <2>5, <2>6 DEF Sortable
  <2> QED
    BY <2>7, FirstExists
<1>8. ASSUME NEW d \in Selectable \ {E(x)} PROVE Wins(E(x), d)
  <2>1. PICK y \in S : d = E(y)
    BY <1>5
  <2>2. y # x
    BY <2>1
  <2>3. Above(key[x], key[y]) \/ (key[x] = key[y] /\ rank[x] < rank[y])
    BY <1>7, <2>2
  <2> QED
    BY <1>4, <1>6, <2>1, <2>3
<1> QED
  BY <1>6, <1>8

LEMMA MeasuredCalibration == ASSUME Measured PROVE CalibrationBacked
<1> DEFINE Backed(p, t) ==
               Cardinality({k \in DOMAIN p.runs :
                   /\ Passes(p.runs[k], e2e_p95_slo_ms, min_success_rate, t)
                   /\ get_entry_evidence_quality(p.runs[k]) # "missing"})
           c == calibrate
           n == plan.repeats
<1>1. ASSUME NEW i \in DOMAIN points, NEW t \in Thresholds
      PROVE  /\ points[i].runs \in Seq(Run) /\ Len(points[i].runs) = n /\ n \in Nat /\ n >= 1
             /\ Backed(points[i], t) = evaluate_candidate(i, t).feasible
             /\ Backed(points[i], t) = Cardinality(FeasibleRuns(points[i].runs, t))
             /\ Backed(points[i], t) \in Nat
             /\ FeasibleRuns(points[i].runs, t) \subseteq DOMAIN points[i].runs
  <2> DEFINE p == points[i]
             rs == p.runs
  <2>1. Point(p, n)
    BY PointIs
  <2>2. rs \in Seq(Run) /\ Len(rs) >= 1 /\ Len(rs) = n /\ n \in Nat /\ n >= 1
    <3> HIDE DEF p
    <3> QED
      BY <2>1 DEF Point
  <2>3. t \in Nat
    BY PlannerAssumption
  <2>4. evaluate_candidate(i, t).feasible = Cardinality(FeasibleRuns(rs, t))
    BY CandidateIs
  <2> HIDE DEF rs
  <2>5. FeasibleRuns(rs, t) =
          {k \in DOMAIN rs : /\ Passes(rs[k], e2e_p95_slo_ms, min_success_rate, t)
                             /\ get_entry_evidence_quality(rs[k]) # "missing"}
        /\ FeasibleRuns(rs, t) \subseteq DOMAIN rs
    BY <2>2, <2>3, BackedIs
  <2>6. Cardinality(FeasibleRuns(rs, t)) \in Nat
    BY <2>2, <2>5, RunsIs
  <2>7. Backed(p, t) = Cardinality(FeasibleRuns(rs, t))
    BY <2>5 DEF rs
  <2> QED
    BY <2>2, <2>4, <2>5, <2>6, <2>7 DEF rs
<1> HIDE DEF Backed, n
<1>2. CASE Selectable = {}
  <2>1. c = Null
    BY <1>2, CalibrateIs
  <2>2. ASSUME NEW i \in DOMAIN points, NEW t \in Thresholds PROVE Backed(points[i], t) < n
    <3>1. ~(evaluate_candidate(i, t).feasible >= n)
      BY <1>2, SelectableIs DEF n
    <3> QED
      BY <1>1, <3>1
  <2> QED
    BY <2>1, <2>2 DEF CalibrationBacked, Backed, n
<1>3. CASE Selectable # {}
  <2>1. /\ c \in Selectable
        /\ \A d \in Selectable \ {c} :
              \/ Above(CandidateKey(c), CandidateKey(d))
              \/ CandidateKey(c) = CandidateKey(d) /\ c.point < d.point
    BY <1>3, CalibrateIs
  <2> HIDE DEF c
  <2>2. PICK i \in DOMAIN points, t \in Thresholds :
           c = evaluate_candidate(i, t) /\ c.feasible >= n /\ c.feasible >= 1
    BY <2>1, SelectableIs DEF n
  <2> DEFINE p == points[i]
             rs == p.runs
             F(u) == FeasibleRuns(rs, u)
  <2>3. /\ c \in Candidate /\ c.point = i /\ c.threshold = t /\ c.concurrency = p.concurrency
        /\ c.score \in Int /\ c.score = Score(rs, F(t)) /\ c.uncertainty = Doubt(rs, F(t))
        /\ c.expected_rps <=
             recommend_runs(rs, e2e_p95_slo_ms, min_success_rate, t).recommended_rps
    BY <2>2, CandidateIs
  <2>4. c # Null
    BY <2>3, PlannerAssumption
  <2>5. Backed(p, t) >= n
    BY <1>1, <2>2
  <2>6. ASSUME NEW u \in Thresholds, u > t, ~(Backed(p, u) < n) PROVE FALSE
    <3> DEFINE d == evaluate_candidate(i, u)
    <3>1. d.feasible >= n /\ d.feasible >= 1
      BY <1>1, <2>6
    <3>2. d \in Selectable
      BY <3>1, SelectableIs DEF n
    <3>3. F(t) = DOMAIN rs /\ F(u) = DOMAIN rs
      <4>1. ASSUME NEW w \in Thresholds, Backed(p, w) >= n PROVE F(w) = DOMAIN rs
        <5>1. /\ rs \in Seq(Run) /\ Len(rs) = n /\ n \in Nat /\ n >= 1
              /\ Cardinality(F(w)) >= n /\ F(w) \subseteq DOMAIN rs
          BY <1>1, <4>1
        <5> HIDE DEF rs, F
        <5>2. Cardinality(F(w)) \in Nat /\ Cardinality(F(w)) <= n
          BY <5>1, RunsIs
        <5>3. Cardinality(F(w)) = Len(rs)
          BY <5>1, <5>2
        <5> QED
          BY <5>1, <5>3, RunsIs
      <4>2. Backed(p, u) >= n
        BY <1>1, <3>1
      <4> QED
        BY <2>5, <4>1, <4>2
    <3>4. /\ d \in Candidate /\ d.point = i /\ d.threshold = u /\ d.concurrency = p.concurrency
          /\ d.score = Score(rs, F(u)) /\ d.uncertainty = Doubt(rs, F(u))
      BY <3>1, CandidateIs
    <3> HIDE DEF d, rs, F, p
    <3>5. d.score = c.score /\ d.uncertainty = c.uncertainty /\ d.concurrency = c.concurrency
      BY <2>3, <3>3, <3>4
    <3>6. t \in Nat /\ u \in Nat /\ c.score \in Int /\ c.uncertainty \in Int /\ c.concurrency \in Int
      BY <2>3, PlannerAssumption DEF Candidate
    <3> DEFINE a == CandidateKey(c)
               b == CandidateKey(d)
    <3>7. /\ a = <<c.score, -c.uncertainty, t, -c.concurrency>>
          /\ b = <<c.score, -c.uncertainty, u, -c.concurrency>>
      BY <2>3, <3>4, <3>5 DEF CandidateKey
    <3>8. DOMAIN a = 1 .. 4 /\ a[1] = b[1] /\ a[2] = b[2] /\ a[3] = t /\ b[3] = u /\ a[4] = b[4]
          /\ a[1] \in Int /\ a[2] \in Int /\ a[4] \in Int
      BY <3>6, <3>7
    <3>9. d # c
      BY <2>3, <2>6, <3>4, <3>6
    <3>10. Above(a, b) \/ a = b
      BY <2>1, <3>2, <3>9
    <3> HIDE DEF a, b
    <3>11. a # b
      BY <2>6, <3>6, <3>8
    <3>12. ASSUME NEW k \in 1 .. 4, a[k] > b[k], \A j \in 1 .. k - 1 : a[j] = b[j] PROVE FALSE
      <4>1. k = 1 \/ k = 2 \/ k = 3 \/ k = 4
        OBVIOUS
      <4>2. k # 4
        <5> SUFFICES ASSUME k = 4 PROVE FALSE
          OBVIOUS
        <5>1. a[4] > a[4]
          BY <3>8, <3>12
        <5> QED
          BY <3>8, <5>1
      <4> QED
        BY <2>6, <3>6, <3>8, <3>12, <4>1, <4>2
    <3> QED
      BY <3>8, <3>10, <3>11, <3>12 DEF Above
  <2>7. /\ Backed(points[c.point], c.threshold) >= n
        /\ \A u \in Thresholds : u > c.threshold => Backed(points[c.point], u) < n
        /\ c.expected_rps <=
             recommend_runs(points[c.point].runs, e2e_p95_slo_ms, min_success_rate,
                            c.threshold).recommended_rps
    BY <2>3, <2>5, <2>6
  <2> QED
    BY <2>4, <2>7 DEF CalibrationBacked, Backed, n, c
<1> QED
  BY <1>2, <1>3

\* For every sweep, whatever its runs measured and whatever the thresholds: what is calibrated
\* is backed by as many runs of its point as the sweep repeats, at the tightest threshold that
\* has so many, the rate expected is not above the dual boundary there, and nothing is
\* recommended only when no threshold has so many (planner/auto_calibrator.py calibrate).
THEOREM CalibrationAlwaysBacked == SweepSpec => []CalibrationBacked
<1>1. Measured => CalibrationBacked
  BY MeasuredCalibration
<1> QED
  BY <1>1, MeasuredAlways, PTL

-----------------------------------------------------------------------------
(* The operating envelope.                                                 *)

\* A document the envelope is computed from: a list of points, whose goodput and GPU seconds
\* are numbers or missing, and whose concurrency is a number.
Document ==
    /\ \E n \in Nat : DOMAIN points = 1 .. n
    /\ \A i \in DOMAIN points : /\ points[i].aggregates.goodput_mean \in Nat \cup {Null}
                                /\ points[i].aggregates.gpu_seconds_mean \in Nat \cup {Null}
                                /\ points[i].concurrency \in Int

\* The sort key of a recommendation, which names the goodput twice.
LEMMA KeyOrder ==
    ASSUME NEW a \in Int, NEW b \in Int, NEW c \in Int, NEW d \in Int
    PROVE  Above(<<a, a, -c>>, <<b, b, -d>>) <=> (a > b \/ (a = b /\ c < d))
<1> DEFINE u == <<a, a, -c>>
           v == <<b, b, -d>>
<1>1. DOMAIN u = {1, 2, 3} /\ u[1] = a /\ u[2] = a /\ u[3] = -c
  OBVIOUS
<1>2. v[1] = b /\ v[2] = b /\ v[3] = -d
  OBVIOUS
<1> HIDE DEF u, v
<1>3. Above(u, v) <=> \/ u[1] > v[1]
                      \/ u[2] > v[2] /\ u[1] = v[1]
                      \/ u[3] > v[3] /\ u[1] = v[1] /\ u[2] = v[2]
  BY <1>1 DEF Above
<1> QED
  BY <1>1, <1>2, <1>3 DEF u, v

\* The points a budget leaves: measured ones, finitely many, and more for a larger budget.
LEMMA FeasibleIs ==
    ASSUME Document, NEW b
    PROVE  /\ Feasible(b) \subseteq DOMAIN points /\ IsFiniteSet(Feasible(b))
           /\ \A i \in Feasible(b) : /\ Goodput(i) \in Nat /\ i \in Nat
                                      /\ points[i].concurrency \in Int
<1>1. Feasible(b) \subseteq DOMAIN points
  BY DEF Feasible
<1>2. PICK n \in Nat : DOMAIN points = 1 .. n
  BY DEF Document
<1>3. IsFiniteSet(Feasible(b))
  BY <1>1, <1>2, FS_Interval, FS_Subset
<1>4. ASSUME NEW i \in Feasible(b) PROVE Goodput(i) # Null
  <2>1. "goodput_missing" \notin Reasons(points[i], b)
    BY <1>4 DEF Feasible
  <2> QED
    BY <2>1 DEF Reasons, Goodput
<1> QED
  BY <1>1, <1>2, <1>3, <1>4 DEF Document, Goodput

LEMMA BudgetLoosens ==
    ASSUME Document, NEW b \in Budgets, NEW c \in Budgets, c = Null \/ (b # Null /\ b <= c)
    PROVE  Feasible(b) \subseteq Feasible(c)
<1> SUFFICES ASSUME NEW i \in DOMAIN points, NEW r \in Reasons(points[i], c)
             PROVE  r \in Reasons(points[i], b)
  BY DEF Feasible
<1>1. /\ b \in Nat \cup {Null} /\ c \in Nat \cup {Null} /\ Null \notin Int
      /\ point_resource(points[i]) \in Nat \cup {Null}
  BY NullAssumption, PlannerAssumption DEF Document, point_resource
<1> QED
  BY <1>1 DEF Reasons

\* The recommended point is feasible and has the highest goodput of the feasible ones.
LEMMA RecommendedIs ==
    ASSUME Document, NEW b, Feasible(b) # {}
    PROVE  /\ recommend_operating_point(b) \in Feasible(b)
           /\ \A j \in Feasible(b) :
                 Goodput(j) <= Goodput(recommend_operating_point(b))
<1> DEFINE S      == Feasible(b)
           g(i)   == Goodput(i)
           c(i)   == points[i].concurrency
           Key(i) == <<g(i), g(i), -c(i)>>
           Wins(i, j) == Above(Key(i), Key(j)) \/ (Key(i) = Key(j) /\ i < j)
           key  == [i \in S |-> Key(i)]
           rank == [i \in S |-> i]
<1>1. IsFiniteSet(S) /\ S # {} /\ \A i \in S : g(i) \in Nat /\ i \in Nat /\ c(i) \in Int
  BY FeasibleIs
<1> HIDE DEF S, g, c
<1>2. ASSUME NEW i \in S, NEW j \in S, Wins(i, j) PROVE g(i) >= g(j)
  <2>1. Above(Key(i), Key(j)) <=> (g(i) > g(j) \/ (g(i) = g(j) /\ c(i) < c(j)))
    BY <1>1, KeyOrder
  <2>2. Key(i) = Key(j) => g(i) = g(j)
    BY <1>1
  <2> QED
    BY <1>1, <1>2, <2>1, <2>2
<1>3. \A i \in S : Key(i) \in [1 .. 3 -> Int]
  <2>1. \A x, y, z \in Int : <<x, y, z>> \in [1 .. 3 -> Int]
    OBVIOUS
  <2> QED
    BY <1>1, <2>1
<1> HIDE DEF Key
<1>4. \A i \in S : key[i] = Key(i) /\ rank[i] = i
  OBVIOUS
<1> HIDE DEF key, rank
<1>5. Sortable(S, 3, key, rank)
  BY <1>1, <1>3, <1>4 DEF Sortable
<1>6. \E i \in S : \A j \in S \ {i} : Wins(i, j)
  BY <1>4, <1>5, FirstExists
<1> HIDE DEF Wins
<1>7. recommend_operating_point(b) = CHOOSE i \in S : \A j \in S \ {i} : Wins(i, j)
  BY DEF recommend_operating_point, First, S, Wins, Key, g, c
<1> DEFINE best == CHOOSE i \in S : \A j \in S \ {i} : Wins(i, j)
<1>8. best \in S /\ \A j \in S \ {best} : Wins(best, j)
  BY <1>6
<1> HIDE DEF best
<1>9. \A j \in S : g(j) <= g(best)
  BY <1>1, <1>2, <1>8
<1> QED
  BY <1>7, <1>8, <1>9 DEF S, g, best

\* Among the feasible points of the highest goodput, one is dominated by none.
LEMMA FrontReached ==
    ASSUME Document, NEW b, NEW best \in Feasible(b),
           \A j \in Feasible(b) : Goodput(j) <= Goodput(best)
    PROVE  \E i \in pareto_points(b) : Goodput(i) = Goodput(best)
<1> DEFINE S    == Feasible(b)
           g(i) == Goodput(i)
           m(i) == point_resource(points[i])
           top  == {i \in S : g(i) = g(best)}
           R    == {p \in top \X top : Dominates(p[1], p[2])}
<1>1. IsFiniteSet(S) /\ \A i \in S : g(i) \in Nat /\ m(i) \in Nat \cup {Null}
  BY FeasibleIs DEF Document, point_resource
<1>2. \A i, j : Dominates(i, j) <=>
                  /\ i # j /\ g(i) >= g(j)
                  /\ (m(i) # Null /\ m(j) # Null) => m(i) <= m(j)
                  /\ g(i) > g(j) \/ (m(i) # Null /\ m(j) # Null /\ m(i) < m(j))
  BY DEF Dominates
<1> HIDE DEF S, g, m
<1>3. IsFiniteSet(top) /\ top # {} /\ top \subseteq S
  BY <1>1, FS_Subset DEF S
<1>4. \A i, j \in top : <<i, j>> \in R <=> m(i) # Null /\ m(j) # Null /\ m(i) < m(j)
  BY <1>1, <1>2
<1>5. PICK i \in top : \A j \in top : <<j, i>> \notin R
  <2>1. \A x \in top : <<x, x>> \notin R
    BY <1>1, <1>3, <1>4
  <2>2. \A x, y, z \in top : <<x, y>> \in R /\ <<y, z>> \in R => <<x, z>> \in R
    BY <1>1, <1>3, <1>4
  <2> HIDE DEF R, top
  <2> QED
    BY <1>3, <2>1, <2>2, MinimalIs
<1>6. ASSUME NEW j \in S, Dominates(j, i) PROVE FALSE
  <2>1. g(j) >= g(i) /\ g(j) <= g(best) /\ g(i) = g(best)
    BY <1>2, <1>6 DEF S, g
  <2>2. j \in top
    BY <1>1, <1>3, <2>1
  <2> QED
    BY <1>5, <1>6, <2>2
<1>7. i \in pareto_points(b)
  BY <1>3, <1>6 DEF pareto_points, S
<1> QED
  BY <1>7 DEF g

LEMMA DocumentImplies == ASSUME Document PROVE EnvelopeFront
<1> DEFINE Value(b) == LET i == recommend_operating_point(b)
                       IN  IF i = Null THEN 0 ELSE Goodput(i)
<1>1. ASSUME NEW b, Feasible(b) # {}
      PROVE  /\ Value(b) = Goodput(recommend_operating_point(b))
             /\ Value(b) \in Nat
             /\ \A j \in Feasible(b) : Goodput(j) <= Value(b)
             /\ \E i \in Feasible(b) : Goodput(i) = Value(b)
             /\ \E i \in pareto_points(b) : Goodput(i) = Value(b)
  <2>1. /\ recommend_operating_point(b) \in Feasible(b)
        /\ \A j \in Feasible(b) :
              Goodput(j) <= Goodput(recommend_operating_point(b))
    BY <1>1, RecommendedIs
  <2>2. /\ recommend_operating_point(b) # Null
        /\ Goodput(recommend_operating_point(b)) \in Nat
    BY <2>1, FeasibleIs, NullAssumption
  <2>3. \E i \in pareto_points(b) :
           Goodput(i) = Goodput(recommend_operating_point(b))
    BY <2>1, FrontReached
  <2> QED
    BY <2>1, <2>2, <2>3
<1>2. ASSUME NEW b, Feasible(b) = {} PROVE Value(b) = 0 /\ pareto_points(b) = {}
  BY <1>2 DEF recommend_operating_point, First, pareto_points
<1> HIDE DEF Value
<1>3. ASSUME NEW b \in Budgets, NEW c \in Budgets, c = Null \/ (b # Null /\ b <= c)
      PROVE  Value(b) <= Value(c)
  <2>1. Feasible(b) \subseteq Feasible(c)
    BY <1>3, BudgetLoosens
  <2>2. CASE Feasible(b) = {}
    <3>1. Value(c) \in Nat /\ Value(b) = 0
      BY <1>1, <1>2, <2>2
    <3> QED
      BY <3>1
  <2>3. CASE Feasible(b) # {}
    <3>1. PICK i \in Feasible(b) : Goodput(i) = Value(b)
      BY <1>1, <2>3
    <3> QED
      BY <1>1, <2>1, <3>1
  <2> QED
    BY <2>2, <2>3
<1>4. \A b \in Budgets :
         /\ (Feasible(b) = {}) <=> (pareto_points(b) = {})
         /\ Feasible(b) # {} => \E i \in pareto_points(b) : Goodput(i) = Value(b)
         /\ \A c \in Budgets : (c = Null \/ (b # Null /\ b <= c)) => Value(b) <= Value(c)
  BY <1>1, <1>2, <1>3
<1> QED
  BY <1>4 DEF EnvelopeFront, Value

LEMMA MeasuredDocument == ASSUME Measured PROVE Document
<1>1. \E n \in Nat : DOMAIN points = 1 .. n
  BY DEF Measured
<1>2. ASSUME NEW i \in DOMAIN points
      PROVE  /\ points[i].aggregates.goodput_mean \in Nat \cup {Null}
             /\ points[i].aggregates.gpu_seconds_mean \in Nat \cup {Null}
             /\ points[i].concurrency \in Int
  <2> DEFINE p == points[i]
  <2>1. Point(p, plan.repeats)
    BY PointIs
  <2> HIDE DEF p
  <2>2. p.runs \in Seq(Run) /\ Len(p.runs) >= 1 /\ p.concurrency \in Nat
        /\ p.aggregates = aggregate_run_entries(p.runs)
    BY <2>1 DEF Point
  <2>3. p.aggregates.goodput_mean \in Nat \cup {Null}
        /\ p.aggregates.gpu_seconds_mean \in Nat \cup {Null}
    BY <2>2, AggregatesIs
  <2> QED
    BY <2>2, <2>3 DEF p
<1> QED
  BY <1>1, <1>2 DEF Document

\* Of any sweep, also one whose runs lack goodput or GPU seconds: the Pareto front is empty
\* only when no point is feasible, reaches the goodput of the recommended point, and a smaller
\* budget never raises that goodput (planner/operating_envelope.py recommend_operating_point,
\* pareto_points; the means of run_capacity_sweep.py aggregate_run_entries).
THEOREM FrontAlwaysReached == SweepSpec => []EnvelopeFront
<1>1. Measured => EnvelopeFront
  BY MeasuredDocument, DocumentImplies
<1> QED
  BY <1>1, MeasuredAlways, PTL

-----------------------------------------------------------------------------
(* Exact cache keys.                                                       *)

\* The blocks of a prompt lie one behind the other.
LEMMA Whole ==
    ASSUME NEW c \in Nat, NEW n \in Nat
    PROVE  /\ c \div block_size \in Nat
           /\ n <= c \div block_size <=> n * block_size <= c
<1>1. block_size \in Nat /\ block_size > 0
  BY BlockAssumption
<1> DEFINE q == c \div block_size
           r == c % block_size
<1>2. q \in Nat /\ r \in 0 .. block_size - 1 /\ c = block_size * q + r
  BY <1>1
<1> HIDE DEF q, r
<1>3. CASE n <= q
  <2>1. n * block_size <= q * block_size
    BY <1>1, <1>2, <1>3
  <2> QED
    BY <1>1, <1>2, <1>3, <2>1 DEF q
<1>4. CASE ~(n <= q)
  <2>1. n >= q + 1
    BY <1>2, <1>4
  <2>2. n * block_size >= (q + 1) * block_size
    BY <1>1, <1>2, <2>1
  <2>3. (q + 1) * block_size = block_size * q + block_size
    BY <1>1, <1>2
  <2> QED
    BY <1>1, <1>2, <1>4, <2>2, <2>3 DEF q
<1> QED
  BY <1>3, <1>4

LEMMA BlockIs ==
    ASSUME NEW S, NEW t \in Seq(S), NEW i \in 1 .. full_blocks(t)
    PROVE  /\ Block(t, i) \in Seq(S) /\ Len(Block(t, i)) = block_size
           /\ \A k \in 1 .. block_size : Block(t, i)[k] = t[(i - 1) * block_size + k]
           /\ i * block_size <= Len(t) /\ (i - 1) * block_size \in Nat
           /\ (i - 1) * block_size + block_size = i * block_size
<1>1. block_size \in Nat \ {0} /\ Len(t) \in Nat
  BY BlockAssumption
<1>2. i \in Nat /\ i <= Len(t) \div block_size /\ i >= 1
  <2>1. full_blocks(t) \in Nat
    BY <1>1, Whole DEF full_blocks
  <2> QED
    BY <2>1 DEF full_blocks
<1>3. i * block_size <= Len(t)
  BY <1>1, <1>2, Whole
<1> DEFINE a == (i - 1) * block_size
           b == i * block_size
<1>4. a \in Nat /\ a + block_size = b /\ b \in Nat
  BY <1>1, <1>2
<1>5. Block(t, i) = SubSeq(t, a + 1, b)
  BY DEF Block
<1> HIDE DEF a, b
<1>6. b <= Len(t)
  BY <1>3 DEF b
<1>7. /\ SubSeq(t, a + 1, b) \in Seq(S) /\ Len(SubSeq(t, a + 1, b)) = block_size
      /\ \A k \in 1 .. block_size : SubSeq(t, a + 1, b)[k] = t[a + k]
  BY <1>1, <1>4, <1>6
<1> QED
  BY <1>3, <1>4, <1>5, <1>7 DEF a, b

\* The chain of hashes: the i-th one is made of the first i blocks.
LEMMA HashIs ==
    ASSUME NEW t, full_blocks(t) \in Nat
    PROVE  hash_tokens(t) = [i \in 1 .. full_blocks(t) |-> [j \in 1 .. i |-> Block(t, j)]]
<1> DEFINE N == full_blocks(t)
           Step(f, i) == IF i = 0 THEN NoneHash ELSE hash_block_tokens(f[i - 1], Block(t, i))
           Chain(f) == [i \in 0 .. N |-> Step(f, i)]
           g == [i \in 0 .. N |-> [j \in 1 .. i |-> Block(t, j)]]
           h == CHOOSE f : f = Chain(f)
<1>1. hash_tokens(t) = [i \in 1 .. N |-> h[i]]
  BY DEF hash_tokens
<1>2. \A i \in 0 .. N : g[i] = [j \in 1 .. i |-> Block(t, j)]
  OBVIOUS
<1>3. g = [i \in 0 .. N |-> g[i]]
  OBVIOUS
<1> HIDE DEF g, h, N
<1>4. ASSUME NEW i \in 0 .. N PROVE g[i] = Step(g, i)
  <2>1. CASE i = 0
    <3>1. [j \in 1 .. 0 |-> Block(t, j)] = <<>>
      <4> DEFINE e == [j \in 1 .. 0 |-> Block(t, j)]
      <4>1. e \in Seq({}) /\ Len(e) = 0
        OBVIOUS
      <4> HIDE DEF e
      <4>2. e = <<>>
        BY <4>1
      <4> QED
        BY <4>2 DEF e
    <3> QED
      BY <2>1, <3>1, <1>2 DEF NoneHash
  <2>2. CASE i # 0
    <3> DEFINE s == [j \in 1 .. i - 1 |-> Block(t, j)]
    <3>1. N \in Nat /\ i - 1 \in 0 .. N /\ i \in Nat /\ i >= 1
      BY <2>2 DEF N
    <3>2. g[i - 1] = s
      BY <3>1, <1>2
    <3>3. Append(s, Block(t, i)) = [j \in 1 .. i |-> Block(t, j)]
      <4> DEFINE D == {Block(t, j) : j \in 1 .. i}
      <4>1. s \in Seq(D) /\ Len(s) = i - 1 /\ \A j \in 1 .. i - 1 : s[j] = Block(t, j)
        BY <3>1
      <4> HIDE DEF s
      <4> DEFINE b == Block(t, i)  u == Append(s, b)
      <4>2. b \in D
        BY <3>1
      <4> HIDE DEF b, D
      <4>3. /\ u \in Seq(D) /\ Len(u) = i /\ u[i] = b
            /\ \A j \in 1 .. i - 1 : u[j] = s[j]
        BY <3>1, <4>1, <4>2
      <4> HIDE DEF u
      <4>4. \A j \in 1 .. i : j \in 1 .. i - 1 \/ j = i
        BY <3>1
      <4>5. \A j \in 1 .. i : u[j] = Block(t, j)
        BY <4>1, <4>3, <4>4 DEF b
      <4>6. u = [j \in 1 .. i |-> u[j]]
        BY <4>3
      <4>7. u = [j \in 1 .. i |-> Block(t, j)]
        BY <4>5, <4>6
      <4> QED
        BY <4>7 DEF u, b
    <3> QED
      BY <2>2, <3>2, <3>3, <1>2 DEF hash_block_tokens
  <2> QED
    BY <2>1, <2>2
<1>5. g = Chain(g)
  <2> HIDE DEF Step
  <2> QED
    BY <1>3, <1>4
<1>6. h = Chain(h)
  <2> HIDE DEF Chain
  <2> QED
    BY <1>5, Zenon DEF h
<1>7. \A i \in 0 .. N : h[i] = g[i]
  <2>1. \A i \in 0 .. N : h[i] = Step(h, i) /\ g[i] = Step(g, i)
    <3> HIDE DEF Step
    <3> QED
      BY <1>5, <1>6
  <2>2. N \in Nat
    BY DEF N
  <2>3. h[0] = g[0]
    BY <2>1, <2>2
  <2>4. \A i \in 1 .. N : h[i - 1] = g[i - 1] => h[i] = g[i]
    <3>1. \A i \in 1 .. N : i \in 0 .. N /\ i # 0
      BY <2>2
    <3> QED
      BY <2>1, <3>1
  <2> QED
    BY ONLY <2>2, <2>3, <2>4, AgreeByStep, Zenon
<1>8. \A i \in 1 .. N : i \in 0 .. N
  BY DEF N
<1> QED
  BY <1>1, <1>2, <1>7, <1>8 DEF N

LEMMA HashEqual ==
    ASSUME NEW s, NEW t, NEW n \in Nat, NEW m \in Nat,
           [j \in 1 .. n |-> Block(s, j)] = [j \in 1 .. m |-> Block(t, j)]
    PROVE  n = m /\ \A j \in 1 .. n : Block(s, j) = Block(t, j)
<1> DEFINE f == [j \in 1 .. n |-> Block(s, j)]
           g == [j \in 1 .. m |-> Block(t, j)]
<1>1. f = g /\ DOMAIN f = 1 .. n /\ DOMAIN g = 1 .. m
  OBVIOUS
<1>2. \A j \in 1 .. n : f[j] = Block(s, j)
  OBVIOUS
<1>3. \A j \in 1 .. m : g[j] = Block(t, j)
  OBVIOUS
<1> HIDE DEF f, g
<1>4. 1 .. n = 1 .. m
  BY <1>1
<1>5. n = m
  BY <1>4, FS_Interval
<1> QED
  BY <1>1, <1>2, <1>3, <1>5

\* The first n blocks of two prompts are the same when their tokens are.
LEMMA BlocksAreTokens ==
    ASSUME NEW S, NEW s \in Seq(S), NEW t \in Seq(S), NEW n \in Nat,
           n <= full_blocks(s), n <= full_blocks(t)
    PROVE  (\A j \in 1 .. n : Block(s, j) = Block(t, j))
              <=> \A k \in 1 .. n * block_size : s[k] = t[k]
<1> DEFINE B == block_size
<1>1. /\ B \in Nat /\ B > 0 /\ full_blocks(s) \in Nat /\ full_blocks(t) \in Nat
      /\ n * B \in Nat
  BY BlockAssumption, Whole DEF full_blocks
<1> HIDE DEF B
<1>2. ASSUME NEW j \in 1 .. n
      PROVE  /\ j \in Nat /\ j >= 1 /\ j <= n /\ (j - 1) * B \in Nat
             /\ (j - 1) * B + B = j * B
             /\ Block(s, j) \in Seq(S) /\ Len(Block(s, j)) = B
             /\ Block(t, j) \in Seq(S) /\ Len(Block(t, j)) = B
             /\ \A k \in 1 .. B : /\ Block(s, j)[k] = s[(j - 1) * B + k]
                                   /\ Block(t, j)[k] = t[(j - 1) * B + k]
  <2>1. j \in 1 .. full_blocks(s) /\ j \in 1 .. full_blocks(t)
    BY <1>1
  <2> QED
    BY <2>1, BlockIs DEF B
<1>3. ASSUME \A j \in 1 .. n : Block(s, j) = Block(t, j), NEW k \in 1 .. n * B
      PROVE  s[k] = t[k]
  <2> DEFINE j == (k - 1) \div B + 1
             r == ((k - 1) % B) + 1
  <2>1. k \in Nat /\ k >= 1 /\ k <= n * B
    BY <1>1
  <2>2. /\ (k - 1) \div B \in Nat /\ r \in 1 .. B
        /\ k - 1 = B * ((k - 1) \div B) + ((k - 1) % B)
    BY <1>1, <2>1
  <2>3. j \in 1 .. n
    <3>1. ~(n <= (k - 1) \div B)
      <4>1. k - 1 \in Nat /\ ~(n * B <= k - 1)
        BY <1>1, <2>1
      <4> QED
        BY <4>1, Whole DEF B
    <3> QED
      BY <2>2, <3>1
  <2>4. k = (j - 1) * B + r
    <3>1. j - 1 = (k - 1) \div B
      BY <2>2
    <3>2. (j - 1) * B = B * ((k - 1) \div B)
      BY <1>1, <2>2, <3>1
    <3> QED
      BY <1>1, <2>1, <2>2, <3>2
  <2> HIDE DEF j, r
  <2> QED
    BY <1>2, <1>3, <2>2, <2>3, <2>4
<1>4. ASSUME \A k \in 1 .. n * B : s[k] = t[k], NEW j \in 1 .. n
      PROVE  Block(s, j) = Block(t, j)
  <2>1. \A k \in 1 .. B : (j - 1) * B + k \in 1 .. n * B
    <3>1. j * B <= n * B
      BY <1>1, <1>2, TimesKeeps
    <3> DEFINE a == (j - 1) * B  b == j * B  c == n * B
    <3>2. a \in Nat /\ a + B = b /\ b <= c /\ c \in Nat
      BY <1>1, <1>2, <3>1
    <3> HIDE DEF a, b, c
    <3>3. \A k \in 1 .. B : a + k \in 1 .. c
      BY <1>1, <3>2
    <3> QED
      BY <3>3 DEF a, c
  <2>2. \A k \in 1 .. B : Block(s, j)[k] = Block(t, j)[k]
    BY <1>2, <1>4, <2>1
  <2> DEFINE u == Block(s, j)  v == Block(t, j)
  <2>3. /\ u \in Seq(S) /\ Len(u) = B /\ v \in Seq(S) /\ Len(v) = B
        /\ \A k \in 1 .. B : u[k] = v[k]
    BY <1>2, <2>2
  <2> HIDE DEF u, v
  <2>4. u = v
    BY <1>1, <2>3
  <2> QED
    BY <2>4 DEF u, v
<1> QED
  BY <1>3, <1>4 DEF B

\* How far two prompts agree.
LEMMA CommonIs ==
    ASSUME NEW S, NEW s \in Seq(S), NEW t \in Seq(S)
    PROVE  /\ Common(s, t) \in Nat /\ Common(s, t) <= Len(s) /\ Common(s, t) <= Len(t)
           /\ \A n \in Nat : n <= Common(s, t) <=> /\ n <= Len(s) /\ n <= Len(t)
                                                   /\ \A i \in 1 .. n : s[i] = t[i]
<1> DEFINE m == Min({Len(s), Len(t)})
           C == {n \in 0 .. m : \A i \in 1 .. n : s[i] = t[i]}
<1>1. Len(s) \in Nat /\ Len(t) \in Nat
  OBVIOUS
<1>2. m \in Nat /\ m \in {Len(s), Len(t)} /\ m <= Len(s) /\ m <= Len(t)
  <2>1. {Len(s), Len(t)} \subseteq 0 .. Len(s) + Len(t) /\ 0 \in Int /\ Len(s) + Len(t) \in Int
    BY <1>1
  <2>2. m \in {Len(s), Len(t)} /\ \A x \in {Len(s), Len(t)} : m <= x
    BY <2>1, MinIs
  <2> HIDE DEF m
  <2> QED
    BY <1>1, <2>2
<1> HIDE DEF m
<1>3. C \subseteq 0 .. m /\ 0 \in C
  BY <1>2
<1>4. Common(s, t) = Max(C)
  BY DEF Common, m
<1> HIDE DEF C
<1>5. Max(C) \in C /\ \A x \in C : x <= Max(C)
  <2>1. 0 \in Int /\ m \in Int /\ C # {}
    BY <1>2, <1>3
  <2> QED
    BY <1>3, <2>1, MaxIs
<1> DEFINE c == Common(s, t)
<1>6. c \in 0 .. m /\ (\A i \in 1 .. c : s[i] = t[i]) /\ \A x \in C : x <= c
  BY <1>4, <1>5 DEF C
<1> HIDE DEF c
<1>7. ASSUME NEW n \in Nat, n <= c PROVE \A i \in 1 .. n : s[i] = t[i]
  BY <1>2, <1>6, <1>7
<1>8. ASSUME NEW n \in Nat, n <= Len(s), n <= Len(t), \A i \in 1 .. n : s[i] = t[i]
      PROVE  n <= c
  <2>1. n \in 0 .. m
    BY <1>2, <1>8
  <2> QED
    BY <1>6, <1>8, <2>1 DEF C
<1>9. c \in Nat /\ c <= Len(s) /\ c <= Len(t)
  BY <1>1, <1>2, <1>6
<1>10. \A n \in Nat : n <= c <=> n <= Len(s) /\ n <= Len(t) /\ \A i \in 1 .. n : s[i] = t[i]
  BY <1>1, <1>7, <1>8, <1>9
<1> QED
  BY <1>9, <1>10 DEF c

\* The key of the n-th block is in the index when a cached prompt begins with the same n blocks.
LEMMA Indexed ==
    ASSUME prompts \subseteq Seq(Tokens), NEW a \in Seq(Tokens), NEW n \in 1 .. full_blocks(a)
    PROVE  hash_tokens(a)[n] \in Index
              <=> \E t \in prompts : n <= Common(a, t) \div block_size
<1>1. \A t \in Seq(Tokens) : Len(t) \in Nat /\ full_blocks(t) \in Nat
  BY Whole DEF full_blocks
<1>2. \A t \in Seq(Tokens) : hash_tokens(t) =
         [i \in 1 .. full_blocks(t) |-> [j \in 1 .. i |-> Block(t, j)]]
  BY <1>1, HashIs
<1>3. n \in Nat /\ n <= full_blocks(a)
  BY <1>1
<1>4. hash_tokens(a)[n] = [j \in 1 .. n |-> Block(a, j)]
  BY <1>2
<1>5. ASSUME NEW t \in prompts
      PROVE  n <= Common(a, t) \div block_size
                <=> n <= full_blocks(t) /\ \A j \in 1 .. n : Block(a, j) = Block(t, j)
  <2>1. t \in Seq(Tokens) /\ Len(t) \in Nat /\ full_blocks(t) \in Nat /\ Len(a) \in Nat
    BY <1>1
  <2>2. /\ Common(a, t) \in Nat
        /\ \A k \in Nat : k <= Common(a, t) <=> /\ k <= Len(a) /\ k <= Len(t)
                                                /\ \A i \in 1 .. k : a[i] = t[i]
    BY <2>1, CommonIs
  <2> DEFINE b == n * block_size
  <2>3. b \in Nat
    BY <1>3, BlockAssumption
  <2>4. /\ n <= Common(a, t) \div block_size <=> b <= Common(a, t)
        /\ n <= full_blocks(t) <=> b <= Len(t)
        /\ b <= Len(a)
    BY <1>3, <2>1, <2>2, Whole DEF full_blocks
  <2>5. n <= full_blocks(t) => ((\A j \in 1 .. n : Block(a, j) = Block(t, j))
                                  <=> \A k \in 1 .. b : a[k] = t[k])
    BY <1>3, <2>1, BlocksAreTokens
  <2> HIDE DEF b
  <2> QED
    BY <2>2, <2>3, <2>4, <2>5
<1>6. ASSUME hash_tokens(a)[n] \in Index
      PROVE  \E t \in prompts : n <= full_blocks(t) /\ \A j \in 1 .. n : Block(a, j) = Block(t, j)
  <2>1. PICK t \in prompts : \E i \in 1 .. full_blocks(t) : hash_tokens(a)[n] = hash_tokens(t)[i]
    BY <1>6 DEF Index
  <2>2. PICK i \in 1 .. full_blocks(t) : hash_tokens(a)[n] = hash_tokens(t)[i]
    BY <2>1
  <2>3. t \in Seq(Tokens) /\ i \in Nat /\ i <= full_blocks(t)
    BY <1>1
  <2>4. hash_tokens(t)[i] = [j \in 1 .. i |-> Block(t, j)]
    BY <1>2, <2>3
  <2>5. n = i /\ \A j \in 1 .. n : Block(a, j) = Block(t, j)
    BY <1>3, <1>4, <2>2, <2>3, <2>4, HashEqual
  <2> QED
    BY <2>3, <2>5
<1>7. ASSUME NEW t \in prompts, n <= full_blocks(t), \A j \in 1 .. n : Block(a, j) = Block(t, j)
      PROVE  hash_tokens(a)[n] \in Index
  <2>1. t \in Seq(Tokens) /\ n \in 1 .. full_blocks(t)
    BY <1>1, <1>3, <1>7
  <2>2. hash_tokens(t)[n] = [j \in 1 .. n |-> Block(t, j)]
    BY <1>2, <2>1
  <2>3. hash_tokens(a)[n] = hash_tokens(t)[n]
    BY <1>4, <1>7, <2>2
  <2> QED
    BY <2>1, <2>3 DEF Index
<1> QED
  BY <1>5, <1>6, <1>7

\* What the states of a lookup have in common: prompts and request are token sequences.
Looked == prompts \subseteq Seq(Tokens) /\ asked \in [tokens : Seq(Tokens), supported : BOOLEAN,
                                                         tokenized : BOOLEAN]

LEMMA LookedImplies == ASSUME Looked PROVE MatchIsPrefix
<1> DEFINE a == asked.tokens
           full == full_blocks(a)
           K(t) == Common(a, t) \div block_size
           keys == resolve(asked)
           found == {n \in 0 .. Len(keys) : \A i \in 1 .. n : keys[i] \in Index}
           best  == {0} \cup {K(t) : t \in prompts}
<1>1. a \in Seq(Tokens) /\ Len(a) \in Nat /\ full \in Nat
  BY Whole DEF Looked, full_blocks
<1>2. Match(keys) = Max(found)
  BY DEF Match
<1>3. CASE ~(asked.supported /\ asked.tokenized)
  <2>1. keys = <<>>
    BY <1>3 DEF resolve
  <2>2. found = {0}
    BY <2>1
  <2> HIDE DEF found
  <2>3. 0 \in Int /\ found # {} /\ found \subseteq 0 .. 0
    BY <2>2
  <2>4. Max(found) \in found
    BY <2>3, MaxIs
  <2>5. Max(found) = 0
    BY <2>2, <2>4
  <2> QED
    BY <1>2, <1>3, <2>5 DEF MatchIsPrefix
<1>4. CASE asked.supported /\ asked.tokenized
  <2>1. keys = hash_tokens(a)
    BY <1>4 DEF resolve
  <2>2. Len(keys) = full
    <3>1. keys = [i \in 1 .. full |-> [j \in 1 .. i |-> Block(a, j)]]
      BY <1>1, <2>1, HashIs
    <3> HIDE DEF keys
    <3> QED
      BY <1>1, <3>1
  <2>3. ASSUME NEW t \in prompts PROVE K(t) \in Nat /\ K(t) <= full
    <3>1. t \in Seq(Tokens)
      BY DEF Looked
    <3>2. Common(a, t) \in Nat /\ Common(a, t) <= Len(a)
      BY <1>1, <3>1, CommonIs
    <3> DEFINE c == Common(a, t)
    <3> HIDE DEF c
    <3>3. K(t) = c \div block_size /\ c \in Nat /\ c <= Len(a)
      BY <3>2 DEF c
    <3>4. c \div block_size \in Nat
      BY <3>3, Whole
    <3>5. (c \div block_size) * block_size <= c
      BY <3>3, <3>4, Whole
    <3>6. (c \div block_size) * block_size <= Len(a)
      <4> DEFINE x == (c \div block_size) * block_size
      <4>1. x \in Nat /\ x <= c
        BY <3>4, <3>5, BlockAssumption
      <4> HIDE DEF x
      <4>2. x <= Len(a)
        BY <1>1, <3>3, <4>1
      <4> QED
        BY <4>2 DEF x
    <3> QED
      BY <1>1, <3>3, <3>4, <3>6, Whole DEF full_blocks
  <2> HIDE DEF K, full, keys
  <2>4. ASSUME NEW n \in 1 .. full
        PROVE  keys[n] \in Index <=> \E t \in prompts : n <= K(t)
    BY <1>1, <2>1, Indexed DEF K, full, Looked
  <2>5. best \subseteq 0 .. full /\ best # {} /\ 0 \in best
    BY <1>1, <2>3
  <2>6. 0 \in found /\ found \subseteq 0 .. full
    BY <1>1, <2>2
  <2> DEFINE top == Max(best)  most == Max(found)
  <2>7. top \in best /\ \A x \in best : x <= top
    <3> HIDE DEF best
    <3>1. 0 \in Int /\ full \in Int
      BY <1>1
    <3> QED
      BY <2>5, <3>1, MaxIs
  <2>8. most \in found /\ \A x \in found : x <= most
    <3> HIDE DEF found
    <3>1. 0 \in Int /\ full \in Int /\ found # {}
      BY <1>1, <2>6
    <3> QED
      BY <2>6, <3>1, MaxIs
  <2> HIDE DEF top, most
  <2>9. top \in 0 .. full /\ most \in 0 .. full
    BY <2>5, <2>6, <2>7, <2>8
  <2>10. top <= most
    <3>1. CASE top = 0
      BY <2>9, <3>1, <1>1
    <3>2. CASE top # 0
      <4>1. PICK t \in prompts : top = K(t)
        BY <2>7, <3>2
      <4>2. \A i \in 1 .. top : i \in 1 .. full /\ i <= K(t)
        BY <1>1, <2>9, <4>1
      <4>3. top \in found
        BY <2>2, <2>4, <2>9, <4>2
      <4> QED
        BY <2>8, <4>3
    <3> QED
      BY <3>1, <3>2
  <2>11. most <= top
    <3>1. CASE most = 0
      BY <2>9, <3>1, <1>1
    <3>2. CASE most # 0
      <4>1. most \in 1 .. most /\ most \in 1 .. full
        BY <1>1, <2>9, <3>2
      <4>2. PICK t \in prompts : most <= K(t)
        BY <2>4, <2>8, <4>1
      <4>3. K(t) \in best /\ K(t) \in Nat
        BY <2>3
      <4> QED
        BY <1>1, <2>7, <2>9, <4>2, <4>3
    <3> QED
      BY <3>1, <3>2
  <2>12. top = most
    BY <1>1, <2>9, <2>10, <2>11
  <2> QED
    BY <1>2, <1>4, <2>12 DEF MatchIsPrefix, top, most, K, keys
<1> QED
  BY <1>3, <1>4

\* For any block size and any prompts: the blocks found for a request are the whole blocks
\* that it has in common with the beginning of one cached prompt, and none for a request
\* whose hashes need more than its tokens (engine_events/vllm_hash.py hash_tokens,
\* cache_provider.go Match).
THEOREM MatchAlwaysPrefix == HashSpec => []MatchIsPrefix
<1>1. Prompts \subseteq Seq(Tokens)
  <2>1. ASSUME NEW n \in 0 .. MaxTokens PROVE [1 .. n -> Tokens] \subseteq Seq(Tokens)
    <3>1. n \in Nat
      BY BlockAssumption
    <3> QED
      BY <3>1
  <2> QED
    BY <2>1 DEF Prompts
<1>2. HashInit => Looked
  BY <1>1 DEF HashInit, HashRequests, Looked
<1>3. Looked /\ [HashNext]_<<prompts, asked>> => Looked'
  BY <1>1 DEF HashNext, Looked
<1>4. Looked => MatchIsPrefix
  BY LookedImplies
<1> QED
  BY <1>2, <1>3, <1>4, PTL DEF HashSpec

-----------------------------------------------------------------------------
(* Metrics pages.                                                          *)

\* The key under which a line is summed.
KeyOf(lines, i) ==
    <<lines[i].name, lines[i].total \/ (~Raises(lines) /\ lines[i].type = "counter")>>

\* The lines that count towards the total of a name.
Places(lines, filt, name, spellings) ==
    {i \in DOMAIN lines :
        /\ lines[i].name = name /\ labels_match(lines[i], filt)
        /\ KeyOf(lines, i)[2] \in spellings
        /\ IF Raises(lines) THEN lines[i].form \in {"plain", "loose"}
                            ELSE lines[i].type \in Aggregatable}

LEMMA MetricTotalIs ==
    ASSUME NEW lines, \A i \in DOMAIN lines : lines[i] \in PageLines,
           NEW filt, NEW name, NEW spellings \in SUBSET BOOLEAN
    PROVE  MetricTotal(lines, filt, name, spellings)
             = SumFunction([i \in Places(lines, filt, name, spellings) |-> lines[i].value])
<1> DEFINE S == {i \in DOMAIN lines :
                   /\ labels_match(lines[i], filt)
                   /\ IF Raises(lines) THEN lines[i].form \in {"plain", "loose"}
                                       ELSE lines[i].type \in Aggregatable}
           key == [i \in DOMAIN lines |-> KeyOf(lines, i)]
           out == aggregate_prometheus_text(lines, filt)
           P == Places(lines, filt, name, spellings)
           f == [i \in P |-> lines[i].value]
<1>0. \A i \in DOMAIN lines : lines[i].total \in BOOLEAN
  BY PageAssumption
<1>1. out = Totals(lines, S, key)
  <2>1. CASE Raises(lines)
    <3>1. S = {i \in DOMAIN lines : lines[i].form \in {"plain", "loose"}
                                      /\ labels_match(lines[i], filt)}
      BY <2>1
    <3>2. key = Spelled(lines)
      <4>1. \A i \in DOMAIN lines : KeyOf(lines, i) = <<lines[i].name, lines[i].total>>
        BY <1>0, <2>1 DEF KeyOf
      <4> QED
        BY <4>1 DEF Spelled
    <3> HIDE DEF S, key
    <3> QED
      BY <2>1, <3>1, <3>2 DEF aggregate_prometheus_text, parse_prometheus_text_relaxed_lines
  <2>2. CASE ~Raises(lines)
    <3>1. S = {i \in DOMAIN lines : lines[i].type \in Aggregatable
                                      /\ labels_match(lines[i], filt)}
      BY <2>2
    <3>2. key = Renamed(lines)
      <4>1. \A i \in DOMAIN lines :
               KeyOf(lines, i) = <<lines[i].name, lines[i].total \/ lines[i].type = "counter">>
        BY <1>0, <2>2 DEF KeyOf
      <4> QED
        BY <4>1 DEF Renamed
    <3> HIDE DEF S, key
    <3> QED
      BY <2>2, <3>1, <3>2 DEF aggregate_prometheus_text, Aggregated
  <2> QED
    BY <2>1, <2>2
<1>2. P = {j \in S : lines[j].name = name /\ key[j][2] \in spellings}
  BY DEF Places
<1>3. /\ DOMAIN out = {key[i] : i \in S}
      /\ \A n \in DOMAIN out : out[n] = SumFunction([i \in {j \in S : key[j] = n} |-> lines[i].value])
  <2> HIDE DEF out, S, key
  <2> QED
    BY <1>1 DEF Totals
<1>4. /\ S \subseteq DOMAIN lines
      /\ \A i \in DOMAIN lines : key[i] = <<lines[i].name, key[i][2]>> /\ key[i][2] \in BOOLEAN
  BY <1>0 DEF KeyOf
<1>5. \A i, j \in DOMAIN lines : lines[i].name = name /\ lines[j].name = name => key[i] = key[j]
  <2> SUFFICES ASSUME NEW i \in DOMAIN lines, NEW j \in DOMAIN lines,
                      lines[i].name = name, lines[j].name = name
               PROVE  KeyOf(lines, i) = KeyOf(lines, j)
    OBVIOUS
  <2>1. lines[i].type = lines[j].type /\ lines[i].total = lines[j].total
    BY PageAssumption
  <2> QED
    BY <2>1 DEF KeyOf
<1>6. MetricTotal(lines, filt, name, spellings) = pick_metric_with_name(out, name, spellings)
  BY DEF MetricTotal
<1> HIDE DEF out, S, P, key
<1>7. CASE P = {}
  <2>1. ASSUME NEW b \in spellings PROVE <<name, b>> \notin DOMAIN out
    <3>1. SUFFICES ASSUME NEW i \in S, key[i] = <<name, b>> PROVE FALSE
      BY <1>3
    <3>2. lines[i].name = name /\ key[i][2] = b
      BY <1>4, <3>1
    <3> QED
      BY <1>2, <1>7, <3>2
  <2>2. pick_metric_with_name(out, name, spellings) = 0
    BY <2>1 DEF pick_metric_with_name
  <2>3. SumFunction(f) = 0
    <3>1. DOMAIN f = {} /\ IsFiniteSet(DOMAIN f)
      BY <1>7, FS_EmptySet
    <3> HIDE DEF f
    <3>2. SumFunction(f) = Sums(f)[DOMAIN f] /\ Sums(f)[DOMAIN f] = SumStep(f, Sums(f), DOMAIN f)
      BY <3>1, SumsIs
    <3> QED
      BY <3>1, <3>2 DEF SumStep
  <2> QED
    BY <1>6, <2>2, <2>3 DEF P
<1>8. CASE P # {}
  <2>1. PICK i \in P : TRUE
    BY <1>8
  <2> DEFINE b == key[i][2]
  <2>2. i \in S /\ i \in DOMAIN lines /\ lines[i].name = name /\ b \in spellings /\ key[i] = <<name, b>>
    BY <1>2, <1>4, <2>1
  <2> HIDE DEF b
  <2>3. P = {j \in S : key[j] = <<name, b>>}
    <3>1. ASSUME NEW j \in S
          PROVE  (lines[j].name = name /\ key[j][2] \in spellings) <=> key[j] = <<name, b>>
      <4>1. lines[j].name = name => key[j] = <<name, b>>
        BY <1>4, <1>5, <2>2
      <4>2. key[j] = <<name, b>> => lines[j].name = name /\ key[j][2] = b
        BY <1>4
      <4> QED
        BY <2>2, <4>1, <4>2
    <3> QED
      BY <1>2, <3>1
  <2>4. <<name, b>> \in DOMAIN out /\ out[<<name, b>>] = SumFunction(f)
    <3>1. <<name, b>> \in DOMAIN out
      BY <1>3, <2>2
    <3>2. out[<<name, b>>]
            = SumFunction([k \in {j \in S : key[j] = <<name, b>>} |-> lines[k].value])
      BY <1>3, <3>1
    <3> QED
      BY <2>3, <3>1, <3>2
  <2>5. ASSUME NEW c \in BOOLEAN, <<name, c>> \in DOMAIN out PROVE c = b
    <3>1. PICK j \in S : key[j] = <<name, c>>
      BY <1>3, <2>5
    <3>2. lines[j].name = name /\ key[j] = <<name, b>>
      BY <1>4, <1>5, <2>2, <3>1
    <3> QED
      BY <3>1, <3>2
  <2>6. b \in BOOLEAN
    BY <2>2
  <2> HIDE DEF f
  <2>7. pick_metric_with_name(out, name, spellings) = out[<<name, b>>]
    <3>1. CASE b = TRUE
      BY <2>2, <2>4, <3>1 DEF pick_metric_with_name
    <3>2. CASE b = FALSE
      <4>1. <<name, TRUE>> \notin DOMAIN out
        BY <2>5, <3>2
      <4> QED
        BY <2>2, <2>4, <3>2, <4>1 DEF pick_metric_with_name
    <3> QED
      BY <2>6, <3>1, <3>2
  <2>8. MetricTotal(lines, filt, name, spellings) = SumFunction(f)
    BY <1>6, <2>4, <2>7
  <2> QED
    BY <2>8 DEF f, P
<1> QED
  BY <1>7, <1>8

PageTypes == page \in Seq(PageLines) /\ filter \in Labels \cup {NoLabel}

\* A bad line changes the parser, and nothing of the totals that an adapter reads.
LEMMA BadLinesLeftOut ==
    ASSUME PageTypes, NEW line \in PageLines, line.type \in Aggregatable, ~Unread(line.name),
           NEW spellings \in SUBSET BOOLEAN, TwoNames(line) => spellings = BOOLEAN
    PROVE  LET readable == Restrict(page, {i \in DOMAIN page : page[i].form # "broken"})
           IN  MetricTotal(page, filter, line.name, spellings)
                 = MetricTotal(readable, filter, line.name, spellings)
<1> DEFINE R == {i \in DOMAIN page : page[i].form # "broken"}
           readable == Restrict(page, R)
           name == line.name
           P == Places(page, filter, name, spellings)
           Q == Places(readable, filter, name, spellings)
<1>1. \A i \in DOMAIN page : page[i] \in PageLines
  BY DEF PageTypes
<1>2. DOMAIN readable = R /\ \A i \in R : readable[i] = page[i]
  BY DEF Restrict
<1>3. ASSUME NEW i \in DOMAIN page, page[i].name = name
      PROVE  /\ page[i].type \in Aggregatable /\ page[i].form \in {"plain", "loose", "broken"}
             /\ page[i].type = line.type /\ page[i].total = line.total /\ line.total \in BOOLEAN
  <2>1. /\ page[i].type = line.type /\ page[i].total = line.total /\ line.total \in BOOLEAN
        /\ page[i].form \in {"plain", "strict", "loose", "broken"}
    BY <1>1, <1>3, PageAssumption
  <2>2. page[i].form # "strict"
    BY <1>3 DEF Unread
  <2> QED
    BY <2>1, <2>2
<1> HIDE DEF readable
<1>4. Raises(readable) => Raises(page)
  BY <1>2 DEF Raises
<1>5. P = Q
  <2>1. ASSUME NEW i \in DOMAIN page, page[i].name = name
        PROVE  i \in P <=> i \in Q
    <3>1. CASE i \in R
      <4>1. readable[i] = page[i] /\ i \in DOMAIN readable
        BY <1>2, <3>1
      <4>2. page[i].type \in Aggregatable /\ page[i].form \in {"plain", "loose"}
        BY <1>3, <2>1, <3>1
      <4>3. KeyOf(page, i)[2] \in spellings <=> KeyOf(readable, i)[2] \in spellings
        <5>1. /\ KeyOf(page, i)[2] = (line.total \/ (~Raises(page) /\ line.type = "counter"))
              /\ KeyOf(readable, i)[2] = (line.total \/ (~Raises(readable) /\ line.type = "counter"))
          BY <1>3, <2>1, <4>1 DEF KeyOf
        <5>2. CASE TwoNames(line)
          <6>1. spellings = BOOLEAN
            BY <5>2
          <6> QED
            BY <5>1, <6>1
        <5>3. CASE ~TwoNames(line)
          <6>1. line.total \in BOOLEAN /\ (line.total \/ line.type # "counter")
            BY <1>3, <2>1, <5>3 DEF TwoNames
          <6>2. KeyOf(page, i)[2] = KeyOf(readable, i)[2]
            BY <5>1, <6>1
          <6> QED
            BY <6>2
        <5> QED
          BY <5>2, <5>3
      <4> QED
        BY <2>1, <4>1, <4>2, <4>3 DEF Places
    <3>2. CASE i \notin R
      <4>1. page[i].form = "broken" /\ i \notin DOMAIN readable
        BY <1>2, <2>1, <3>2
      <4>2. Raises(page)
        BY <4>1 DEF Raises
      <4>3. i \notin P /\ i \notin Q
        BY <4>1, <4>2 DEF Places
      <4> QED
        BY <4>3
    <3> QED
      BY <3>1, <3>2
  <2>2. \A i \in P \cup Q : i \in DOMAIN page /\ page[i].name = name
    BY <1>2 DEF Places
  <2>3. \A i \in DOMAIN page : page[i].name = name => (i \in P <=> i \in Q)
    BY <2>1
  <2> HIDE DEF P, Q, name
  <2>4. P \subseteq Q /\ Q \subseteq P
    BY <2>2, <2>3
  <2> QED
    BY <2>4
<1>6. [i \in P |-> page[i].value] = [i \in Q |-> readable[i].value]
  <2>1. \A i \in Q : readable[i] = page[i]
    BY <1>2 DEF Places
  <2> HIDE DEF P, Q
  <2> QED
    BY <1>5, <2>1
<1>7. MetricTotal(page, filter, name, spellings) = SumFunction([i \in P |-> page[i].value])
  BY <1>1, MetricTotalIs
<1>8. MetricTotal(readable, filter, name, spellings) = SumFunction([i \in Q |-> readable[i].value])
  <2>1. \A i \in DOMAIN readable : readable[i] \in PageLines
    BY <1>1, <1>2
  <2> QED
    BY <2>1, MetricTotalIs
<1> HIDE DEF P, Q
<1>9. MetricTotal(page, filter, name, spellings) = MetricTotal(readable, filter, name, spellings)
  BY <1>6, <1>7, <1>8
<1> QED
  BY <1>9 DEF readable

\* The filtered totals are the sums of the parts of an unfiltered one.
LEMMA LabelsAddUp ==
    ASSUME PageTypes, NEW name, NEW spellings \in SUBSET BOOLEAN
    PROVE  LET Single == SumFunction([l \in Labels |-> MetricTotal(page, l, name, spellings)])
           IN  /\ Single <= MetricTotal(page, NoLabel, name, spellings)
               /\ (\A i \in DOMAIN page : page[i].label # NoLabel) =>
                     Single = MetricTotal(page, NoLabel, name, spellings)
<1> DEFINE Single == SumFunction([l \in Labels |-> MetricTotal(page, l, name, spellings)])
           all == MetricTotal(page, NoLabel, name, spellings)
           P == Places(page, NoLabel, name, spellings)
           f == [i \in P |-> page[i].value]
           h == Sums(f)
           key == [i \in P |-> page[i].label]
           A == {i \in P : key[i] \in Labels}
<1>0. NoLabel \notin Labels /\ IsFiniteSet(Labels)
  BY PageAssumption
<1>1. \A i \in DOMAIN page : page[i] \in PageLines
  BY DEF PageTypes
<1>2. P \subseteq DOMAIN page /\ IsFiniteSet(P)
  <2>1. P \subseteq DOMAIN page
    BY DEF Places
  <2>2. DOMAIN page = 1..Len(page) /\ Len(page) \in Nat
    BY DEF PageTypes
  <2>3. IsFiniteSet(1..Len(page))
    BY <2>2, FS_Interval
  <2> HIDE DEF P
  <2> QED
    BY <2>1, <2>2, <2>3, FS_Subset
<1>3. \A i \in P : page[i].value \in Nat /\ page[i].label \in Labels \cup {NoLabel}
  <2> HIDE DEF P
  <2> QED
    BY <1>1, <1>2, PageAssumption
<1>4. ASSUME NEW l \in Labels PROVE MetricTotal(page, l, name, spellings) = h[{i \in P : key[i] = l}]
  <2> DEFINE B == {i \in P : key[i] = l}
  <2>1. Places(page, l, name, spellings) = B
    BY <1>0 DEF Places, labels_match
  <2>2. MetricTotal(page, l, name, spellings) = SumFunction([i \in B |-> page[i].value])
    <3>1. MetricTotal(page, l, name, spellings)
            = SumFunction([i \in Places(page, l, name, spellings) |-> page[i].value])
      BY <1>1, MetricTotalIs
    <3> HIDE DEF B
    <3> QED
      BY <2>1, <3>1
  <2>3. f \in [P -> Nat] /\ B \in SUBSET P
    BY <1>3
  <2>4. [i \in B |-> page[i].value] = [i \in B |-> f[i]]
    OBVIOUS
  <2> HIDE DEF f, B, P
  <2>5. SumFunction([i \in B |-> f[i]]) = h[B]
    BY <1>2, <2>3, SumOfPart
  <2> QED
    BY <2>2, <2>4, <2>5 DEF B
<1>5. f \in [P -> Nat] /\ DOMAIN f = P
  BY <1>3
<1>6. all = SumFunction(f)
  BY <1>1, MetricTotalIs
<1> HIDE DEF f, P, key
<1>7. all = h[P]
  BY <1>2, <1>5, <1>6, SumsIs
<1>8. Single = h[A]
  <2>1. Single = SumFunction([l \in Labels |-> h[{i \in P : key[i] = l}]])
    <3>1. [l \in Labels |-> MetricTotal(page, l, name, spellings)]
            = [l \in Labels |-> h[{i \in P : key[i] = l}]]
      BY <1>4
    <3> QED
      BY <3>1
  <2>2. PartsAddUp(f, P, key, Labels)
    BY <1>0, <1>2, <1>5, SumByKey
  <2> QED
    BY <2>1, <2>2 DEF PartsAddUp
<1>9. h[A] \in Nat /\ h[P \ A] \in Nat /\ h[P] = h[P \ A] + h[A]
  <2>1. A \in SUBSET P /\ P \ A \in SUBSET P /\ (P \ A) \cap A = {} /\ (P \ A) \cup A = P
    OBVIOUS
  <2>2. Summed(f, h, P)
    BY <1>2, <1>5, TakeOut
  <2>3. \A s \in SUBSET P : s \cap A = {} => h[s \cup A] = h[s] + h[A]
    <3> HIDE DEF A
    <3> QED
      BY <1>2, <1>5, <2>1, SumsAdd
  <2> HIDE DEF A, h
  <2> QED
    BY <2>1, <2>2, <2>3 DEF Summed
<1>10. Single <= all
  <2> HIDE DEF Single, all, h, A
  <2> QED
    BY <1>7, <1>8, <1>9
<1>11. (\A i \in DOMAIN page : page[i].label # NoLabel) => A = P
  BY <1>2, <1>3 DEF key
<1>12. (\A i \in DOMAIN page : page[i].label # NoLabel) => Single = all
  <2> HIDE DEF Single, all, h, A
  <2> QED
    BY <1>7, <1>8, <1>11
<1> QED
  BY <1>10, <1>12

\* For pages of any length, with any names, labels, values and filters: one bad line
\* changes the parser and no total that an adapter reads of a counter or gauge, unless the
\* line parser cannot read one of its samples or the adapter misses one of the two names
\* of a counter, and the filtered totals add up to the unfiltered one
\* (exporter/prometheus_parse.py aggregate_prometheus_text, _pick_metric_with_name).
THEOREM TotalsAlwaysRobust == PageSpec => []TotalsRobust
<1>1. PageInit => PageTypes
  BY DEF PageInit, PageTypes
<1>2. PageTypes /\ [PageNext]_<<page, filter>> => PageTypes'
  BY DEF PageTypes, PageNext
<1>3. PageTypes => TotalsRobust
  <2> SUFFICES ASSUME PageTypes, NEW line \in PageLines, line.type \in Aggregatable,
                      NEW spellings \in SUBSET BOOLEAN
               PROVE  LET readable == Restrict(page, {i \in DOMAIN page : page[i].form # "broken"})
                          Total(p, f) == MetricTotal(p, f, line.name, spellings)
                          Single   == SumFunction([l \in Labels |-> Total(page, l)])
                      IN  /\ (~Unread(line.name) /\ (TwoNames(line) => spellings = BOOLEAN)) =>
                               Total(page, filter) = Total(readable, filter)
                          /\ Single <= Total(page, NoLabel)
                          /\ (\A i \in DOMAIN page : page[i].label # NoLabel) =>
                               Single = Total(page, NoLabel)
    BY DEF TotalsRobust
  <2> QED
    BY BadLinesLeftOut, LabelsAddUp
<1> QED
  BY <1>1, <1>2, <1>3, PTL DEF PageSpec
=============================================================================
