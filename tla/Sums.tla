-------------------------------- MODULE Sums --------------------------------
(***************************************************************************)
(* What the sums of the models compute, for sequences and finite sets of   *)
(* any size: running totals as a recursive function, and SumFunction.      *)
(* Induction is by least counterexample.                                   *)
(***************************************************************************)
EXTENDS Integers, Functions, FiniteSetTheorems, TLAPS

Less == {p \in Nat \X Nat : p[1] < p[2]}

LEMMA LessIsWellFounded == IsWellFoundedOn(Less, Nat)
BY NatLessThanWellFounded DEF OpToRel, Less

\* A set of naturals that is not empty has a least element.
LEMMA LeastNat ==
    ASSUME NEW T \in SUBSET Nat, T # {}
    PROVE  \E n \in T : \A m \in T : n <= m
<1>1. PICK n \in T : \A m \in T : <<m, n>> \notin Less
  BY LessIsWellFounded, WFMin
<1>2. ASSUME NEW m \in T PROVE n <= m
  <2>1. m \in Nat /\ n \in Nat
    OBVIOUS
  <2>2. ~(m < n)
    BY <1>1, <2>1 DEF Less
  <2> QED
    BY <2>1, <2>2
<1> QED
  BY <1>2

\* Among some subsets of a finite set there is one that is not among them any
\* more without one of its elements, whichever.
LEMMA LeastSubset ==
    ASSUME NEW D, IsFiniteSet(D), NEW B \in SUBSET SUBSET D, B # {}
    PROVE  \E s \in B : \A x \in s : s \ {x} \notin B
<1>1. \A s \in B : IsFiniteSet(s) /\ Cardinality(s) \in Nat
  BY FS_Subset, FS_CardinalityType
<1> DEFINE T == {Cardinality(s) : s \in B}
<1>2. PICK n \in T : \A m \in T : n <= m
  <2>1. T \in SUBSET Nat /\ T # {}
    BY <1>1
  <2> HIDE DEF T
  <2> QED
    BY <2>1, LeastNat
<1>3. PICK s \in B : Cardinality(s) = n
  OBVIOUS
<1>4. ASSUME NEW x \in s, s \ {x} \in B PROVE FALSE
  <2>1. Cardinality(s \ {x}) = n - 1
    BY <1>1, <1>3, FS_RemoveElement
  <2>2. n <= Cardinality(s \ {x})
    BY <1>2, <1>4
  <2> QED
    BY <1>1, <1>3, <2>1, <2>2
<1> QED
  BY <1>4

-----------------------------------------------------------------------------
\* Sums over a finite set, in the order CHOOSE gives.

Pick(s) == CHOOSE x \in s : TRUE
More(f, g, s) == IF s = {} THEN 0 ELSE f[Pick(s)] + g[s \ {Pick(s)}]
IsSum(g, f, D) == g = [s \in SUBSET D |-> More(f, g, s)]
Sum(f, D) == CHOOSE g : IsSum(g, f, D)

LEMMA SumFunctionIsSum == ASSUME NEW f PROVE SumFunction(f) = Sum(f, DOMAIN f)[DOMAIN f]
BY DEF SumFunction, SumFunctionOnSet, FoldFunctionOnSet, MapThenFoldSet, Sum, IsSum, More, Pick

LEMMA Picked == \A s : s # {} => Pick(s) \in s
BY DEF Pick

\* The recursion has a solution: the one up to the smaller sets gives the one
\* for the larger ones.
LEMMA SumExists ==
    ASSUME NEW f, NEW D, IsFiniteSet(D)
    PROVE  \E g : IsSum(g, f, D)
<1> DEFINE Small(n) == {s \in SUBSET D : Cardinality(s) <= n}
           Solved(n) == \E g : g = [s \in Small(n) |-> More(f, g, s)]
           T == {n \in Nat : ~Solved(n)}
<1>1. \A s \in SUBSET D : IsFiniteSet(s) /\ Cardinality(s) \in Nat
  BY FS_Subset, FS_CardinalityType
<1>2. Solved(0)
  <2>1. Small(0) = {{}}
    BY <1>1, FS_EmptySet
  <2>2. [s \in {{}} |-> 0] = [s \in {{}} |-> More(f, [t \in {{}} |-> 0], s)]
    BY DEF More
  <2> QED
    BY <2>1, <2>2
<1>3. ASSUME NEW n \in Nat, n # 0, Solved(n - 1)
      PROVE  Solved(n)
  <2>1. PICK h : h = [s \in Small(n - 1) |-> More(f, h, s)]
    BY <1>3
  <2> DEFINE g == [s \in Small(n) |-> More(f, h, s)]
  <2>2. \A s \in Small(n) : s # {} => s \ {Pick(s)} \in Small(n - 1)
    <3> SUFFICES ASSUME NEW s \in Small(n), s # {} PROVE s \ {Pick(s)} \in Small(n - 1)
      OBVIOUS
    <3>1. Cardinality(s \ {Pick(s)}) = Cardinality(s) - 1
      BY <1>1, Picked, FS_RemoveElement
    <3> QED
      BY <1>1, <3>1
  <2>3. \A s \in Small(n - 1) : s \in Small(n) /\ g[s] = h[s]
    <3>1. \A s \in Small(n - 1) : s \in Small(n)
      BY <1>1
    <3> HIDE DEF Small
    <3>2. \A s \in Small(n - 1) : h[s] = More(f, h, s)
      BY <2>1
    <3> QED
      BY <3>1, <3>2
  <2>4. \A s \in Small(n) : More(f, h, s) = More(f, g, s)
    <3> HIDE DEF Small, g
    <3> QED
      BY <2>2, <2>3 DEF More
  <2>5. g = [s \in Small(n) |-> More(f, g, s)]
    <3> HIDE DEF Small
    <3>1. PICK k : k = g
      OBVIOUS
    <3>2. k = [s \in Small(n) |-> More(f, k, s)]
      BY <2>4, <3>1
    <3> QED
      BY <3>1, <3>2
  <2> QED
    BY <2>5
<1>4. T = {}
  <2> SUFFICES ASSUME T # {} PROVE FALSE
    OBVIOUS
  <2>1. T \in SUBSET Nat
    OBVIOUS
  <2>2. PICK n \in T : \A m \in T : n <= m
    <3> HIDE DEF T
    <3> QED
      BY <2>1, LeastNat
  <2>3. n \in Nat /\ ~Solved(n)
    OBVIOUS
  <2>4. n # 0
    BY <1>2, <2>3
  <2>5. Solved(n - 1)
    <3>1. n - 1 \in Nat /\ n - 1 \notin T
      <4> HIDE DEF T
      <4> QED
        BY <2>2, <2>3, <2>4
    <3> QED
      BY <3>1
  <2> HIDE DEF Solved
  <2> QED
    BY <1>3, <2>3, <2>4, <2>5
<1>5. Cardinality(D) \in Nat /\ Small(Cardinality(D)) = SUBSET D
  BY <1>1, FS_Subset, FS_CardinalityType
<1>6. Solved(Cardinality(D))
  <2> HIDE DEF Solved
  <2> QED
    BY <1>4, <1>5
<1> HIDE DEF Small
<1> QED
  BY <1>5, <1>6 DEF IsSum

LEMMA SumUnfolds ==
    ASSUME NEW f, NEW D, IsFiniteSet(D), NEW s \in SUBSET D
    PROVE  /\ s = {} => Sum(f, D)[s] = 0
           /\ s # {} => /\ Pick(s) \in s /\ s \ {Pick(s)} \in SUBSET D
                        /\ Sum(f, D)[s] = f[Pick(s)] + Sum(f, D)[s \ {Pick(s)}]
<1>1. IsSum(Sum(f, D), f, D)
  BY SumExists DEF Sum
<1>2. Sum(f, D)[s] = More(f, Sum(f, D), s)
  BY <1>1 DEF IsSum
<1> QED
  BY <1>2, Picked DEF More

\* Natural numbers sum up to one, integers too, and zeros to zero.
LEMMA SumType ==
    ASSUME NEW f, NEW D, IsFiniteSet(D), NEW V \in {Nat, Int, {0}}, \A x \in D : f[x] \in V
    PROVE  \A s \in SUBSET D : Sum(f, D)[s] \in V
<1> DEFINE B == {s \in SUBSET D : Sum(f, D)[s] \notin V}
<1> SUFFICES ASSUME B # {} PROVE FALSE
  OBVIOUS
<1>1. PICK s \in B : \A x \in s : s \ {x} \notin B
  BY LeastSubset
<1>2. s \in SUBSET D /\ Sum(f, D)[s] \notin V
  OBVIOUS
<1>3. s # {}
  <2>1. 0 \in V
    OBVIOUS
  <2>2. s = {} => Sum(f, D)[s] = 0
    BY <1>2, SumUnfolds
  <2> QED
    BY <1>2, <2>1, <2>2
<1>4. PICK x \in s : /\ s \ {x} \in SUBSET D
                     /\ Sum(f, D)[s] = f[x] + Sum(f, D)[s \ {x}]
  <2>1. /\ Pick(s) \in s /\ s \ {Pick(s)} \in SUBSET D
        /\ Sum(f, D)[s] = f[Pick(s)] + Sum(f, D)[s \ {Pick(s)}]
    BY <1>2, <1>3, SumUnfolds
  <2> QED
    BY <2>1
<1>5. f[x] \in V /\ Sum(f, D)[s \ {x}] \in V
  BY <1>1, <1>2, <1>4
<1>6. \A m, n \in V : m + n \in V
  OBVIOUS
<1>7. f[x] + Sum(f, D)[s \ {x}] \in V
  BY <1>5, <1>6, Zenon
<1> QED
  BY <1>2, <1>4, <1>7

\* When one of the terms changes the sum changes by as much.
LEMMA SumChange ==
    ASSUME NEW f, NEW g, NEW D, IsFiniteSet(D), NEW a \in D,
           \A x \in D : f[x] \in Int /\ g[x] \in Int /\ (x # a => g[x] = f[x])
    PROVE  \A s \in SUBSET D :
               Sum(g, D)[s] = IF a \in s THEN Sum(f, D)[s] + (g[a] - f[a]) ELSE Sum(f, D)[s]
<1> DEFINE Changed(s) == IF a \in s THEN Sum(f, D)[s] + (g[a] - f[a]) ELSE Sum(f, D)[s]
           B == {s \in SUBSET D : Sum(g, D)[s] # Changed(s)}
<1> SUFFICES ASSUME B # {} PROVE FALSE
  OBVIOUS
<1>1. PICK s \in B : \A x \in s : s \ {x} \notin B
  BY LeastSubset
<1>2. s \in SUBSET D /\ Sum(g, D)[s] # Changed(s)
  OBVIOUS
<1>3. PICK x \in s : /\ s \ {x} \in SUBSET D
                     /\ Sum(f, D)[s] = f[x] + Sum(f, D)[s \ {x}]
                     /\ Sum(g, D)[s] = g[x] + Sum(g, D)[s \ {x}]
  <2>1. s # {}
    BY <1>2, SumUnfolds
  <2>2. /\ Pick(s) \in s /\ s \ {Pick(s)} \in SUBSET D
        /\ Sum(f, D)[s] = f[Pick(s)] + Sum(f, D)[s \ {Pick(s)}]
    BY <1>2, <2>1, SumUnfolds
  <2>3. Sum(g, D)[s] = g[Pick(s)] + Sum(g, D)[s \ {Pick(s)}]
    BY <1>2, <2>1, SumUnfolds
  <2> QED
    BY <2>2, <2>3
<1>4. Sum(g, D)[s \ {x}] = Changed(s \ {x})
  BY <1>1, <1>3
<1>5. Sum(f, D)[s \ {x}] \in Int
  BY <1>3, SumType
<1>6. /\ x \in D /\ f[x] \in Int /\ g[x] \in Int /\ f[a] \in Int /\ g[a] \in Int
      /\ x # a => g[x] = f[x]
  OBVIOUS
<1>7. Sum(g, D)[s] = Changed(s)
  BY <1>3, <1>4, <1>5, <1>6
<1> QED
  BY <1>2, <1>7

\* The amounts of a finite table add up to an amount: natural numbers to one,
\* integers to one, and nothing to nothing.
THEOREM SumFunctionType ==
    ASSUME NEW D, IsFiniteSet(D), NEW V \in {Nat, Int, {0}}, NEW f \in [D -> V]
    PROVE  SumFunction(f) \in V
<1>1. \A x \in D : f[x] \in V
  OBVIOUS
<1> QED
  BY <1>1, SumType, SumFunctionIsSum

\* Changing one row of a finite table changes the sum by as much: a reservation
\* taken out of the budget, say.
THEOREM SumFunctionChange ==
    ASSUME NEW D, IsFiniteSet(D), NEW f \in [D -> Int], NEW a \in D, NEW v \in Int
    PROVE  SumFunction([f EXCEPT ![a] = v]) = SumFunction(f) + (v - f[a])
<1>1. PICK g \in [D -> Int] : g = [f EXCEPT ![a] = v]
  OBVIOUS
<1>2. \A x \in D : f[x] \in Int /\ g[x] \in Int /\ (x # a => g[x] = f[x])
  BY <1>1
<1>3. Sum(g, D)[D] = Sum(f, D)[D] + (g[a] - f[a])
  BY <1>2, SumChange
<1> QED
  BY <1>1, <1>3, SumFunctionIsSum

-----------------------------------------------------------------------------
\* Running totals of a sequence's terms.

IsTotal(t, f, n) == t = [m \in 0..n |-> IF m = 0 THEN 0 ELSE t[m - 1] + f[m]]

LEMMA TotalExists ==
    ASSUME NEW f, NEW n \in Nat
    PROVE  \E t : IsTotal(t, f, n)
<1> DEFINE T == {m \in Nat : ~\E t : IsTotal(t, f, m)}
<1> SUFFICES ASSUME T # {} PROVE FALSE
  OBVIOUS
<1>1. PICK m \in T : \A k \in T : m <= k
  <2>1. T \in SUBSET Nat
    OBVIOUS
  <2> HIDE DEF T
  <2> QED
    BY <2>1, LeastNat
<1>2. CASE m = 0
  <2>1. 0..0 = {0}
    OBVIOUS
  <2>2. IsTotal([k \in {0} |-> 0], f, 0)
    BY <2>1 DEF IsTotal
  <2> QED
    BY <1>2, <2>2
<1>3. CASE m # 0
  <2>1. PICK t : IsTotal(t, f, m - 1)
    <3>1. m \in Nat
      OBVIOUS
    <3>2. m - 1 \in Nat /\ m - 1 \notin T
      <4> HIDE DEF T
      <4> QED
        BY <1>1, <1>3, <3>1
    <3> QED
      BY <3>2
  <2>2. \A k \in 0..m - 1 : t[k] = IF k = 0 THEN 0 ELSE t[k - 1] + f[k]
    BY <2>1 DEF IsTotal
  <2>3. PICK u : u = [k \in 0..m |-> IF k = 0 THEN 0 ELSE t[k - 1] + f[k]]
    OBVIOUS
  <2>4. \A k \in 0..m - 1 : u[k] = t[k]
    BY <2>2, <2>3
  <2>5. \A k \in 0..m : k # 0 => k - 1 \in 0..m - 1
    OBVIOUS
  <2>6. u = [k \in 0..m |-> IF k = 0 THEN 0 ELSE u[k - 1] + f[k]]
    BY <2>3, <2>4, <2>5
  <2> QED
    BY <2>6 DEF IsTotal
<1> QED
  BY <1>2, <1>3

LEMMA TotalUnfolds ==
    ASSUME NEW f, NEW n \in Nat, NEW t, IsTotal(t, f, n)
    PROVE  t[0] = 0 /\ \A m \in 1..n : t[m] = t[m - 1] + f[m]
<1>1. \A m \in 0..n : t[m] = IF m = 0 THEN 0 ELSE t[m - 1] + f[m]
  BY DEF IsTotal
<1> QED
  BY <1>1

LEMMA TotalType ==
    ASSUME NEW f, NEW n \in Nat, NEW t, IsTotal(t, f, n), \A m \in 1..n : f[m] \in Nat
    PROVE  \A m \in 0..n : t[m] \in Nat
<1> DEFINE T == {m \in 0..n : t[m] \notin Nat}
<1> SUFFICES ASSUME T # {} PROVE FALSE
  OBVIOUS
<1>1. PICK m \in T : \A k \in T : m <= k
  <2>1. T \in SUBSET Nat
    OBVIOUS
  <2> HIDE DEF T
  <2> QED
    BY <2>1, LeastNat
<1>2. m # 0
  BY TotalUnfolds
<1>3. t[m - 1] \in Nat
  <2>1. m - 1 \in 0..n /\ m - 1 \notin T
    <3>1. m \in 0..n
      OBVIOUS
    <3> HIDE DEF T
    <3> QED
      BY <1>1, <1>2, <3>1
  <2> QED
    BY <2>1
<1>4. t[m] = t[m - 1] + f[m] /\ f[m] \in Nat
  BY <1>2, TotalUnfolds
<1> QED
  BY <1>3, <1>4

\* The totals of the same terms are the same, however many more there are.
LEMMA TotalsAgree ==
    ASSUME NEW f, NEW g, NEW n \in Nat, NEW k \in Nat, n <= k,
           NEW t, NEW u, IsTotal(t, f, n), IsTotal(u, g, k),
           \A m \in 1..n : f[m] = g[m]
    PROVE  \A m \in 0..n : t[m] = u[m]
<1> DEFINE T == {m \in 0..n : t[m] # u[m]}
<1> SUFFICES ASSUME T # {} PROVE FALSE
  OBVIOUS
<1>1. PICK m \in T : \A i \in T : m <= i
  <2>1. T \in SUBSET Nat
    OBVIOUS
  <2> HIDE DEF T
  <2> QED
    BY <2>1, LeastNat
<1>2. m # 0
  BY TotalUnfolds
<1>3. t[m - 1] = u[m - 1]
  <2>1. m - 1 \in 0..n /\ m - 1 \notin T
    <3>1. m \in 0..n
      OBVIOUS
    <3> HIDE DEF T
    <3> QED
      BY <1>1, <1>2, <3>1
  <2> QED
    BY <2>1
<1>4. m \in 1..n /\ m \in 1..k
  BY <1>2
<1>5. t[m] = t[m - 1] + f[m] /\ u[m] = u[m - 1] + g[m] /\ f[m] = g[m]
  BY <1>4, TotalUnfolds
<1> QED
  BY <1>3, <1>5
=============================================================================
