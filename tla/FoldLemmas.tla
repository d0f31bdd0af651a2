----------------------------- MODULE FoldLemmas -----------------------------
(***************************************************************************)
(* Induction on numbers and on finite sets, stated on sets instead of      *)
(* predicates, and what it gives: the sums of the community modules, which *)
(* are recursive functions on the subsets of a finite set.                 *)
(***************************************************************************)
EXTENDS Integers, FiniteSets, Functions, FiniteSetsExt, FiniteSetTheorems, WellFoundedInduction, TLAPS

\* Every set of natural numbers that is not empty has a least member.
LEMMA LeastNumber ==
  ASSUME NEW T, T \subseteq Nat, T # {}
  PROVE  \E x \in T : \A y \in T : x <= y
<1> DEFINE R == {ss \in Nat \X Nat : ss[1] < ss[2]}
<1>1. IsWellFoundedOn(R, Nat)
  BY NatLessThanWellFounded DEF OpToRel
<1>2. \A x, y \in Nat : <<y, x>> \in R <=> y < x
  OBVIOUS
<1> HIDE DEF R
<1>3. PICK x \in T : \A y \in T : <<y, x>> \notin R
  BY <1>1, WFMin
<1>4. \A y \in T : ~(y < x)
  BY <1>2, <1>3
<1>5. \A y \in T : x <= y
  BY <1>4
<1> QED
  BY <1>5

\* Induction on the natural numbers.
LEMMA NumberInduction ==
  ASSUME NEW T, T \subseteq Nat, 0 \in T, \A n \in T : n + 1 \in T
  PROVE  T = Nat
<1> SUFFICES ASSUME Nat \ T # {} PROVE FALSE
  OBVIOUS
<1>1. PICK x \in Nat \ T : \A y \in Nat \ T : x <= y
  BY LeastNumber
<1>2. x # 0 /\ x - 1 \in Nat /\ x - 1 \notin Nat \ T
  BY <1>1
<1>3. x - 1 + 1 \in T
  BY <1>2
<1> QED
  BY <1>1, <1>2, <1>3

\* Induction on the subsets of a finite set, element by element.
LEMMA SubsetInduction ==
  ASSUME NEW S, IsFiniteSet(S), NEW T, {} \in T,
         \A s \in SUBSET S : s # {} /\ (\A x \in s : s \ {x} \in T) => s \in T
  PROVE  SUBSET S \subseteq T
<1> DEFINE K == {k \in Nat : \A s \in SUBSET S : Cardinality(s) = k => s \in T}
<1>1. 0 \in K
  BY FS_Subset, FS_EmptySet
<1>2. ASSUME NEW k \in K PROVE k + 1 \in K
  <2>1. SUFFICES ASSUME NEW s \in SUBSET S, Cardinality(s) = k + 1 PROVE s \in T
    OBVIOUS
  <2>2. IsFiniteSet(s) /\ s # {}
    BY <2>1, FS_Subset, FS_EmptySet
  <2>3. ASSUME NEW x \in s PROVE Cardinality(s \ {x}) = k
    <3>1. Cardinality(s \ {x}) = Cardinality(s) - 1
      BY <2>2, FS_RemoveElement
    <3> QED
      BY <2>1, <3>1
  <2>4. \A x \in s : s \ {x} \in T
    BY <2>3
  <2> QED
    BY <2>2, <2>4
<1>3. K = Nat
  <2>1. K \subseteq Nat
    OBVIOUS
  <2> HIDE DEF K
  <2> QED
    BY <1>1, <1>2, <2>1, NumberInduction
<1>4. \A s \in SUBSET S : Cardinality(s) \in K
  BY <1>3, FS_Subset, FS_CardinalityType
<1> QED
  BY <1>4

\* ch picks a member of every subset of S; G steps within V; it is the recursion
\* that starts from b and takes the members of a subset in the order of ch.
Picks(ch, S) == \A s \in SUBSET S : s # {} => ch[s] \in s
Steps(G, S, V) == \A s \in SUBSET S : \A v \in V : G[s][v] \in V
Recurses(it, S, b, ch, G) ==
  \A s \in SUBSET S : it[s] = IF s = {} THEN b ELSE G[s][it[s \ {ch[s]}]]

\* A function on the subsets of a finite set can be defined by recursion on the
\* set without one chosen element.
LEMMA SubsetRecursion ==
  ASSUME NEW S, IsFiniteSet(S), NEW V, NEW b \in V, NEW ch, NEW G,
         Picks(ch, S), Steps(G, S, V)
  PROVE  \E it \in [SUBSET S -> V] : Recurses(it, S, b, ch, G)
<1> USE DEF Picks, Steps
<1> DEFINE Small(k) == {s \in SUBSET S : Cardinality(s) <= k}
           Rec(k, g) == \A s \in Small(k) : g[s] = IF s = {} THEN b ELSE G[s][g[s \ {ch[s]}]]
           K == {k \in Nat : \E g \in [Small(k) -> V] : Rec(k, g)}
<1>1. \A s \in SUBSET S : IsFiniteSet(s) /\ Cardinality(s) \in Nat /\ (Cardinality(s) = 0 <=> s = {})
  BY FS_Subset, FS_EmptySet, FS_CardinalityType
<1>2. \A s \in SUBSET S : s # {} => Cardinality(s \ {ch[s]}) = Cardinality(s) - 1
  BY <1>1, FS_RemoveElement
<1>3. 0 \in K
  <2>1. Small(0) = {{}}
    BY <1>1
  <2> DEFINE g == [s \in Small(0) |-> b]
  <2>2. g \in [Small(0) -> V]
    OBVIOUS
  <2>3. Rec(0, g)
    BY <2>1
  <2> QED
    BY <2>2, <2>3
<1>4. ASSUME NEW k \in K PROVE k + 1 \in K
  <2>1. PICK g \in [Small(k) -> V] : Rec(k, g)
    OBVIOUS
  <2> DEFINE h == [s \in Small(k + 1) |-> IF s = {} THEN b ELSE G[s][g[s \ {ch[s]}]]]
  <2>2. \A s \in Small(k + 1) : s # {} => s \ {ch[s]} \in Small(k)
    BY <1>1, <1>2
  <2>3. \A s \in Small(k) : s \in Small(k + 1) /\ g[s] = h[s]
    BY <1>1, <2>1
  <2>4. h \in [Small(k + 1) -> V]
    BY <2>2
  <2>5. Rec(k + 1, h)
    BY <2>2, <2>3
  <2> HIDE DEF h, Rec, Small
  <2> QED
    BY <2>4, <2>5
<1>5. K = Nat
  <2>1. K \subseteq Nat
    OBVIOUS
  <2> HIDE DEF K
  <2> QED
    BY <1>3, <1>4, <2>1, NumberInduction
<1>6. Cardinality(S) \in K
  BY <1>5, FS_CardinalityType
<1>7. Small(Cardinality(S)) = SUBSET S
  BY FS_Subset
<1> QED
  BY <1>6, <1>7 DEF Recurses

-----------------------------------------------------------------------------
(* SumFunctionOnSet adds the values one chosen element at a time.          *)
Chosen(s) == CHOOSE x \in s : TRUE

Adds(it, f) ==
  \A s \in SUBSET DOMAIN f : it[s] = IF s = {} THEN 0 ELSE f[Chosen(s)] + it[s \ {Chosen(s)}]

\* The sum of a function over a finite set adds one member at a time.
LEMMA SumIsRecursive ==
  ASSUME NEW D, IsFiniteSet(D), NEW f \in [D -> Int]
  PROVE  \E it \in [SUBSET D -> Int] : Adds(it, f) /\ SumFunction(f) = it[D]
<1> DEFINE Step(it) == [s \in SUBSET D |-> IF s = {} THEN 0 ELSE f[Chosen(s)] + it[s \ {Chosen(s)}]]
           iter == CHOOSE it : it = Step(it)
<1>1. SumFunction(f) = iter[D]
  BY DEF SumFunction, SumFunctionOnSet, FoldFunctionOnSet, MapThenFoldSet, Chosen
<1>2. \E it \in [SUBSET D -> Int] : \A s \in SUBSET D : it[s] = Step(it)[s]
  <2> DEFINE ch == [s \in SUBSET D |-> Chosen(s)]
             G == [s \in SUBSET D |-> [v \in Int |-> IF s = {} THEN v ELSE f[Chosen(s)] + v]]
  <2>1. \A s \in SUBSET D : s # {} => ch[s] \in s
    BY DEF Chosen
  <2>2. \A s \in SUBSET D : \A v \in Int : G[s][v] \in Int
    <3> SUFFICES ASSUME NEW s \in SUBSET D, NEW v \in Int PROVE G[s][v] \in Int
      OBVIOUS
    <3>1. G[s][v] = IF s = {} THEN v ELSE f[Chosen(s)] + v
      OBVIOUS
    <3>2. s # {} => Chosen(s) \in D
      BY <2>1
    <3> HIDE DEF G
    <3> QED
      BY <3>1, <3>2
  <2>3. PICK it \in [SUBSET D -> Int] :
           \A s \in SUBSET D : it[s] = IF s = {} THEN 0 ELSE G[s][it[s \ {ch[s]}]]
    <3>1. Picks(ch, D)
      BY <2>1 DEF Picks
    <3>2. Steps(G, D, Int)
      <4> HIDE DEF G
      <4> QED
        BY <2>2 DEF Steps
    <3>3. 0 \in Int
      OBVIOUS
    <3> HIDE DEF ch, G
    <3>4. \E it \in [SUBSET D -> Int] : Recurses(it, D, 0, ch, G)
      BY <3>1, <3>2, <3>3, SubsetRecursion, Zenon
    <3> QED
      BY <3>4 DEF Recurses
  <2>4. ASSUME NEW s \in SUBSET D PROVE it[s] = Step(it)[s]
    <3>1. it[s \ {Chosen(s)}] \in Int
      OBVIOUS
    <3> QED
      BY <2>3, <3>1
  <2> QED
    BY <2>4
<1>3. \E it : it = Step(it)
  BY <1>2
<1>4. iter = Step(iter)
  <2> HIDE DEF Step
  <2> QED
    BY <1>3
<1> HIDE DEF iter
<1> DEFINE T == {s \in SUBSET D : iter[s] \in Int}
<1>5. {} \in T
  BY <1>4
<1>6. ASSUME NEW s \in SUBSET D, s # {}, \A x \in s : s \ {x} \in T PROVE s \in T
  <2>1. Chosen(s) \in s
    BY <1>6 DEF Chosen
  <2>2. iter[s] = f[Chosen(s)] + iter[s \ {Chosen(s)}]
    BY <1>4, <1>6
  <2>3. f[Chosen(s)] \in Int /\ iter[s \ {Chosen(s)}] \in Int
    BY <1>6, <2>1
  <2> QED
    BY <2>2, <2>3
<1>7. SUBSET D \subseteq T
  <2> HIDE DEF T
  <2> QED
    BY <1>5, <1>6, SubsetInduction
<1>8. iter \in [SUBSET D -> Int]
  BY <1>4, <1>7
<1>9. Adds(iter, f)
  BY <1>4 DEF Adds
<1> QED
  BY <1>1, <1>8, <1>9

\* A sum of integers is an integer.
LEMMA SumIsInteger ==
  ASSUME NEW D, IsFiniteSet(D), NEW f \in [D -> Int]
  PROVE  SumFunction(f) \in Int
<1>1. PICK it \in [SUBSET D -> Int] : SumFunction(f) = it[D]
  BY SumIsRecursive
<1> QED
  BY <1>1

\* Two functions that differ in one place have sums that differ by as much.
LEMMA SumExcept ==
  ASSUME NEW D, IsFiniteSet(D), NEW f \in [D -> Int], NEW g \in [D -> Int], NEW p \in D,
         \A x \in D : x # p => g[x] = f[x]
  PROVE  SumFunction(g) = SumFunction(f) - f[p] + g[p]
<1>1. DOMAIN f = D /\ DOMAIN g = D
  OBVIOUS
<1>2. PICK a \in [SUBSET D -> Int] : Adds(a, f) /\ SumFunction(f) = a[D]
  BY SumIsRecursive
<1>3. PICK b \in [SUBSET D -> Int] : Adds(b, g) /\ SumFunction(g) = b[D]
  BY SumIsRecursive
<1> DEFINE T == {s \in SUBSET D : b[s] = IF p \in s THEN a[s] - f[p] + g[p] ELSE a[s]}
<1>4. {} \in T
  BY <1>1, <1>2, <1>3 DEF Adds
<1>5. ASSUME NEW s \in SUBSET D, s # {}, \A x \in s : s \ {x} \in T PROVE s \in T
  <2> DEFINE x == Chosen(s)
             r == s \ {x}
  <2>1. x \in s
    BY <1>5 DEF Chosen
  <2>2. a[s] = f[x] + a[r] /\ b[s] = g[x] + b[r]
    BY <1>1, <1>2, <1>3, <1>5 DEF Adds
  <2>3. b[r] = IF p \in r THEN a[r] - f[p] + g[p] ELSE a[r]
    BY <1>5, <2>1
  <2>4. a[r] \in Int /\ b[r] \in Int /\ f[x] \in Int /\ f[p] \in Int /\ g[p] \in Int
    BY <2>1
  <2>5. g[x] = IF x = p THEN g[p] ELSE f[x]
    BY <2>1
  <2>6. CASE x = p
    BY <2>1, <2>2, <2>3, <2>4, <2>5, <2>6
  <2>7. CASE x # p
    BY <2>1, <2>2, <2>3, <2>4, <2>5, <2>7
  <2> QED
    BY <2>6, <2>7
<1>6. SUBSET D \subseteq T
  <2> HIDE DEF T
  <2> QED
    BY <1>4, <1>5, SubsetInduction
<1> QED
  BY <1>2, <1>3, <1>6

\* A sum of natural numbers is a natural number, and at least each of them.
LEMMA SumBounds ==
  ASSUME NEW D, IsFiniteSet(D), NEW f \in [D -> Nat]
  PROVE  SumFunction(f) \in Nat /\ \A p \in D : f[p] <= SumFunction(f)
<1>1. f \in [D -> Int] /\ DOMAIN f = D
  OBVIOUS
<1>2. PICK a \in [SUBSET D -> Int] : Adds(a, f) /\ SumFunction(f) = a[D]
  BY <1>1, SumIsRecursive
<1> DEFINE T == {s \in SUBSET D : a[s] \in Nat /\ \A p \in s : f[p] <= a[s]}
<1>3. {} \in T
  <2>1. a[{}] = 0
    BY <1>1, <1>2 DEF Adds
  <2> QED
    BY <2>1
<1>4. ASSUME NEW s \in SUBSET D, s # {}, \A x \in s : s \ {x} \in T PROVE s \in T
  <2> DEFINE x == Chosen(s)
             r == s \ {x}
  <2>1. x \in s
    BY <1>4 DEF Chosen
  <2>2. a[s] = f[x] + a[r]
    BY <1>1, <1>2, <1>4 DEF Adds
  <2>3. a[r] \in Nat /\ \A p \in r : f[p] <= a[r]
    BY <1>4, <2>1
  <2>4. f[x] \in Nat /\ \A p \in s : f[p] \in Nat /\ (p = x \/ p \in r)
    BY <2>1
  <2> HIDE DEF x, r
  <2>5. a[s] \in Nat
    BY <2>2, <2>3, <2>4
  <2>6. ASSUME NEW p \in s PROVE f[p] <= a[s]
    BY <2>2, <2>3, <2>4
  <2> QED
    BY <2>5, <2>6
<1>5. SUBSET D \subseteq T
  <2> HIDE DEF T
  <2> QED
    BY <1>3, <1>4, SubsetInduction
<1> QED
  BY <1>2, <1>5

\* The sum of zeros.
LEMMA SumOfZeros ==
  ASSUME NEW D, IsFiniteSet(D), NEW f \in [D -> Int], \A p \in D : f[p] = 0
  PROVE  SumFunction(f) = 0
<1>1. PICK a \in [SUBSET D -> Int] : Adds(a, f) /\ SumFunction(f) = a[D]
  BY SumIsRecursive
<1> DEFINE T == {s \in SUBSET D : a[s] = 0}
<1>2. {} \in T
  BY <1>1 DEF Adds
<1>3. ASSUME NEW s \in SUBSET D, s # {}, \A x \in s : s \ {x} \in T PROVE s \in T
  <2>1. Chosen(s) \in s
    BY <1>3 DEF Chosen
  <2>2. a[s] = f[Chosen(s)] + a[s \ {Chosen(s)}]
    BY <1>1, <1>3 DEF Adds
  <2> QED
    BY <1>3, <2>1, <2>2
<1>4. SUBSET D \subseteq T
  <2> HIDE DEF T
  <2> QED
    BY <1>2, <1>3, SubsetInduction
<1> QED
  BY <1>1, <1>4

-----------------------------------------------------------------------------
\* The number of smaller members tells the members of a finite set of numbers
\* apart, and every number below the cardinality is one member's.
Rank(S, i) == Cardinality({j \in S : j < i})

\* The members of a finite set of numbers are counted off by their ranks.
LEMMA RanksOfMembers ==
  ASSUME NEW S, S \subseteq Nat, IsFiniteSet(S)
  PROVE  /\ \A i, k \in S : i < k => Rank(S, i) < Rank(S, k)
         /\ \A i \in S : Rank(S, i) \in 0 .. Cardinality(S) - 1
         /\ \A n \in 1 .. Cardinality(S) : \E i \in S : Rank(S, i) = n - 1
<1> DEFINE Below(i) == {j \in S : j < i}
           N == Cardinality(S)
           f == [i \in S |-> Rank(S, i)]
<1>1. \A i : IsFiniteSet(Below(i)) /\ Rank(S, i) \in Nat
  BY FS_Subset, FS_CardinalityType DEF Rank
<1>2. ASSUME NEW i \in Nat, NEW k \in Nat, i \in S, i < k PROVE Rank(S, i) < Rank(S, k)
  <2>1. Below(i) \cup {i} \subseteq Below(k)
    <3>1. \A j \in S : j < i => j < k
      BY <1>2
    <3>2. i \in Below(k)
      BY <1>2
    <3> QED
      BY <3>1, <3>2
  <2>2. i \notin Below(i)
    OBVIOUS
  <2>3. IsFiniteSet(Below(i) \cup {i}) /\ Cardinality(Below(i) \cup {i}) = Rank(S, i) + 1
    BY <1>1, <2>2, FS_AddElement DEF Rank
  <2>4. Cardinality(Below(i) \cup {i}) <= Rank(S, k)
    BY <1>1, <2>1, FS_Subset DEF Rank
  <2>5. Rank(S, i) \in Nat /\ Rank(S, k) \in Nat
    BY <1>1
  <2> QED
    BY <2>3, <2>4, <2>5
<1>3. \A i \in S : Rank(S, i) \in 0 .. N - 1
  <2>1. TAKE i \in S
  <2>2. Cardinality(Below(i + 1)) <= N /\ N \in Nat
    BY FS_Subset, FS_CardinalityType
  <2>3. Rank(S, i) < Rank(S, i + 1)
    BY <1>2
  <2> QED
    BY <1>1, <2>2, <2>3 DEF Rank
<1>4. f \in Injection(S, 0 .. N - 1)
  <2>1. f \in [S -> 0 .. N - 1]
    BY <1>3
  <2>2. ASSUME NEW a \in S, NEW b \in S, f[a] = f[b] PROVE a = b
    <3>1. Rank(S, a) = Rank(S, b) /\ Rank(S, a) \in Nat /\ a \in Nat /\ b \in Nat
      BY <1>1, <2>2
    <3>2. ~(a < b)
      BY <1>2, <3>1
    <3>3. ~(b < a)
      BY <1>2, <3>1
    <3> QED
      BY <3>1, <3>2, <3>3
  <2> QED
    BY <2>1, <2>2 DEF Injection, IsInjective
<1>5. IsFiniteSet(0 .. N - 1) /\ Cardinality(0 .. N - 1) = N /\ N \in Nat
  <2>1. N \in Nat
    BY FS_CardinalityType
  <2>2. N - 1 \in Int /\ 0 \in Int
    BY <2>1
  <2>3. IsFiniteSet(0 .. N - 1) /\ Cardinality(0 .. N - 1) = IF 0 > N - 1 THEN 0 ELSE N - 1 - 0 + 1
    BY <2>2, FS_Interval
  <2> QED
    BY <2>1, <2>3
<1>6. f \in Surjection(S, 0 .. N - 1)
  <2> HIDE DEF f
  <2> QED
    BY <1>4, <1>5, FS_Injection
<1>7. ASSUME NEW n \in 1 .. N PROVE \E i \in S : Rank(S, i) = n - 1
  <2>1. n - 1 \in 0 .. N - 1
    BY <1>5
  <2>2. \E i \in S : f[i] = n - 1
    <3> HIDE DEF f
    <3> QED
      BY <1>6, <2>1 DEF Surjection
  <2> QED
    BY <2>2
<1> QED
  <2>1. \A i, k \in S : i < k => Rank(S, i) < Rank(S, k)
    BY <1>2
  <2> QED
    BY <1>3, <1>7, <2>1

-----------------------------------------------------------------------------
(* A function whose value at x depends on the one at next[x] exists if some  *)
(* measure falls from x to next[x].                                          *)
Falls(m, D, Halt, next) == \A x \in D \ Halt : next[x] \in D /\ m[next[x]] < m[x]
Transforms(G, D, V) == \A x \in D : \A v \in V : G[x][v] \in V
Descends(f, D, Halt, b, next, G) ==
  \A x \in D : f[x] = IF x \in Halt THEN b[x] ELSE G[x][f[next[x]]]

\* A function defined by recursion that makes a measure fall exists.
LEMMA MeasureRecursion ==
  ASSUME NEW D, NEW m \in [D -> Nat], NEW V, NEW Halt, NEW b \in [D -> V], NEW next, NEW G,
         Falls(m, D, Halt, next), Transforms(G, D, V)
  PROVE  \E f \in [D -> V] : Descends(f, D, Halt, b, next, G)
<1> USE DEF Falls, Transforms
<1> DEFINE Small(k) == {x \in D : m[x] < k}
           Rec(k, g) == \A x \in Small(k) : g[x] = IF x \in Halt THEN b[x] ELSE G[x][g[next[x]]]
           K == {k \in Nat : \E g \in [Small(k) -> V] : Rec(k, g)}
           best == [k \in Nat |-> CHOOSE g \in [Small(k) -> V] : Rec(k, g)]
           f == [x \in D |-> best[m[x] + 1][x]]
<1>1. 0 \in K
  <2>1. Small(0) = {}
    OBVIOUS
  <2>2. [x \in Small(0) |-> b[x]] \in [Small(0) -> V] /\ Rec(0, [x \in Small(0) |-> b[x]])
    BY <2>1
  <2> HIDE DEF Small, Rec
  <2> QED
    BY <2>2
<1>2. ASSUME NEW k \in K PROVE k + 1 \in K
  <2>1. PICK g \in [Small(k) -> V] : Rec(k, g)
    OBVIOUS
  <2> DEFINE h == [x \in Small(k + 1) |-> IF x \in Halt THEN b[x] ELSE G[x][g[next[x]]]]
  <2>2. \A x \in Small(k + 1) : x \notin Halt => next[x] \in Small(k)
    OBVIOUS
  <2>3. \A x \in Small(k) : x \in Small(k + 1) /\ g[x] = h[x]
    BY <2>1
  <2>4. h \in [Small(k + 1) -> V]
    BY <2>2
  <2>5. Rec(k + 1, h)
    BY <2>2, <2>3
  <2> HIDE DEF h, Rec, Small
  <2> QED
    BY <2>4, <2>5
<1>3. K = Nat
  <2>1. K \subseteq Nat
    OBVIOUS
  <2> HIDE DEF K
  <2> QED
    BY <1>1, <1>2, <2>1, NumberInduction
<1>4. \A k \in Nat : best[k] \in [Small(k) -> V] /\ Rec(k, best[k])
  <2> HIDE DEF Small, Rec
  <2> QED
    BY <1>3
\* two solutions agree where both are defined
<1>5. ASSUME NEW k \in Nat, NEW l \in Nat, k <= l PROVE \A x \in Small(k) : best[k][x] = best[l][x]
  <2> DEFINE Bad == {x \in Small(k) : best[k][x] # best[l][x]}
             M == {m[x] : x \in Bad}
  <2>1. SUFFICES ASSUME Bad # {} PROVE FALSE
    OBVIOUS
  <2>2. M \subseteq Nat /\ M # {}
    BY <2>1
  <2>3. PICK i \in M : \A j \in M : i <= j
    <3> HIDE DEF M
    <3> QED
      BY <2>2, LeastNumber
  <2>4. PICK x \in Bad : m[x] = i
    OBVIOUS
  <2>5. x \in Small(k) /\ x \in Small(l)
    BY <1>5
  <2>6. /\ best[k][x] = IF x \in Halt THEN b[x] ELSE G[x][best[k][next[x]]]
        /\ best[l][x] = IF x \in Halt THEN b[x] ELSE G[x][best[l][next[x]]]
    <3>1. Rec(k, best[k]) /\ Rec(l, best[l])
      BY <1>4
    <3> HIDE DEF best
    <3> QED
      BY <2>5, <3>1
  <2>7. x \notin Halt /\ best[k][next[x]] # best[l][next[x]]
    BY <2>6
  <2>8. next[x] \in Bad /\ m[next[x]] < i
    <3> HIDE DEF best
    <3> QED
      BY <2>4, <2>5, <2>7
  <2>9. m[next[x]] \in M /\ m[next[x]] \in Nat /\ i \in Nat
    BY <2>2, <2>8
  <2>10. i <= m[next[x]]
    <3> HIDE DEF M
    <3> QED
      BY <2>3, <2>9
  <2> HIDE DEF Bad, M
  <2> QED
    BY <2>8, <2>9, <2>10
<1>6. ASSUME NEW x \in D PROVE f[x] \in V /\ f[x] = IF x \in Halt THEN b[x] ELSE G[x][f[next[x]]]
  <2>1. m[x] + 1 \in Nat /\ x \in Small(m[x] + 1)
    OBVIOUS
  <2>2. best[m[x] + 1] \in [Small(m[x] + 1) -> V] /\ Rec(m[x] + 1, best[m[x] + 1])
    BY <1>4, <2>1
  <2>3. f[x] = best[m[x] + 1][x]
    OBVIOUS
  <2>4. x \notin Halt => f[next[x]] = best[m[x] + 1][next[x]]
    <3>1. HAVE x \notin Halt
    <3>2. next[x] \in D /\ m[next[x]] < m[x] /\ m[next[x]] + 1 \in Nat /\ m[next[x]] + 1 <= m[x] + 1
      BY <3>1
    <3>3. next[x] \in Small(m[next[x]] + 1)
      BY <3>2
    <3>4. f[next[x]] = best[m[next[x]] + 1][next[x]]
      BY <3>2
    <3> HIDE DEF f, best, Small
    <3> QED
      BY <1>5, <2>1, <3>2, <3>3, <3>4
  <2> HIDE DEF f, best
  <2> QED
    BY <2>1, <2>2, <2>3, <2>4
<1>7. f \in [D -> V] /\ \A x \in D : f[x] = IF x \in Halt THEN b[x] ELSE G[x][f[next[x]]]
  BY <1>6
<1> HIDE DEF f
<1> QED
  BY <1>7 DEF Descends

Iterates(f, b, G) == f[0] = b /\ \A n \in Nat : f[n + 1] = G[n][f[n]]

\* The same for the natural numbers, each value depending on the one before.
LEMMA NumberRecursion ==
  ASSUME NEW V, NEW b \in V, NEW G, Transforms(G, Nat, V)
  PROVE  \E f \in [Nat -> V] : Iterates(f, b, G)
<1> DEFINE m == [n \in Nat |-> n]
           next == [n \in Nat |-> n - 1]
           c == [n \in Nat |-> b]
           Halt == {0}
           A == [n \in Nat |-> IF n = 0 THEN [v \in V |-> v] ELSE G[n - 1]]
<1>1. m \in [Nat -> Nat] /\ c \in [Nat -> V] /\ Falls(m, Nat, Halt, next)
  BY DEF Falls
<1>2. Transforms(A, Nat, V)
  <2> SUFFICES ASSUME NEW n \in Nat, NEW v \in V PROVE A[n][v] \in V
    BY DEF Transforms
  <2>1. CASE n = 0
    BY <2>1
  <2>2. CASE n # 0
    <3>1. n - 1 \in Nat
      BY <2>2
    <3>2. G[n - 1][v] \in V
      BY <3>1 DEF Transforms
    <3> QED
      BY <2>2, <3>2
  <2> QED
    BY <2>1, <2>2
<1>3. \E f \in [Nat -> V] : Descends(f, Nat, Halt, c, next, A)
  <2> HIDE DEF m, next, c, A, Halt
  <2> QED
    BY <1>1, <1>2, MeasureRecursion
<1>4. PICK f \in [Nat -> V] : Descends(f, Nat, Halt, c, next, A)
  BY <1>3
<1>5. f[0] = b
  BY <1>4 DEF Descends
<1>6. ASSUME NEW n \in Nat PROVE f[n + 1] = G[n][f[n]]
  <2>1. n + 1 \in Nat /\ n + 1 \notin Halt /\ n + 1 # 0 /\ n + 1 - 1 = n
    OBVIOUS
  <2>2. A[n + 1] = G[n] /\ next[n + 1] = n
    BY <2>1
  <2> HIDE DEF A, next, Halt
  <2> QED
    BY <1>4, <2>1, <2>2 DEF Descends
<1> QED
  BY <1>5, <1>6 DEF Iterates

-----------------------------------------------------------------------------
(* FoldLeft goes over the subsets of 1 .. N by their greatest member.        *)

\* Taking its greatest member off an interval leaves the one before.
LEMMA Intervals ==
  ASSUME NEW N \in Nat
  PROVE  /\ 1 .. 0 = {}
         /\ \A n \in 1 .. N : /\ 1 .. n \in SUBSET (1 .. N) /\ 1 .. n # {} /\ n \in Nat
                              /\ Max(1 .. n) = n /\ (1 .. n) \ {n} = 1 .. (n - 1)
<1>1. ASSUME NEW n \in 1 .. N PROVE Max(1 .. n) = n
  <2>1. n \in 1 .. n /\ \A y \in 1 .. n : n >= y
    OBVIOUS
  <2>2. \A x \in 1 .. n : (\A y \in 1 .. n : x >= y) => x = n
    BY <2>1
  <2>3. Max(1 .. n) \in 1 .. n /\ \A y \in 1 .. n : Max(1 .. n) >= y
    BY <2>1 DEF Max
  <2> QED
    BY <2>2, <2>3
<1> QED
  BY <1>1

\* A non-empty subset of an interval has its Max.
LEMMA GreatestMember ==
  ASSUME NEW N \in Nat, NEW s \in SUBSET (1 .. N), s # {}
  PROVE  Max(s) \in s
<1> DEFINE R == {N - x : x \in s}
<1>1. R \subseteq Nat /\ R # {}
  <2>1. \A x \in s : x \in Int /\ N - x \in Nat
    OBVIOUS
  <2> QED
    BY <2>1
<1>2. PICK y \in R : \A z \in R : y <= z
  <2> HIDE DEF R
  <2> QED
    BY <1>1, LeastNumber
<1>3. PICK x \in s : y = N - x
  OBVIOUS
<1>4. \A z \in s : x >= z
  <2>1. TAKE z \in s
  <2>2. N - z \in R /\ y <= N - z /\ z \in Int /\ x \in Int
    BY <1>2
  <2> QED
    BY <1>3, <2>2
<1> QED
  BY <1>4 DEF Max

\* The recursion behind FoldLeft has a solution.
Unwinds(it, N, b, G) ==
  \A s \in SUBSET (1 .. N) : it[s] = IF s = {} THEN b ELSE G[Max(s)][it[s \ {Max(s)}]]

\* A function that reduces a set of numbers from the greatest one down exists.
LEMMA PrefixRecursion ==
  ASSUME NEW N \in Nat, NEW V, NEW b \in V, NEW G, Transforms(G, 1 .. N, V)
  PROVE  \E it \in [SUBSET (1 .. N) -> V] : Unwinds(it, N, b, G)
<1> DEFINE S == 1 .. N
           ch == [s \in SUBSET S |-> Max(s)]
           H == [s \in SUBSET S |-> [v \in V |-> IF s = {} THEN v ELSE G[Max(s)][v]]]
<1>1. IsFiniteSet(S)
  BY FS_Interval
<1>2. Picks(ch, S)
  BY GreatestMember DEF Picks
<1>3. Steps(H, S, V)
  <2> SUFFICES ASSUME NEW s \in SUBSET S, NEW v \in V PROVE H[s][v] \in V
    BY DEF Steps
  <2>1. s # {} => Max(s) \in S
    BY GreatestMember
  <2>2. s # {} => G[Max(s)][v] \in V
    BY <2>1 DEF Transforms
  <2> QED
    BY <2>2
<1>4. \E it \in [SUBSET S -> V] : Recurses(it, S, b, ch, H)
  <2> HIDE DEF S, ch, H
  <2> QED
    BY <1>1, <1>2, <1>3, SubsetRecursion
<1>5. PICK it \in [SUBSET S -> V] : Recurses(it, S, b, ch, H)
  BY <1>4
<1>6. ASSUME NEW s \in SUBSET S PROVE it[s] = IF s = {} THEN b ELSE G[Max(s)][it[s \ {Max(s)}]]
  <2>1. it[s] = IF s = {} THEN b ELSE H[s][it[s \ {ch[s]}]]
    BY <1>5 DEF Recurses
  <2>2. it[s \ {ch[s]}] \in V
    OBVIOUS
  <2> QED
    BY <2>1, <2>2
<1> QED
  BY <1>6 DEF Unwinds

Advances(it, N, V, b, G) ==
  /\ it[{}] = b
  /\ \A s \in SUBSET (1 .. N) : s # {} /\ it[s \ {Max(s)}] \in V => it[s] = G[Max(s)][it[s \ {Max(s)}]]
Proceeds(f, N, b, G) == f[0] = b /\ \A i \in 1 .. N : f[i] = G[i][f[i - 1]]

\* Any solution of it that keeps to V as long as it has kept to V goes through
\* the intervals 1 .. i, from one to the next.
LEMMA PrefixPath ==
  ASSUME NEW N \in Nat, NEW V, NEW b \in V, NEW G, Transforms(G, 1 .. N, V), NEW it,
         Advances(it, N, V, b, G)
  PROVE  \E f \in [0 .. N -> V] : Proceeds(f, N, b, G) /\ f[N] = it[1 .. N]
<1> DEFINE f == [i \in 0 .. N |-> it[1 .. i]]
           T == {i \in Nat : i <= N => f[i] \in V}
<1>1. f[0] = b
  <2>1. it[1 .. 0] = b
    BY Intervals DEF Advances
  <2> QED
    BY <2>1
<1>2. ASSUME NEW i \in 1 .. N, f[i - 1] \in V PROVE f[i] = G[i][f[i - 1]]
  <2>1. 1 .. i \in SUBSET (1 .. N) /\ 1 .. i # {} /\ Max(1 .. i) = i /\ (1 .. i) \ {i} = 1 .. (i - 1)
    BY Intervals
  <2>2. it[1 .. (i - 1)] \in V
    BY <1>2
  <2>3. it[1 .. i] = G[i][it[1 .. (i - 1)]]
    BY <2>1, <2>2 DEF Advances
  <2> QED
    BY <2>3
<1> HIDE DEF f
<1>3. 0 \in T
  BY <1>1
<1>4. ASSUME NEW i \in T PROVE i + 1 \in T
  <2>1. CASE i + 1 <= N
    <3>1. i + 1 \in 1 .. N /\ (i + 1) - 1 = i /\ f[i] \in V
      BY <2>1
    <3>2. f[i + 1] = G[i + 1][f[i]]
      BY <1>2, <3>1
    <3> QED
      BY <3>1, <3>2 DEF Transforms
  <2> QED
    BY <2>1
<1>5. T = Nat
  <2>1. T \subseteq Nat
    OBVIOUS
  <2> HIDE DEF T
  <2> QED
    BY <1>3, <1>4, <2>1, NumberInduction
<1>6. \A i \in 0 .. N : f[i] \in V
  <2>1. \A i \in 0 .. N : i \in T
    <3> HIDE DEF T
    <3> QED
      BY <1>5
  <2> QED
    BY <2>1
<1>7. f \in [0 .. N -> V] /\ f[N] = it[1 .. N]
  BY <1>6 DEF f
<1>8. \A i \in 1 .. N : f[i] = G[i][f[i - 1]]
  BY <1>2, <1>6
<1> QED
  BY <1>1, <1>7, <1>8 DEF Proceeds

-----------------------------------------------------------------------------
(* Sums over one place less. *)

Integral(f, D) == f \in [D -> Int]

\* Any member can be the one a sum adds first.
LEMMA AddsAny ==
  ASSUME NEW D, IsFiniteSet(D), NEW f, Integral(f, D), NEW a, Integral(a, SUBSET D), Adds(a, f),
         NEW p \in D
  PROVE  a[D] = f[p] + a[D \ {p}]
<1> USE DEF Integral
<1> DEFINE T == {s \in SUBSET D : \A x \in s : a[s] = f[x] + a[s \ {x}]}
<1>1. DOMAIN f = D
  OBVIOUS
<1>2. {} \in T
  OBVIOUS
<1>3. ASSUME NEW s \in SUBSET D, s # {}, \A x \in s : s \ {x} \in T PROVE s \in T
  <2> DEFINE c == Chosen(s)
  <2>1. c \in s
    BY <1>3 DEF Chosen
  <2>2. a[s] = f[c] + a[s \ {c}]
    BY <1>1, <1>3 DEF Adds
  <2> HIDE DEF c
  <2>3. ASSUME NEW x \in s, x # c PROVE a[s] = f[x] + a[s \ {x}]
    <3>1. a[s \ {c}] = f[x] + a[(s \ {c}) \ {x}]
      BY <1>3, <2>1, <2>3
    <3> DEFINE rest == (s \ {c}) \ {x}
    <3>2. a[s \ {x}] = f[c] + a[rest]
      <4>1. rest = (s \ {x}) \ {c}
        OBVIOUS
      <4>2. a[s \ {x}] = f[c] + a[(s \ {x}) \ {c}]
        BY <1>3, <2>1, <2>3
      <4> QED
        BY <4>1, <4>2
    <3>3. f[x] \in Int /\ f[c] \in Int /\ a[rest] \in Int
      BY <2>1
    <3> HIDE DEF T, rest
    <3> QED
      BY <2>2, <3>1, <3>2, <3>3 DEF rest
  <2> QED
    BY <2>2, <2>3
<1>4. SUBSET D \subseteq T
  <2> HIDE DEF T
  <2> QED
    BY <1>2, <1>3, SubsetInduction
<1> QED
  BY <1>4

\* The sum of a function is its value in one place and the sum over the others.
LEMMA SumRemoves ==
  ASSUME NEW D, IsFiniteSet(D), NEW f, Integral(f, D), NEW p \in D, NEW g, Integral(g, D \ {p}),
         \A x \in D \ {p} : g[x] = f[x]
  PROVE  SumFunction(f) = f[p] + SumFunction(g)
<1>1. f \in [D -> Int] /\ g \in [D \ {p} -> Int]
  BY DEF Integral
<1>2. PICK E : E = D \ {p}
  OBVIOUS
<1>3. DOMAIN f = D /\ DOMAIN g = E
  BY <1>2, <1>1
<1>4. IsFiniteSet(E)
  BY <1>2, FS_Subset
<1>5. PICK a \in [SUBSET D -> Int] : Adds(a, f) /\ SumFunction(f) = a[D]
  BY <1>1, SumIsRecursive
<1>6. PICK b \in [SUBSET E -> Int] : Adds(b, g) /\ SumFunction(g) = b[E]
  <2>1. g \in [E -> Int]
    BY <1>2, <1>1
  <2> QED
    BY <1>4, <2>1, SumIsRecursive
<1> DEFINE T == {s \in SUBSET E : a[s] = b[s]}
<1>7. {} \in T
  BY <1>3, <1>5, <1>6 DEF Adds
<1>8. ASSUME NEW s \in SUBSET E, s # {}, \A x \in s : s \ {x} \in T PROVE s \in T
  <2> DEFINE c == Chosen(s)
  <2>1. c \in s
    BY <1>8 DEF Chosen
  <2>2. b[s] = g[c] + b[s \ {c}]
    BY <1>3, <1>6, <1>8 DEF Adds
  <2>3. a[s] = f[c] + a[s \ {c}]
    BY <1>2, <1>3, <1>5, <1>8 DEF Adds
  <2> HIDE DEF c
  <2> QED
    BY <1>2, <1>8, <2>1, <2>2, <2>3
<1>9. SUBSET E \subseteq T
  <2> HIDE DEF T
  <2> QED
    BY <1>4, <1>7, <1>8, SubsetInduction
<1>10. a[D] = f[p] + a[D \ {p}]
  <2>1. Adds(a, f)
    BY <1>5
  <2>2. Integral(a, SUBSET D)
    BY DEF Integral
  <2> HIDE DEF T
  <2> QED
    BY <2>1, <2>2, AddsAny
<1> QED
  BY <1>2, <1>5, <1>6, <1>9, <1>10

\* Equal functions on a finite set less those of a finite set R of keys.
LEMMA SumRemovesAll ==
  ASSUME NEW D, IsFiniteSet(D), NEW f \in [D -> Int], NEW R, IsFiniteSet(R),
         NEW key, NEW w \in [R -> Int],
         \A r \in R : key[r] \in D /\ w[r] = f[key[r]],
         \A r, q \in R : key[r] = key[q] => r = q
  PROVE  SumFunction([x \in D \ {key[r] : r \in R} |-> f[x]]) = SumFunction(f) - SumFunction(w)
<1> DEFINE Left(s) == [x \in D \ {key[r] : r \in s} |-> f[x]]
           Part(s) == [r \in s |-> w[r]]
           T == {s \in SUBSET R : SumFunction(Left(s)) = SumFunction(f) - SumFunction(Part(s))}
<1>1. \A s \in SUBSET R :
        /\ IsFiniteSet(s) /\ IsFiniteSet(D \ {key[r] : r \in s})
        /\ Left(s) \in [D \ {key[r] : r \in s} -> Int] /\ Part(s) \in [s -> Int]
  <2>1. \A s \in SUBSET R : IsFiniteSet(s) /\ IsFiniteSet(D \ {key[r] : r \in s})
    BY FS_Subset
  <2> QED
    BY <2>1
<1>2. \A s \in SUBSET R : SumFunction(Left(s)) \in Int /\ SumFunction(Part(s)) \in Int
  <2>1. TAKE s \in SUBSET R
  <2> DEFINE E == D \ {key[r] : r \in s}
             L == Left(s)
             P == Part(s)
  <2>2. IsFiniteSet(s) /\ IsFiniteSet(E) /\ L \in [E -> Int] /\ P \in [s -> Int]
    BY <1>1
  <2> HIDE DEF E, L, P
  <2>3. SumFunction(L) \in Int
    BY <2>2, SumIsInteger
  <2>4. SumFunction(P) \in Int
    BY <2>2, SumIsInteger
  <2> QED
    BY <2>3, <2>4 DEF L, P
<1>3. {} \in T
  <2>1. Left({}) = f
    OBVIOUS
  <2>2. SumFunction(Part({})) = 0
    <3>1. IsFiniteSet({}) /\ Part({}) \in [{} -> Int]
      BY FS_EmptySet
    <3> DEFINE P == Part({})
    <3> HIDE DEF P
    <3>2. P \in [{} -> Int]
      BY <3>1 DEF P
    <3>3. SumFunction(P) = 0
      BY <3>1, <3>2, SumOfZeros
    <3> QED
      BY <3>3 DEF P
  <2>3. SumFunction(f) \in Int
    BY <1>2, <2>1
  <2> QED
    BY <2>1, <2>2, <2>3
<1>4. ASSUME NEW s \in SUBSET R, s # {}, \A x \in s : s \ {x} \in T PROVE s \in T
  <2>1. PICK q \in s : TRUE
    BY <1>4
  <2> DEFINE t == s \ {q}
             E == D \ {key[r] : r \in t}
             p == key[q]
  <2>2. p \in E /\ D \ {key[r] : r \in s} = E \ {p} /\ t \in SUBSET R
    OBVIOUS
  <2> DEFINE L == Left(t)
             M == Left(s)
             P == Part(t)
             Q == Part(s)
  <2>3. /\ L \in [E -> Int] /\ M \in [E \ {p} -> Int] /\ IsFiniteSet(E) /\ L[p] = w[q]
        /\ \A x \in E \ {p} : M[x] = L[x]
    BY <1>1, <2>2
  <2>4. /\ Q \in [s -> Int] /\ P \in [s \ {q} -> Int] /\ IsFiniteSet(s) /\ Q[q] = w[q]
        /\ \A x \in s \ {q} : P[x] = Q[x]
    BY <1>1, <2>2
  <2>5. /\ SumFunction(L) = SumFunction(f) - SumFunction(P)
        /\ SumFunction(L) \in Int /\ SumFunction(M) \in Int
        /\ SumFunction(P) \in Int /\ SumFunction(Q) \in Int
    BY <1>2, <1>4, <2>2
  <2>6. SumFunction(f) \in Int
    BY SumIsInteger
  <2> HIDE DEF L, M, P, Q, E, p
  <2>7. SumFunction(L) = L[p] + SumFunction(M)
    <3>1. Integral(L, E) /\ Integral(M, E \ {p})
      BY <2>3 DEF Integral
    <3> QED
      BY <2>2, <2>3, <3>1, SumRemoves
  <2>8. SumFunction(Q) = Q[q] + SumFunction(P)
    <3>1. Integral(Q, s) /\ Integral(P, s \ {q})
      BY <2>4 DEF Integral
    <3> QED
      BY <2>4, <3>1, SumRemoves
  <2>9. SumFunction(M) = SumFunction(f) - SumFunction(Q)
    BY <2>3, <2>4, <2>5, <2>6, <2>7, <2>8
  <2> QED
    BY <2>9 DEF M, Q
<1>5. SUBSET R \subseteq T
  <2> HIDE DEF T
  <2> QED
    BY <1>3, <1>4, SubsetInduction
<1>6. R \in T /\ Part(R) = w
  BY <1>5
<1> QED
  BY <1>6
=============================================================================
