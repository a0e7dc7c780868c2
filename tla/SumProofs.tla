------------------------------- MODULE SumProofs -------------------------------
(***************************************************************************)
(* Sums over finite sets.  MapThenSumSet is a function defined by          *)
(* recursion on sets; what it computes follows from a least counterexample *)
(* among the sizes of those sets.                                          *)
(***************************************************************************)
EXTENDS Integers, FiniteSets, FiniteSetsExt, FiniteSetTheorems, WellFoundedInduction, TLAPS

\* Every set of numbers has a least one.
LEMMA SmallestOf ==
    ASSUME NEW S, S \subseteq Nat, S # {}
    PROVE  \E m \in S : \A k \in S : m <= k
<1> DEFINE R == OpToRel(<, Nat)
<1>1. IsWellFoundedOn(R, Nat)
  BY NatLessThanWellFounded
<1>2. \A x, y \in Nat : x < y => <<x, y>> \in R
  BY DEF OpToRel
<1> HIDE DEF R
<1>3. PICK m \in S : \A k \in S : ~ (<<k, m>> \in R)
  BY <1>1, WFMin
<1>4. \A k \in S : ~ (k < m)
  BY <1>2, <1>3
<1> QED
  BY <1>3, <1>4

\* The element that MapThenSumSet takes from a set next.
Taken(s) == CHOOSE x \in s : TRUE

LEMMA TakenIn == ASSUME NEW s, s # {} PROVE Taken(s) \in s
  BY DEF Taken

\* g has the sums of f over the subsets of S.
Adds(f, S, g) ==
    \A s \in SUBSET S : g[s] = IF s = {} THEN 0 ELSE f[Taken(s)] + g[s \ {Taken(s)}]

\* The same, of numbers and for a finite set.
Sums(f, S, g) ==
    /\ IsFiniteSet(S) /\ Adds(f, S, g)
    /\ \A x \in S : f[x] \in Int
    /\ g \in [SUBSET S -> Int]

\* What is left of a finite set without one of its elements.
LEMMA Without ==
    ASSUME NEW S, IsFiniteSet(S), NEW s \in SUBSET S, NEW x \in s
    PROVE  /\ IsFiniteSet(s) /\ s \ {x} \in SUBSET S
           /\ Cardinality(s) \in Nat /\ Cardinality(s \ {x}) = Cardinality(s) - 1
           /\ Cardinality(s \ {x}) \in Nat
<1>1. IsFiniteSet(s)
  BY FS_Subset
<1>2. Cardinality(s) \in Nat /\ Cardinality(s \ {x}) = Cardinality(s) - 1
  BY <1>1, FS_CardinalityType, FS_RemoveElement
<1>3. IsFiniteSet(s \ {x}) /\ Cardinality(s \ {x}) \in Nat
  BY <1>1, FS_Subset, FS_CardinalityType
<1> QED
  BY <1>1, <1>2, <1>3

LEMMA SizeOf ==
    ASSUME NEW S, IsFiniteSet(S), NEW s \in SUBSET S
    PROVE  Cardinality(s) \in Nat /\ Cardinality(S) \in Nat /\ Cardinality(s) <= Cardinality(S)
           /\ (s # {} => Cardinality(s) # 0)
  BY FS_Subset, FS_CardinalityType, FS_EmptySet

\* The sums exist: those of the sets of size m follow from those of the smaller ones.
LEMMA SumsExist ==
    ASSUME NEW S, IsFiniteSet(S), NEW f, \A x \in S : f[x] \in Int
    PROVE  \E g : Sums(f, S, g)
<1> DEFINE Up(m, g) == \A s \in SUBSET S : Cardinality(s) <= m =>
                         g[s] = IF s = {} THEN 0 ELSE f[Taken(s)] + g[s \ {Taken(s)}]
           Good(m) == \E g \in [SUBSET S -> Int] : Up(m, g)
           Bad == {m \in Nat : ~Good(m)}
<1>1. Good(0)
  <2> DEFINE z == [s \in SUBSET S |-> 0]
  <2>1. z \in [SUBSET S -> Int]
    OBVIOUS
  <2>2. ASSUME NEW s \in SUBSET S, Cardinality(s) <= 0 PROVE s = {}
    BY <2>2, SizeOf
  <2>3. Up(0, z)
    BY <2>2
  <2> QED
    BY <2>1, <2>3
<1>2. ASSUME NEW m \in Nat, m # 0, Good(m - 1)
      PROVE  Good(m)
  <2>1. PICK g \in [SUBSET S -> Int] : Up(m - 1, g)
    BY <1>2
  <2> DEFINE h == [s \in SUBSET S |-> IF Cardinality(s) = m THEN f[Taken(s)] + g[s \ {Taken(s)}] ELSE g[s]]
  <2>2. ASSUME NEW s \in SUBSET S, s # {}
        PROVE  f[Taken(s)] \in Int /\ g[s \ {Taken(s)}] \in Int /\ s \ {Taken(s)} \in SUBSET S
               /\ Cardinality(s \ {Taken(s)}) = Cardinality(s) - 1 /\ Cardinality(s) \in Nat
    <3>1. Taken(s) \in s
      BY <2>2, TakenIn
    <3> QED
      BY <3>1, Without
  <2>3. \A s \in SUBSET S : Cardinality(s) = m => s # {}
    BY <1>2, FS_EmptySet
  <2>4. h \in [SUBSET S -> Int]
    BY <2>2, <2>3
  <2>5. ASSUME NEW s \in SUBSET S, Cardinality(s) <= m
        PROVE  h[s] = IF s = {} THEN 0 ELSE f[Taken(s)] + h[s \ {Taken(s)}]
    <3>1. CASE s = {}
      <4>1. Cardinality(s) = 0
        BY <3>1, FS_EmptySet
      <4>2. h[s] = g[s] /\ g[s] = 0
        BY <1>2, <2>1, <3>1, <4>1
      <4> QED
        BY <3>1, <4>2
    <3>2. CASE s # {}
      <4>1. h[s \ {Taken(s)}] = g[s \ {Taken(s)}]
        <5>1. s \ {Taken(s)} \in SUBSET S /\ Cardinality(s \ {Taken(s)}) # m
          BY <1>2, <2>2, <2>5, <3>2
        <5> QED
          BY <5>1
      <4>2. h[s] = f[Taken(s)] + g[s \ {Taken(s)}]
        <5> DEFINE c == Cardinality(s)
                   v == f[Taken(s)] + g[s \ {Taken(s)}]
        <5>0. h[s] = IF c = m THEN v ELSE g[s]
          OBVIOUS
        <5> HIDE DEF h, c, v
        <5>1. CASE c = m
          BY <5>0, <5>1 DEF v
        <5>2. CASE c # m
          <6>0. Cardinality(s) \in Nat /\ Cardinality(s) <= m
            BY <2>5, SizeOf
          <6>1. Cardinality(s) <= m - 1
            BY <1>2, <5>2, <6>0 DEF c
          <6>2. g[s] = v
            BY <2>1, <3>2, <6>1 DEF v
          <6> QED
            BY <5>0, <5>2, <6>2 DEF v
        <5> QED
          BY <5>1, <5>2
      <4> QED
        BY <3>2, <4>1, <4>2
    <3> QED
      BY <3>1, <3>2
  <2> HIDE DEF h
  <2>6. Up(m, h)
    BY <2>5
  <2> QED
    BY <2>4, <2>6
<1>3. Bad = {}
  <2> SUFFICES ASSUME Bad # {} PROVE FALSE
    OBVIOUS
  <2> HIDE DEF Good
  <2>1. PICK m \in Bad : \A k \in Bad : m <= k
    BY SmallestOf
  <2>2. m \in Nat /\ m # 0 /\ ~Good(m)
    BY <1>1, <2>1
  <2>3. Good(m - 1)
    BY <2>1, <2>2
  <2> QED
    BY <1>2, <2>2, <2>3
<1>4. Cardinality(S) \in Nat
  BY FS_CardinalityType
<1>5. Good(Cardinality(S))
  BY <1>3, <1>4
<1>6. PICK g \in [SUBSET S -> Int] : Up(Cardinality(S), g)
  BY <1>5
<1>7. Adds(f, S, g)
  BY <1>6, SizeOf DEF Adds
<1> QED
  BY <1>6, <1>7 DEF Sums

\* Sums of the same summands are the same, whatever set they were made for.
LEMMA SumsAgree ==
    ASSUME NEW S, IsFiniteSet(S), NEW T, NEW f, NEW g, NEW h, Adds(f, S, g), Adds(f, T, h),
           NEW s \in SUBSET S, s \in SUBSET T
    PROVE  g[s] = h[s]
<1> DEFINE Bad == {m \in Nat : \E x \in SUBSET S : x \in SUBSET T /\ Cardinality(x) = m /\ g[x] # h[x]}
<1> SUFFICES ASSUME g[s] # h[s] PROVE FALSE
  OBVIOUS
<1>1. Cardinality(s) \in Bad
  BY SizeOf
<1>2. PICK m \in Bad : \A k \in Bad : m <= k
  BY <1>1, SmallestOf
<1>3. PICK x \in SUBSET S : x \in SUBSET T /\ Cardinality(x) = m /\ g[x] # h[x]
  BY <1>2
<1> DEFINE y == x \ {Taken(x)}
<1>4. x # {}
  BY <1>3 DEF Adds
<1>5. y \in SUBSET S /\ y \in SUBSET T /\ Cardinality(y) \in Nat /\ Cardinality(y) < m
  <2>1. Taken(x) \in x
    BY <1>4, TakenIn
  <2> QED
    BY <1>3, <2>1, Without
<1>6. g[x] = f[Taken(x)] + g[y] /\ h[x] = f[Taken(x)] + h[y]
  BY <1>3, <1>4 DEF Adds
<1>7. g[y] # h[y]
  BY <1>3, <1>6
<1> HIDE DEF y
<1>8. Cardinality(y) \in Bad
  BY <1>5, <1>7
<1> QED
  BY <1>2, <1>5, <1>8

\* A sum can be taken apart at any element, not only at the one taken first.
LEMMA SumsSplit ==
    ASSUME NEW S, NEW f, NEW g, Sums(f, S, g), NEW s \in SUBSET S, NEW y \in s
    PROVE  g[s] = f[y] + g[s \ {y}]
<1>0. IsFiniteSet(S) /\ Adds(f, S, g) /\ (\A x \in S : f[x] \in Int) /\ g \in [SUBSET S -> Int]
  BY DEF Sums
<1> DEFINE Bad == {m \in Nat : \E x \in SUBSET S : \E z \in x : Cardinality(x) = m /\ g[x] # f[z] + g[x \ {z}]}
<1> SUFFICES ASSUME g[s] # f[y] + g[s \ {y}] PROVE FALSE
  OBVIOUS
<1>1. Cardinality(s) \in Bad
  BY <1>0, SizeOf
<1>2. PICK m \in Bad : \A k \in Bad : m <= k
  BY <1>1, SmallestOf
<1>3. PICK x \in SUBSET S, z \in S : z \in x /\ Cardinality(x) = m /\ g[x] # f[z] + g[x \ {z}]
  BY <1>2
<1>4. PICK w \in x : w = Taken(x)
  BY <1>3, TakenIn
<1>5. g[x] = f[w] + g[x \ {w}]
  BY <1>0, <1>3, <1>4 DEF Adds
<1>6. w # z
  BY <1>3, <1>5
<1> DEFINE xz == x \ {z}
           xw == x \ {w}
           xzw == x \ {z, w}
<1>7. /\ xz \in SUBSET S /\ Cardinality(xz) \in Nat /\ Cardinality(xz) < m
      /\ xw \in SUBSET S /\ Cardinality(xw) \in Nat /\ Cardinality(xw) < m
  BY <1>0, <1>3, Without
<1>8. w \in xz /\ z \in xw /\ xz \ {w} = xzw /\ xw \ {z} = xzw /\ xzw \in SUBSET S
  BY <1>3, <1>6
<1>a. m \in Nat
  BY <1>2
<1>9. ASSUME NEW u \in SUBSET S, NEW v \in u, Cardinality(u) \in Nat, Cardinality(u) < m
      PROVE  g[u] = f[v] + g[u \ {v}]
  <2>1. Cardinality(u) \notin Bad
    <3> HIDE DEF Bad
    <3> QED
      BY <1>2, <1>9, <1>a
  <2> QED
    BY <1>9, <2>1
<1> HIDE DEF xz, xw, xzw, Bad
<1>12. f[w] \in Int /\ f[z] \in Int /\ g[xzw] \in Int
  BY <1>0, <1>3, <1>8
<1>10. g[xz] = f[w] + g[xzw] /\ g[xw] = f[z] + g[xzw]
  BY <1>7, <1>8, <1>9, <1>12
<1>11. g[x] # f[z] + g[xz] /\ g[x] = f[w] + g[xw]
  BY <1>3, <1>5 DEF xz, xw
<1> QED
  BY <1>10, <1>11, <1>12

\* One element more adds its summand.
LEMMA SumsGrow ==
    ASSUME NEW S, NEW x, x \notin S, NEW T, T = S \cup {x}, NEW f, NEW g, Sums(f, T, g)
    PROVE  g[T] = f[x] + g[S] /\ f[x] \in Int /\ g[S] \in Int
<1>1. x \in T /\ T \in SUBSET T /\ T \ {x} = S /\ S \in SUBSET T
  OBVIOUS
<1>2. f[x] \in Int /\ g[S] \in Int /\ g[T] \in Int
  BY <1>1 DEF Sums
<1>3. \A y \in T : g[T] = f[y] + g[T \ {y}]
  BY <1>1, SumsSplit
<1> QED
  BY <1>1, <1>2, <1>3

-----------------------------------------------------------------------------
(* The sum of a function over a finite set.                                *)

Sum(f, S) == MapThenSumSet(LAMBDA x : f[x], S)

\* What holds of the empty set, and of a set with one element more, holds of S.
LEMMA SubsetsGrow ==
    ASSUME NEW S, IsFiniteSet(S), NEW B, {} \in B,
           \A s \in SUBSET S : \A x \in S \ s : s \in B => s \cup {x} \in B
    PROVE  S \in B
<1> DEFINE Bad == {m \in Nat : \E s \in SUBSET S : Cardinality(s) = m /\ s \notin B}
<1> SUFFICES ASSUME S \notin B PROVE FALSE
  OBVIOUS
<1>1. Cardinality(S) \in Bad
  BY SizeOf
<1>2. PICK m \in Bad : \A k \in Bad : m <= k
  BY <1>1, SmallestOf
<1>3. PICK s \in SUBSET S : Cardinality(s) = m /\ s \notin B
  BY <1>2
<1>4. PICK x \in s : TRUE
  BY <1>3
<1>5. s \ {x} \in SUBSET S /\ Cardinality(s \ {x}) \in Nat /\ Cardinality(s \ {x}) < m
  BY <1>3, Without
<1>6. s \ {x} \in B
  BY <1>2, <1>5
<1>7. (s \ {x}) \cup {x} = s /\ x \in S \ (s \ {x})
  OBVIOUS
<1> QED
  BY <1>3, <1>5, <1>6, <1>7

LEMMA SumIs ==
    ASSUME NEW S, IsFiniteSet(S), NEW f, NEW g, Sums(f, S, g)
    PROVE  Sum(f, S) = g[S]
<1> DEFINE All(k) == [s \in SUBSET S |-> IF s = {} THEN 0 ELSE f[Taken(s)] + k[s \ {Taken(s)}]]
           h == CHOOSE k : k = All(k)
<1>1. Adds(f, S, g) /\ g \in [SUBSET S -> Int]
  BY DEF Sums
<1>2. g = All(g)
  BY <1>1 DEF Adds
<1>3. h = All(h)
  <2> HIDE DEF All
  <2> QED
    BY <1>2
<1>4. Sum(f, S) = h[S]
  BY DEF Sum, MapThenSumSet, MapThenFoldSet, Taken
<1> HIDE DEF h
<1>5. Adds(f, S, h)
  BY <1>3 DEF Adds
<1>6. h[S] = g[S]
  BY <1>1, <1>5, SumsAgree
<1> QED
  BY <1>4, <1>6

LEMMA SumEmpty == ASSUME NEW f PROVE Sum(f, {}) = 0
<1>1. IsFiniteSet({})
  BY FS_EmptySet
<1>2. PICK g : Sums(f, {}, g)
  BY <1>1, SumsExist
<1>3. g[{}] = 0
  BY <1>2 DEF Sums, Adds
<1> QED
  BY <1>1, <1>2, <1>3, SumIs

\* A sum is an integer, and it depends on the summands only.
LEMMA SumSame ==
    ASSUME NEW S, IsFiniteSet(S), NEW f, NEW h, \A x \in S : f[x] \in Int /\ h[x] = f[x]
    PROVE  Sum(f, S) \in Int /\ Sum(h, S) = Sum(f, S)
<1>1. PICK g : Sums(f, S, g)
  BY SumsExist
<1>2. g[S] \in Int
  BY <1>1 DEF Sums
<1>3. \A s \in SUBSET S : s # {} => h[Taken(s)] = f[Taken(s)]
  BY TakenIn
<1>4. Sums(h, S, g)
  BY <1>1, <1>3 DEF Sums, Adds
<1> QED
  BY <1>1, <1>2, <1>4, SumIs

LEMMA SumInt ==
    ASSUME NEW S, IsFiniteSet(S), NEW f, \A x \in S : f[x] \in Int
    PROVE  Sum(f, S) \in Int
  BY SumSame

\* One element is added to the sum of the others.
LEMMA SumSplit ==
    ASSUME NEW S, IsFiniteSet(S), NEW f, \A x \in S : f[x] \in Int, NEW x \in S,
           NEW r, r = S \ {x}
    PROVE  Sum(f, S) = f[x] + Sum(f, r)
<1>1. PICK g : Sums(f, S, g)
  BY SumsExist
<1>2. IsFiniteSet(r) /\ r \in SUBSET S /\ S \in SUBSET S
  BY FS_Subset
<1>3. PICK h : Sums(f, r, h)
  BY <1>2, SumsExist
<1>4. h[r] = g[r]
  <2>1. Adds(f, r, h) /\ Adds(f, S, g) /\ r \in SUBSET r
    BY <1>1, <1>3 DEF Sums
  <2> QED
    BY <1>2, <2>1, SumsAgree
<1>5. g[S] = f[x] + g[r]
  BY <1>1, <1>2, SumsSplit
<1>6. Sum(f, S) = g[S] /\ Sum(f, r) = h[r]
  BY <1>1, <1>2, <1>3, SumIs
<1> QED
  BY <1>4, <1>5, <1>6

\* A sum of which one summand changes changes as much.
LEMMA SumAt ==
    ASSUME NEW S, IsFiniteSet(S), NEW f, NEW h, NEW x \in S,
           \A y \in S : f[y] \in Int /\ h[y] \in Int,
           \A y \in S : y # x => h[y] = f[y]
    PROVE  Sum(h, S) = Sum(f, S) + h[x] - f[x]
<1>1. PICK r : r = S \ {x}
  OBVIOUS
<1>2. IsFiniteSet(r)
  BY <1>1, FS_Subset
<1>3. \A y \in r : f[y] \in Int /\ h[y] = f[y]
  BY <1>1
<1>4. Sum(f, r) \in Int /\ Sum(h, r) = Sum(f, r)
  BY <1>2, <1>3, SumSame
<1>5. Sum(f, S) = f[x] + Sum(f, r)
  BY <1>1, SumSplit
<1>6. Sum(h, S) = h[x] + Sum(h, r)
  BY <1>1, SumSplit
<1>7. f[x] \in Int /\ h[x] \in Int
  OBVIOUS
<1> QED
  BY <1>4, <1>5, <1>6, <1>7

LEMMA SumZero ==
    ASSUME NEW S, IsFiniteSet(S), NEW f, \A x \in S : f[x] = 0
    PROVE  Sum(f, S) = 0
<1> DEFINE B == {s \in SUBSET S : Sum(f, s) = 0}
<1>1. {} \in B
  BY SumEmpty
<1>2. ASSUME NEW s \in SUBSET S, NEW x \in S \ s, s \in B PROVE s \cup {x} \in B
  <2>1. PICK u \in SUBSET S : u = s \cup {x}
    OBVIOUS
  <2>2. IsFiniteSet(u) /\ (\A y \in u : f[y] \in Int) /\ x \in u /\ s = u \ {x}
    BY <2>1, FS_Subset
  <2>3. Sum(f, u) = f[x] + Sum(f, s)
    BY <2>2, SumSplit
  <2> QED
    BY <1>2, <2>1, <2>3
<1> HIDE DEF B
<1>3. S \in B
  BY <1>1, <1>2, SubsetsGrow
<1> QED
  BY <1>3 DEF B
=============================================================================
