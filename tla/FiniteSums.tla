------------------------------ MODULE FiniteSums ------------------------------
(***************************************************************************)
(* What the sum of an integer function over a finite set is, as the        *)
(* community modules define it: by a fold that takes the elements in the   *)
(* order CHOOSE picks them.  The order does not matter, so a sum changes   *)
(* with one term by what that term changes.                                *)
(***************************************************************************)
EXTENDS Integers, Functions, FiniteSetTheorems, WellFoundedInduction, TLAPS

Sum(f, S) == SumFunctionOnSet(f, S)

Picked(s) == CHOOSE x \in s : TRUE
FoldOf(g, f, s) == IF s = {} THEN 0 ELSE f[Picked(s)] + g[s \ {Picked(s)}]
FoldsOf(f, S) == {g \in [SUBSET S -> Int] : \A s \in SUBSET S : g[s] = FoldOf(g, f, s)}

LEMMA SmallestOne ==
  ASSUME NEW T, T \subseteq Nat, T # {}
  PROVE  \E n \in T : \A m \in T : n <= m
<1>1. \E x \in T : \A y \in T : ~(<<y, x>> \in OpToRel(<, Nat))
  BY NatLessThanWellFounded, WFMin, Zenon
<1>2. \A x, y \in Nat : <<y, x>> \in OpToRel(<, Nat) <=> y < x
  BY Zenon DEF OpToRel
<1>3. PICK x \in T : \A y \in T : ~(y < x)
  BY <1>1, <1>2
<1> QED  BY <1>3

LEMMA SmallerSets ==
  ASSUME NEW s, IsFiniteSet(s), s # {}
  PROVE  /\ Picked(s) \in s /\ IsFiniteSet(s \ {Picked(s)})
         /\ Cardinality(s) \in Nat /\ Cardinality(s \ {Picked(s)}) \in Nat
         /\ Cardinality(s \ {Picked(s)}) < Cardinality(s)
<1>1. Picked(s) \in s
  BY DEF Picked
<1> HIDE DEF Picked
<1>2. /\ IsFiniteSet(s \ {Picked(s)}) /\ Cardinality(s) \in Nat
      /\ Cardinality(s \ {Picked(s)}) = Cardinality(s) - 1
  BY <1>1, FS_RemoveElement, FS_CardinalityType
<1>3. Cardinality(s \ {Picked(s)}) \in Nat
  BY <1>2, FS_CardinalityType
<1> QED  BY <1>1, <1>2, <1>3

(* The fold the definition chooses exists.                                  *)
LEMMA FoldExists ==
  ASSUME NEW S, IsFiniteSet(S), NEW f, \A x \in S : f[x] \in Int
  PROVE  FoldsOf(f, S) # {}
<1> DEFINE D(n) == {s \in SUBSET S : Cardinality(s) <= n}
           Part(n) == {g \in [D(n) -> Int] : \A s \in D(n) : g[s] = FoldOf(g, f, s)}
           T == {n \in Nat : Part(n) = {}}
<1>0. \A s \in SUBSET S : IsFiniteSet(s) /\ Cardinality(s) \in Nat
  BY FS_Subset, FS_CardinalityType
<1>1. T = {}
  <2>1. SUFFICES ASSUME NEW n \in T, \A m \in T : n <= m PROVE FALSE
    BY SmallestOne
  <2>2. n \in Nat /\ Part(n) = {}
    BY <2>1
  <2>3. ASSUME n = 0 PROVE FALSE
    <3>1. \A s \in D(0) : s = {}
      BY <1>0, FS_EmptySet
    <3> DEFINE g == [s \in D(0) |-> 0]
    <3>2. g \in Part(0)
      BY <3>1 DEF FoldOf
    <3> QED  BY <2>2, <2>3, <3>2
  <2>4. ASSUME n # 0 PROVE FALSE
    <3>1. n - 1 \in Nat /\ n - 1 \notin T
      BY <2>1, <2>2, <2>4
    <3>2. PICK g : g \in Part(n - 1)
      BY <3>1
    <3> DEFINE h == [s \in D(n) |-> FoldOf(g, f, s)]
    <3>3. ASSUME NEW s \in D(n), s # {}
          PROVE  /\ Picked(s) \in S /\ s \ {Picked(s)} \in D(n - 1)
                 /\ s \ {Picked(s)} \in D(n)
      BY <1>0, <2>2, <3>3, SmallerSets
    <3>4. \A s \in D(n - 1) : s \in D(n) /\ g[s] \in Int /\ g[s] = FoldOf(g, f, s)
      BY <1>0, <2>2, <3>2
    <3>5. ASSUME NEW s \in D(n)
          PROVE  FoldOf(g, f, s) \in Int /\ FoldOf(h, f, s) = FoldOf(g, f, s)
      <4>1. CASE s = {}
        BY <4>1 DEF FoldOf
      <4>2. CASE s # {}
        <5> DEFINE q == s \ {Picked(s)}
        <5>1. Picked(s) \in S /\ q \in D(n - 1) /\ q \in D(n)
          BY <3>3, <4>2
        <5>2. g[q] \in Int /\ h[q] = g[q]
          BY <3>4, <5>1
        <5> HIDE DEF h, D, Part
        <5> QED  BY <4>2, <5>1, <5>2 DEF FoldOf
      <4> QED  BY <4>1, <4>2
    <3>6. h \in Part(n)
      BY <3>5
    <3> QED  BY <2>2, <3>6
  <2> QED  BY <2>3, <2>4
<1>2. Cardinality(S) \in Nat /\ D(Cardinality(S)) = SUBSET S
  <2>1. \A s \in SUBSET S : Cardinality(s) <= Cardinality(S)
    BY FS_Subset
  <2> QED  BY <1>0, <2>1
<1>3. Part(Cardinality(S)) # {}
  BY <1>1, <1>2
<1> QED  BY <1>2, <1>3 DEF FoldsOf

LEMMA SumDef ==
  ASSUME NEW f, NEW S
  PROVE  Sum(f, S) = (CHOOSE g : g = [s \in SUBSET S |-> FoldOf(g, f, s)])[S]
BY DEF Sum, SumFunctionOnSet, FoldFunctionOnSet, MapThenFoldSet, FoldOf, Picked

(* Two folds of functions that agree on S agree on its subsets.             *)
LEMMA FoldsAgree ==
  ASSUME NEW S, IsFiniteSet(S), NEW f, NEW e, \A x \in S : f[x] = e[x],
         NEW g, NEW h,
         \A s \in SUBSET S : g[s] = FoldOf(g, f, s) /\ h[s] = FoldOf(h, e, s)
  PROVE  g[S] = h[S]
<1> DEFINE T == {n \in Nat : \E s \in SUBSET S : Cardinality(s) = n /\ g[s] # h[s]}
<1>1. SUFFICES ASSUME g[S] # h[S] PROVE FALSE
  OBVIOUS
<1>2. Cardinality(S) \in T
  BY <1>1, FS_CardinalityType
<1>3. PICK n \in T : \A m \in T : n <= m
  BY <1>2, SmallestOne
<1>4. PICK s \in SUBSET S : Cardinality(s) = n /\ g[s] # h[s]
  BY <1>3
<1>5. s # {}
  BY <1>4 DEF FoldOf
<1> DEFINE q == s \ {Picked(s)}
<1>6. /\ Picked(s) \in S /\ q \in SUBSET S
      /\ Cardinality(q) \in Nat /\ Cardinality(q) < n
  BY <1>4, <1>5, SmallerSets, FS_Subset
<1>7. g[q] = h[q]
  <2>1. Cardinality(q) \notin T
    <3>1. n \in Nat
      BY <1>3
    <3> HIDE DEF q, T
    <3> QED  BY <1>3, <1>6, <3>1
  <2> HIDE DEF q
  <2> QED  BY <1>6, <2>1
<1>8. FoldOf(g, f, s) = FoldOf(h, e, s)
  BY <1>5, <1>6, <1>7 DEF FoldOf
<1> QED  BY <1>4, <1>8

LEMMA SumIsFold ==
  ASSUME NEW S, IsFiniteSet(S), NEW f, \A x \in S : f[x] \in Int,
         NEW g \in FoldsOf(f, S)
  PROVE  Sum(f, S) = g[S]
<1> DEFINE c == CHOOSE h : h = [s \in SUBSET S |-> FoldOf(h, f, s)]
<1>1. g = [s \in SUBSET S |-> FoldOf(g, f, s)]
  BY DEF FoldsOf
<1>2. c = [s \in SUBSET S |-> FoldOf(c, f, s)]
  BY <1>1
<1>3. Sum(f, S) = c[S]
  BY SumDef
<1> HIDE DEF c
<1>4. \A s \in SUBSET S : c[s] = FoldOf(c, f, s) /\ g[s] = FoldOf(g, f, s)
  BY <1>1, <1>2
<1> QED  BY <1>3, <1>4, FoldsAgree

(***************************************************************************)
(* The facts about sums that the proofs of ledgers cite.                   *)
(***************************************************************************)
(* A sum of integers is one.                                                *)
LEMMA SumType ==
  ASSUME NEW S, IsFiniteSet(S), NEW f, \A x \in S : f[x] \in Int
  PROVE  Sum(f, S) \in Int
<1>1. PICK g : g \in FoldsOf(f, S)
  BY FoldExists
<1> QED  BY <1>1, SumIsFold DEF FoldsOf

(* It only depends on the terms.                                            *)
LEMMA SumSame ==
  ASSUME NEW S, IsFiniteSet(S), NEW f, NEW e,
         \A x \in S : f[x] \in Int /\ e[x] = f[x]
  PROVE  Sum(e, S) = Sum(f, S)
<1>1. PICK g : g \in FoldsOf(f, S)
  BY FoldExists
<1>2. PICK h : h \in FoldsOf(e, S)
  BY FoldExists
<1>3. Sum(f, S) = g[S] /\ Sum(e, S) = h[S]
  BY <1>1, <1>2, SumIsFold
<1>4. \A s \in SUBSET S : h[s] = FoldOf(h, e, s) /\ g[s] = FoldOf(g, f, s)
  BY <1>1, <1>2 DEF FoldsOf
<1>5. h[S] = g[S]
  BY <1>4, FoldsAgree
<1> QED  BY <1>3, <1>5

(* The sum over nothing is zero.                                            *)
LEMMA SumEmpty ==
  ASSUME NEW f
  PROVE  Sum(f, {}) = 0
<1>1. IsFiniteSet({}) /\ \A x \in {} : f[x] \in Int
  BY FS_EmptySet
<1>2. PICK g : g \in FoldsOf(f, {})
  BY <1>1, FoldExists
<1>3. Sum(f, {}) = g[{}]
  BY <1>1, <1>2, SumIsFold
<1> QED  BY <1>2, <1>3 DEF FoldsOf, FoldOf

LEMMA SumPicked ==
  ASSUME NEW S, IsFiniteSet(S), S # {}, NEW f, \A x \in S : f[x] \in Int
  PROVE  Sum(f, S) = f[Picked(S)] + Sum(f, S \ {Picked(S)})
<1> DEFINE q == S \ {Picked(S)}
<1>1. PICK g : g \in FoldsOf(f, S)
  BY FoldExists
<1>2. Picked(S) \in S /\ IsFiniteSet(q) /\ q \subseteq S
  BY SmallerSets
<1> HIDE DEF q
<1>3. PICK h : h \in FoldsOf(f, q)
  BY <1>2, FoldExists
<1>4. \A s \in SUBSET q : g[s] = FoldOf(g, f, s) /\ h[s] = FoldOf(h, f, s)
  BY <1>1, <1>2, <1>3 DEF FoldsOf
<1>5. g[q] = h[q]
  BY <1>2, <1>4, FoldsAgree
<1>6. Sum(f, S) = g[S] /\ Sum(f, q) = h[q]
  BY <1>1, <1>2, <1>3, SumIsFold
<1>7. g[S] = f[Picked(S)] + g[q]
  BY <1>1 DEF FoldsOf, FoldOf, q
<1> QED  BY <1>5, <1>6, <1>7 DEF q

(* Any element may be taken first: the sum is its term and the sum of the   *)
(* others.                                                                  *)
LEMMA SumRemove ==
  ASSUME NEW S, IsFiniteSet(S), NEW f, \A x \in S : f[x] \in Int, NEW x \in S
  PROVE  Sum(f, S) = f[x] + Sum(f, S \ {x})
<1> DEFINE Bad(s) == \E y \in s : Sum(f, s) # f[y] + Sum(f, s \ {y})
           T == {n \in Nat : \E s \in SUBSET S : Cardinality(s) = n /\ Bad(s)}
<1>1. SUFFICES ASSUME Bad(S) PROVE FALSE
  OBVIOUS
<1>2. Cardinality(S) \in T
  BY <1>1, FS_CardinalityType
<1>3. PICK n \in T : \A m \in T : n <= m
  BY <1>2, SmallestOne
<1>4. PICK s \in SUBSET S : Cardinality(s) = n /\ Bad(s)
  BY <1>3
<1>5. PICK y \in s : Sum(f, s) # f[y] + Sum(f, s \ {y})
  BY <1>4
<1> DEFINE p == Picked(s)
<1>6. /\ p \in s /\ IsFiniteSet(s) /\ Cardinality(s) = n /\ n \in Nat
      /\ Sum(f, s) = f[p] + Sum(f, s \ {p})
  BY <1>3, <1>4, <1>5, FS_Subset, SmallerSets, SumPicked
<1> HIDE DEF p, Bad
<1>7. y # p
  BY <1>5, <1>6
<1>8. \A z \in s : /\ IsFiniteSet(s \ {z}) /\ Cardinality(s \ {z}) = n - 1
                   /\ n - 1 \in Nat /\ s \ {z} \in SUBSET S /\ ~Bad(s \ {z})
  <2> TAKE z \in s
  <2>1. IsFiniteSet(s \ {z}) /\ Cardinality(s \ {z}) = n - 1
    BY <1>6, FS_RemoveElement
  <2>2. n - 1 \in Nat
    BY <2>1, FS_CardinalityType
  <2>3. n - 1 \notin T
    BY <1>3, <1>6, <2>2
  <2> QED  BY <2>1, <2>2, <2>3
<1>9. Sum(f, s \ {p}) = f[y] + Sum(f, (s \ {p}) \ {y})
  BY <1>5, <1>6, <1>7, <1>8 DEF Bad
<1>10. Sum(f, s \ {y}) = f[p] + Sum(f, (s \ {y}) \ {p})
  BY <1>5, <1>6, <1>7, <1>8 DEF Bad
<1>11. (s \ {y}) \ {p} = (s \ {p}) \ {y}
  OBVIOUS
<1>12. /\ f[p] \in Int /\ f[y] \in Int
       /\ Sum(f, (s \ {p}) \ {y}) \in Int
  <2>1. IsFiniteSet((s \ {p}) \ {y}) /\ (s \ {p}) \ {y} \subseteq S
    BY <1>6, FS_Subset
  <2> QED  BY <1>4, <1>5, <1>6, <2>1, SumType
<1>13. Sum(f, s) = f[p] + (f[y] + Sum(f, (s \ {p}) \ {y}))
  BY <1>6, <1>9
<1>14. f[y] + Sum(f, s \ {y}) = f[y] + (f[p] + Sum(f, (s \ {p}) \ {y}))
  BY <1>10, <1>11
<1>15. f[p] + (f[y] + Sum(f, (s \ {p}) \ {y})) = f[y] + (f[p] + Sum(f, (s \ {p}) \ {y}))
  BY <1>12
<1> QED  BY <1>5, <1>13, <1>14, <1>15

(* One more element adds its term.                                          *)
LEMMA SumAdd ==
  ASSUME NEW S, IsFiniteSet(S), NEW x, x \notin S,
         NEW f, \A y \in S \cup {x} : f[y] \in Int
  PROVE  Sum(f, S \cup {x}) = Sum(f, S) + f[x]
<1>1. IsFiniteSet(S \cup {x}) /\ (S \cup {x}) \ {x} = S
  BY FS_AddElement
<1>2. Sum(f, S \cup {x}) = f[x] + Sum(f, S)
  BY <1>1, SumRemove
<1> QED  BY <1>2, SumType

(* A change of one term changes the sum by as much.                         *)
LEMMA SumChange ==
  ASSUME NEW S, IsFiniteSet(S), NEW x \in S, NEW f, NEW e,
         \A y \in S : f[y] \in Int /\ e[y] \in Int,
         \A y \in S \ {x} : e[y] = f[y]
  PROVE  Sum(e, S) = Sum(f, S) - f[x] + e[x]
<1>1. IsFiniteSet(S \ {x})
  BY FS_Subset
<1>2. Sum(e, S \ {x}) = Sum(f, S \ {x}) /\ Sum(f, S \ {x}) \in Int
  BY <1>1, SumSame, SumType
<1>3. /\ Sum(f, S) = f[x] + Sum(f, S \ {x})
      /\ Sum(e, S) = e[x] + Sum(e, S \ {x})
  BY SumRemove
<1> QED  BY <1>2, <1>3

(* A sum of natural numbers is one, and no less than any of its terms.      *)
LEMMA SumNat ==
  ASSUME NEW S, IsFiniteSet(S), NEW f, \A x \in S : f[x] \in Nat
  PROVE  Sum(f, S) \in Nat /\ \A x \in S : f[x] <= Sum(f, S)
<1> DEFINE T == {n \in Nat : \E s \in SUBSET S : Cardinality(s) = n /\ Sum(f, s) \notin Nat}
<1>1. \A s \in SUBSET S : Sum(f, s) \in Nat
  <2> SUFFICES ASSUME NEW r \in SUBSET S, Sum(f, r) \notin Nat PROVE FALSE
    OBVIOUS
  <2>1. Cardinality(r) \in T
    BY FS_Subset, FS_CardinalityType
  <2>2. PICK n \in T : \A m \in T : n <= m
    BY <2>1, SmallestOne
  <2>3. PICK s \in SUBSET S : Cardinality(s) = n /\ Sum(f, s) \notin Nat
    BY <2>2
  <2>4. IsFiniteSet(s) /\ s # {}
    <3>1. Sum(f, {}) \in Nat
      BY SumEmpty
    <3> QED  BY <2>3, <3>1, FS_Subset
  <2> DEFINE q == s \ {Picked(s)}
  <2>5. /\ Picked(s) \in S /\ q \in SUBSET S
        /\ Cardinality(q) \in Nat /\ Cardinality(q) < n
    BY <2>3, <2>4, SmallerSets
  <2>6. Sum(f, s) = f[Picked(s)] + Sum(f, q)
    BY <2>4, SumPicked
  <2>7. Cardinality(q) \notin T
    <3>1. n \in Nat
      BY <2>2
    <3> HIDE DEF q, T
    <3> QED  BY <2>2, <2>5, <3>1
  <2> HIDE DEF q
  <2>8. Sum(f, q) \in Nat
    BY <2>5, <2>7
  <2>9. f[Picked(s)] \in Nat
    BY <2>5
  <2> QED  BY <2>3, <2>6, <2>8, <2>9
<1>2. ASSUME NEW x \in S PROVE f[x] <= Sum(f, S)
  <2>1. Sum(f, S) = f[x] + Sum(f, S \ {x}) /\ Sum(f, S \ {x}) \in Nat /\ f[x] \in Nat
    BY <1>1, SumRemove
  <2> QED  BY <2>1
<1> QED  BY <1>1, <1>2

(* A sum of zeros is zero.                                                  *)
LEMMA SumZero ==
  ASSUME NEW S, IsFiniteSet(S), NEW f, \A x \in S : f[x] = 0
  PROVE  Sum(f, S) = 0
<1> DEFINE T == {n \in Nat : \E s \in SUBSET S : Cardinality(s) = n /\ Sum(f, s) # 0}
<1> SUFFICES ASSUME Sum(f, S) # 0 PROVE FALSE
  OBVIOUS
<1>1. Cardinality(S) \in T
  BY FS_CardinalityType
<1>2. PICK n \in T : \A m \in T : n <= m
  BY <1>1, SmallestOne
<1>3. PICK s \in SUBSET S : Cardinality(s) = n /\ Sum(f, s) # 0
  BY <1>2
<1>4. IsFiniteSet(s) /\ s # {}
  <2>1. Sum(f, {}) = 0
    BY SumEmpty
  <2> QED  BY <1>3, <2>1, FS_Subset
<1> DEFINE q == s \ {Picked(s)}
<1>5. /\ Picked(s) \in S /\ q \in SUBSET S
      /\ Cardinality(q) \in Nat /\ Cardinality(q) < n
  BY <1>3, <1>4, SmallerSets
<1>6. Sum(f, s) = f[Picked(s)] + Sum(f, q)
  BY <1>4, SumPicked
<1>7. Cardinality(q) \notin T
  <2>1. n \in Nat
    BY <1>2
  <2> HIDE DEF q, T
  <2> QED  BY <1>2, <1>5, <2>1
<1> HIDE DEF q
<1>8. Sum(f, q) = 0
  BY <1>5, <1>7
<1> QED  BY <1>3, <1>5, <1>6, <1>8

(* How many elements of S are in a set that changes at x only.              *)
LEMMA CountChange ==
  ASSUME NEW S, IsFiniteSet(S), NEW x \in S,
         NEW A \in SUBSET S, NEW B \in SUBSET S,
         \A y \in S \ {x} : y \in B <=> y \in A
  PROVE  /\ Cardinality(A) \in Nat /\ Cardinality(B) \in Nat
         /\ (x \in A <=> x \in B) => Cardinality(B) = Cardinality(A)
         /\ x \in A /\ x \notin B => Cardinality(B) = Cardinality(A) - 1
         /\ x \notin A /\ x \in B => Cardinality(B) = Cardinality(A) + 1
<1>1. IsFiniteSet(A) /\ IsFiniteSet(B) /\ Cardinality(A) \in Nat /\ Cardinality(B) \in Nat
  BY FS_Subset, FS_CardinalityType
<1>2. CASE x \in A <=> x \in B
  <2>1. A = B
    BY <1>2
  <2> QED  BY <1>1, <1>2, <2>1
<1>3. CASE x \in A /\ x \notin B
  <2>1. B = A \ {x}
    BY <1>3
  <2>2. Cardinality(B) = Cardinality(A) - 1
    BY <1>1, <1>3, <2>1, FS_RemoveElement
  <2> QED  BY <1>1, <1>3, <2>2
<1>4. CASE x \notin A /\ x \in B
  <2>1. B = A \cup {x}
    BY <1>4
  <2>2. Cardinality(B) = Cardinality(A) + 1
    BY <1>1, <1>4, <2>1, FS_AddElement
  <2> QED  BY <1>1, <1>4, <2>2
<1> QED  BY <1>2, <1>3, <1>4
===============================================================================
