------------------------- MODULE QualityScanProofs -------------------------
(***************************************************************************)
(* Proofs about the quality workloads: that a scan audits what its options *)
(* promise (the modules of a code scan shared among the repositories, the  *)
(* posts of a blog once each, sound pools of the benchmark), that a report *)
(* tells its audits, and that rankings are scored fairly, for every list   *)
(* of files, corpus, cap, shuffle and reply.                               *)
(*                                                                         *)
(* What a scan lists is put in order by sorting: lists are ordered by rank *)
(* (Ranks, InOrder), and the deal of code modules by turns takes a front   *)
(* of that order, which is fair among repositories (FrontIsFair).          *)
(***************************************************************************)
EXTENDS QualityScan, SequenceTheorems, FiniteSetTheorems, WellFoundedInduction, TLAPS

-----------------------------------------------------------------------------
(* Induction                                                               *)

LEMMA LeastNat ==
  ASSUME NEW S \in SUBSET Nat, S # {} PROVE \E x \in S : \A y \in S : x <= y
<1> DEFINE R == {ss \in Nat \X Nat : ss[1] < ss[2]}
<1>1. IsWellFoundedOn(R, Nat)
  BY NatLessThanWellFounded DEF OpToRel
<1>2. \A x, y \in Nat : <<y, x>> \in R <=> y < x
  OBVIOUS
<1> HIDE DEF R
<1>3. PICK x \in S : \A y \in S : ~(<<y, x>> \in R)
  BY <1>1, WFMin
<1>4. ASSUME NEW y \in S PROVE x <= y
  <2>1. x \in Nat /\ y \in Nat
    OBVIOUS
  <2>2. ~(y < x)
    BY <1>2, <1>3, <2>1
  <2> QED
    BY <2>1, <2>2
<1> QED
  BY <1>4

\* A set of numbers that has 0 and the successor of each has them all.
LEMMA AllNats ==
  ASSUME NEW S, 0 \in S, \A n \in Nat : n \in S => n + 1 \in S
  PROVE  \A n \in Nat : n \in S
<1> DEFINE Bad == {n \in Nat : n \notin S}
<1>1. SUFFICES ASSUME Bad # {} PROVE FALSE
  OBVIOUS
<1>2. PICK n \in Bad : \A m \in Bad : n <= m
  BY <1>1, LeastNat
<1>3. n \in Nat /\ n # 0 /\ n - 1 \in Nat
  BY <1>2
<1>4. n - 1 \in S
  BY <1>2, <1>3
<1>5. (n - 1) + 1 = n
  BY <1>3
<1> QED
  BY <1>2, <1>3, <1>4, <1>5

-----------------------------------------------------------------------------
(* Sums over finite sets                                                   *)

AnyOf(S) == CHOOSE k \in S : TRUE

Sums(f, D, w) ==
  f = [S \in SUBSET D |-> IF S = {} THEN 0 ELSE w[AnyOf(S)] + f[S \ {AnyOf(S)}]]

LEMMA SomeLeft ==
  ASSUME NEW S, IsFiniteSet(S), S # {}
  PROVE  /\ AnyOf(S) \in S /\ IsFiniteSet(S \ {AnyOf(S)})
         /\ Cardinality(S \ {AnyOf(S)}) = Cardinality(S) - 1
<1>1. AnyOf(S) \in S
  BY DEF AnyOf
<1> QED
  BY <1>1, FS_RemoveElement

LEMMA SumsExist == ASSUME NEW D, IsFiniteSet(D), NEW w PROVE \E f : Sums(f, D, w)
<1> DEFINE Upto(n) == {S \in SUBSET D : Cardinality(S) <= n}
           Sum(f, n) == f = [S \in Upto(n) |-> IF S = {} THEN 0 ELSE w[AnyOf(S)] + f[S \ {AnyOf(S)}]]
           N == {n \in Nat : \E f : Sum(f, n)}
<1>1. \A S \in SUBSET D : IsFiniteSet(S) /\ Cardinality(S) \in Nat /\ Cardinality(S) <= Cardinality(D)
  BY FS_Subset, FS_CardinalityType
<1>2. \A S \in SUBSET D : Cardinality(S) <= 0 => S = {}
  BY <1>1, FS_EmptySet
<1>3. \A S \in SUBSET D : S # {} => /\ S \ {AnyOf(S)} \in SUBSET D
                                    /\ Cardinality(S \ {AnyOf(S)}) = Cardinality(S) - 1
  BY <1>1, SomeLeft
<1>4. 0 \in N
  <2> DEFINE f == [S \in Upto(0) |-> 0]
  <2>1. f = [S \in Upto(0) |-> IF S = {} THEN 0 ELSE w[AnyOf(S)] + f[S \ {AnyOf(S)}]]
    BY <1>2
  <2> HIDE DEF f
  <2> QED
    BY <2>1
<1>5. ASSUME NEW n \in Nat, n \in N PROVE n + 1 \in N
  <2>1. PICK f : Sum(f, n)
    BY <1>5
  <2> DEFINE g == [S \in Upto(n + 1) |-> IF S = {} THEN 0 ELSE w[AnyOf(S)] + f[S \ {AnyOf(S)}]]
  <2>2. ASSUME NEW S \in Upto(n) PROVE S \in Upto(n + 1) /\ g[S] = f[S]
    <3>1. S \in SUBSET D /\ Cardinality(S) \in Nat /\ Cardinality(S) <= n + 1
      BY <1>1
    <3>2. f[S] = IF S = {} THEN 0 ELSE w[AnyOf(S)] + f[S \ {AnyOf(S)}]
      BY <2>1
    <3> QED
      BY <3>1, <3>2
  <2>3. ASSUME NEW S \in Upto(n + 1), S # {} PROVE S \ {AnyOf(S)} \in Upto(n)
    BY <1>1, <1>3, <2>3
  <2> HIDE DEF Upto
  <2>4. g = [S \in Upto(n + 1) |-> IF S = {} THEN 0 ELSE w[AnyOf(S)] + g[S \ {AnyOf(S)}]]
    BY <2>2, <2>3
  <2> HIDE DEF g
  <2>5. Sum(g, n + 1)
    BY <2>4
  <2> HIDE DEF Sum
  <2> QED
    BY <2>5
<1> HIDE DEF N
<1>6. \A n \in Nat : n \in N
  BY <1>4, <1>5, AllNats
<1>7. Cardinality(D) \in N
  BY <1>1, <1>6
<1>8. PICK f : Sum(f, Cardinality(D))
  BY <1>7 DEF N
<1>9. Upto(Cardinality(D)) = SUBSET D
  BY <1>1
<1> QED
  BY <1>8, <1>9 DEF Sums

\* Any element may be taken off.
LEMMA SumsOff ==
  ASSUME NEW D, NEW w, NEW f, Sums(f, D, w), IsFiniteSet(D), \A k \in D : w[k] \in Nat
  PROVE  \A S \in SUBSET D : f[S] \in Nat /\ \A k \in S : f[S] = w[k] + f[S \ {k}]
<1> DEFINE Off(S) == f[S] \in Nat /\ \A k \in S : f[S] = w[k] + f[S \ {k}]
           N == {n \in Nat : \A S \in SUBSET D : Cardinality(S) <= n => Off(S)}
<1>1. \A S \in SUBSET D : IsFiniteSet(S) /\ Cardinality(S) \in Nat
  BY FS_Subset, FS_CardinalityType
<1>2. \A S \in SUBSET D : f[S] = IF S = {} THEN 0 ELSE w[AnyOf(S)] + f[S \ {AnyOf(S)}]
  BY DEF Sums
<1>3. 0 \in N
  <2>1. ASSUME NEW S \in SUBSET D, Cardinality(S) <= 0 PROVE Off(S)
    <3>1. S = {}
      <4>1. Cardinality(S) = 0
        BY <1>1, <2>1
      <4> QED
        BY <1>1, <4>1, FS_EmptySet
    <3>2. f[S] = 0
      BY <1>2, <3>1
    <3> QED
      BY <3>1, <3>2
  <2> QED
    BY <2>1
<1>4. ASSUME NEW n \in Nat, n \in N PROVE n + 1 \in N
  <2>1. ASSUME NEW S \in SUBSET D, S # {}, Cardinality(S) <= n + 1 PROVE Off(S)
    <3> DEFINE j == AnyOf(S)
    <3>1. S # {}
      BY <2>1
    <3>2. j \in S
      BY <1>1, <3>1, SomeLeft
    <3>3. ASSUME NEW k \in S PROVE /\ S \ {k} \in SUBSET D /\ Cardinality(S \ {k}) <= n
                                   /\ Off(S \ {k})
      <4>1. S \ {k} \in SUBSET D /\ Cardinality(S \ {k}) = Cardinality(S) - 1
        BY <1>1, FS_RemoveElement
      <4>2. Cardinality(S \ {k}) <= n
        BY <1>1, <2>1, <4>1
      <4> QED
        BY <1>4, <4>1, <4>2
    <3>4. f[S] = w[j] + f[S \ {j}]
      BY <1>2, <3>1
    <3> HIDE DEF j
    <3>5. w[j] \in Nat /\ f[S \ {j}] \in Nat
      BY <3>2, <3>3
    <3>6. f[S] \in Nat
      BY <3>4, <3>5
    <3>7. ASSUME NEW k \in S PROVE f[S] = w[k] + f[S \ {k}]
      <4>1. CASE k = j
        BY <3>4, <4>1
      <4>2. CASE k # j
        <5>1. k \in S \ {j} /\ j \in S \ {k} /\ (S \ {j}) \ {k} = (S \ {k}) \ {j}
          BY <3>2, <4>2
        <5>2. f[S \ {j}] = w[k] + f[(S \ {j}) \ {k}]
          BY <3>2, <3>3, <5>1
        <5>3. f[S \ {k}] = w[j] + f[(S \ {k}) \ {j}]
          BY <3>3, <5>1
        <5>4. w[k] \in Nat /\ w[j] \in Nat /\ f[(S \ {k}) \ {j}] \in Nat
          <6>1. (S \ {k}) \ {j} \in SUBSET D /\ Cardinality((S \ {k}) \ {j}) <= n
            <7>1. /\ S \ {k} \in SUBSET D /\ Cardinality(S \ {k}) <= n /\ IsFiniteSet(S \ {k})
                  /\ Cardinality(S \ {k}) \in Nat
              BY <1>1, <3>3
            <7>2. Cardinality((S \ {k}) \ {j}) = Cardinality(S \ {k}) - 1
              BY <5>1, <7>1, FS_RemoveElement
            <7> QED
              BY <7>1, <7>2
          <6>2. Off((S \ {k}) \ {j})
            BY <1>4, <6>1
          <6> QED
            <7>1. w[k] \in Nat
              OBVIOUS
            <7> QED
              BY <3>5, <6>2, <7>1
        <5>5. f[S \ {j}] = w[k] + f[(S \ {k}) \ {j}]
          BY <5>1, <5>2
        <5> DEFINE a == f[(S \ {k}) \ {j}]
        <5>6. /\ f[S] = w[j] + f[S \ {j}] /\ f[S \ {j}] = w[k] + a /\ f[S \ {k}] = w[j] + a
              /\ w[k] \in Nat /\ w[j] \in Nat /\ a \in Nat
          BY <3>4, <5>3, <5>4, <5>5
        <5> HIDE DEF a
        <5> QED
          BY <5>6
      <4> QED
        BY <4>1, <4>2
    <3> QED
      BY <3>6, <3>7
  <2>2. Off({})
    <3>1. {} \in SUBSET D
      OBVIOUS
    <3>2. f[{}] = 0
      BY <1>2, <3>1
    <3> QED
      BY <3>2
  <2> HIDE DEF Off
  <2>3. \A S \in SUBSET D : Cardinality(S) <= n + 1 => Off(S)
    BY <2>1, <2>2
  <2> QED
    BY <2>3
<1> HIDE DEF N
<1>5. \A S \in SUBSET D : Cardinality(S) \in N
  BY <1>1, <1>3, <1>4, AllNats
<1> QED
  BY <1>5 DEF N

-----------------------------------------------------------------------------
(* The least and the greatest of some numbers                              *)

LEMMA MinOfTwo ==
  ASSUME NEW a \in Nat, NEW b \in Nat
  PROVE  Min({a, b}) \in Nat /\ Min({a, b}) = IF a <= b THEN a ELSE b
<1> DEFINE m == IF a <= b THEN a ELSE b
<1>1. m \in {a, b} /\ \A y \in {a, b} : m <= y
  OBVIOUS
<1>2. \A x \in {a, b} : (\A y \in {a, b} : x <= y) => x = m
  OBVIOUS
<1>3. m \in Nat
  OBVIOUS
<1> HIDE DEF m
<1>4. Min({a, b}) = m
  BY <1>1, <1>2 DEF Min
<1> QED
  BY <1>3, <1>4 DEF m

LEMMA MaxOfTwo ==
  ASSUME NEW a \in Int, NEW b \in Int
  PROVE  Max({a, b}) \in Int /\ Max({a, b}) = IF a <= b THEN b ELSE a
<1> DEFINE m == IF a <= b THEN b ELSE a
<1>1. m \in {a, b} /\ \A y \in {a, b} : m >= y
  OBVIOUS
<1>2. \A x \in {a, b} : (\A y \in {a, b} : x >= y) => x = m
  OBVIOUS
<1>3. m \in Int
  OBVIOUS
<1> HIDE DEF m
<1>4. Max({a, b}) = m
  BY <1>1, <1>2 DEF Max
<1> QED
  BY <1>3, <1>4 DEF m

LEMMA MinOfSome ==
  ASSUME NEW S \in SUBSET Nat, S # {}
  PROVE  Min(S) \in S /\ \A y \in S : Min(S) <= y
BY LeastNat DEF Min

LEMMA MaxOfSome ==
  ASSUME NEW n \in Nat, NEW S \in SUBSET (1 .. n), S # {}
  PROVE  Max(S) \in S /\ \A y \in S : Max(S) >= y
<1> DEFINE T == {k \in 0 .. n : n - k \in S}
<1>1. T \in SUBSET Nat /\ T # {}
  <2>1. PICK s \in S : TRUE
    OBVIOUS
  <2>2. n - s \in 0 .. n /\ n - (n - s) = s
    OBVIOUS
  <2>3. n - (n - s) \in S
    BY <2>1, <2>2
  <2>4. n - s \in T
    BY <2>2, <2>3
  <2>5. \A k \in T : k \in Nat
    OBVIOUS
  <2> HIDE DEF T
  <2> QED
    BY <2>4, <2>5
<1>2. PICK k \in T : \A j \in T : k <= j
  BY <1>1, LeastNat
<1>3. n - k \in S
  BY <1>2
<1>4. ASSUME NEW y \in S PROVE n - k >= y
  <2>1. n - y \in 0 .. n /\ n - (n - y) = y
    OBVIOUS
  <2>2. n - y \in T
    BY <2>1
  <2> QED
    BY <1>2, <2>1, <2>2
<1> QED
  BY <1>3, <1>4 DEF Max

\* The front of a sequence.
LEMMA AtMostShape ==
  ASSUME NEW X, NEW seq \in Seq(X), NEW n \in Nat, NEW front, front = AtMost(seq, n)
  PROVE  /\ front \in Seq(X) /\ Len(front) = IF n <= Len(seq) THEN n ELSE Len(seq)
         /\ \A i \in 1 .. Len(front) : i \in 1 .. Len(seq) /\ front[i] = seq[i]
<1> DEFINE m == IF n <= Len(seq) THEN n ELSE Len(seq)
<1>1. Len(seq) \in Nat
  OBVIOUS
<1>2. Min({n, Len(seq)}) = m
  BY <1>1, MinOfTwo
<1>3. m \in Nat /\ m <= Len(seq)
  BY <1>1
<1>4. front = SubSeq(seq, 1, m)
  BY <1>2 DEF AtMost
<1> HIDE DEF m
<1>5. front \in Seq(X) /\ Len(front) = m /\ \A i \in 1 .. m : front[i] = seq[i]
  BY <1>1, <1>3, <1>4
<1> QED
  BY <1>3, <1>5 DEF m

-----------------------------------------------------------------------------
(* Sorting                                                                 *)

\* A strict total order, as the elements that come before each.
IsOrder(below, S) ==
  /\ below \in [S -> SUBSET S]
  /\ \A x \in S : x \notin below[x]
  /\ \A x, y \in S : x \in below[y] => below[x] \subseteq below[y]
  /\ \A x, y \in S : x # y => x \in below[y] \/ y \in below[x]

LEMMA Ranks ==
  ASSUME NEW S, IsFiniteSet(S), NEW below, IsOrder(below, S)
  PROVE  /\ Cardinality(S) \in Nat
         /\ \A x \in S : Cardinality(below[x]) \in 0 .. Cardinality(S) - 1
         /\ \A x, y \in S : x \in below[y] <=> Cardinality(below[x]) < Cardinality(below[y])
         /\ \A x, y \in S : Cardinality(below[x]) = Cardinality(below[y]) => x = y
         /\ \A i \in 1 .. Cardinality(S) : \E x \in S : Cardinality(below[x]) = i - 1
<1> DEFINE c == Cardinality(S)
           r(x) == Cardinality(below[x])
<1>1. c \in Nat
  BY FS_CardinalityType
<1>2. ASSUME NEW x \in S PROVE r(x) \in Nat /\ r(x) <= c - 1 /\ IsFiniteSet(below[x])
  <2>1. IsFiniteSet(S \ {x}) /\ Cardinality(S \ {x}) = c - 1
    BY FS_RemoveElement
  <2>2. below[x] \in SUBSET (S \ {x})
    BY DEF IsOrder
  <2> QED
    BY <2>1, <2>2, FS_Subset, FS_CardinalityType
<1>3. ASSUME NEW x \in S, NEW y \in S, x \in below[y] PROVE r(x) < r(y)
  <2>1. below[x] \in SUBSET (below[y] \ {x})
    BY <1>3 DEF IsOrder
  <2>2. IsFiniteSet(below[y] \ {x}) /\ Cardinality(below[y] \ {x}) = r(y) - 1
    BY <1>2, <1>3, FS_RemoveElement
  <2>3. r(x) <= r(y) - 1
    BY <2>1, <2>2, FS_Subset
  <2> QED
    BY <1>2, <2>3
<1>4. ASSUME NEW x \in S, NEW y \in S, r(x) <= r(y), x # y PROVE x \in below[y]
  <2>1. CASE y \in below[x]
    BY <1>2, <1>3, <1>4, <2>1
  <2> QED
    BY <1>4, <2>1 DEF IsOrder
<1>5. \A x, y \in S : x \in below[y] <=> r(x) < r(y)
  <2>1. ASSUME NEW x \in S, NEW y \in S, r(x) < r(y) PROVE x \in below[y]
    <3>1. r(x) <= r(y) /\ x # y
      BY <1>2, <2>1
    <3> QED
      BY <1>4, <3>1
  <2> QED
    BY <1>3, <2>1
<1>6. \A x, y \in S : r(x) = r(y) => x = y
  <2>1. ASSUME NEW x \in S, NEW y \in S, r(x) = r(y), x # y PROVE FALSE
    <3>1. r(x) <= r(y) /\ ~(r(x) < r(y))
      BY <1>2, <2>1
    <3> QED
      BY <1>3, <1>4, <2>1, <3>1
  <2> QED
    BY <2>1
<1> DEFINE place == [x \in S |-> r(x) + 1]
<1>7. \A x \in S : place[x] = r(x) + 1
  OBVIOUS
<1>8. place \in [S -> 1 .. c]
  <2>1. \A x \in S : r(x) + 1 \in 1 .. c
    BY <1>1, <1>2
  <2> QED
    BY <2>1
<1>9. DOMAIN place = S
  OBVIOUS
<1> HIDE DEF place, c, r
<1>10. place \in Injection(S, 1 .. c)
  <2>1. ASSUME NEW x \in S, NEW y \in S, place[x] = place[y] PROVE x = y
    <3>1. r(x) = r(y)
      BY <1>2, <1>7, <2>1
    <3> QED
      BY <1>6, <3>1
  <2> QED
    BY <1>8, <1>9, <2>1 DEF Injection, IsInjective
<1>11. IsFiniteSet(1 .. c) /\ Cardinality(1 .. c) = c
  BY <1>1, FS_Interval
<1>12. place \in Surjection(S, 1 .. c)
  BY <1>10, <1>11, FS_Injection DEF c
<1>13. ASSUME NEW i \in 1 .. c PROVE \E x \in S : r(x) = i - 1
  <2>1. PICK x \in S : place[x] = i
    BY <1>12 DEF Surjection
  <2> QED
    BY <1>2, <1>7, <2>1
<1>14. \A x \in S : r(x) \in 0 .. c - 1
  BY <1>1, <1>2
<1> QED
  BY <1>1, <1>5, <1>6, <1>13, <1>14 DEF c, r

\* Each element is at the place that its predecessors leave it.
Lists(f, S, below) ==
  /\ f \in [1 .. Cardinality(S) -> S]
  /\ \A i \in 1 .. Cardinality(S) : Cardinality(below[f[i]]) = i - 1

LEMMA InOrder ==
  ASSUME NEW S, IsFiniteSet(S), NEW below, IsOrder(below, S), NEW f, Lists(f, S, below)
  PROVE  /\ f \in Seq(S) /\ Len(f) = Cardinality(S) /\ DOMAIN f = 1 .. Len(f) /\ Len(f) \in Nat
         /\ \A i, j \in 1 .. Len(f) : f[i] = f[j] => i = j
         /\ \A x \in S : \E i \in 1 .. Len(f) : f[i] = x
         /\ \A i, j \in 1 .. Len(f) : i < j <=> f[i] \in below[f[j]]
<1> DEFINE c == Cardinality(S)
<1>1. c \in Nat
  BY FS_CardinalityType
<1>2. f \in [1 .. c -> S] /\ \A i \in 1 .. c : f[i] \in S /\ Cardinality(below[f[i]]) = i - 1
  BY DEF Lists
<1>3. f \in Seq(S) /\ Len(f) = c /\ DOMAIN f = 1 .. c
  BY <1>1, <1>2
<1>4. \A x \in S : Cardinality(below[x]) \in 0 .. c - 1
  BY Ranks
<1> HIDE DEF c
<1>5. ASSUME NEW i \in 1 .. c, NEW j \in 1 .. c, f[i] = f[j] PROVE i = j
  <2>1. i - 1 = j - 1
    BY <1>2, <1>5
  <2> QED
    BY <2>1
<1>6. ASSUME NEW x \in S PROVE \E i \in 1 .. c : f[i] = x
  <2> DEFINE k == Cardinality(below[x])
  <2>1. k \in 0 .. c - 1
    BY <1>4
  <2> HIDE DEF k
  <2>2. k + 1 \in 1 .. c /\ (k + 1) - 1 = k
    BY <1>1, <2>1
  <2>3. f[k + 1] \in S /\ Cardinality(below[f[k + 1]]) = Cardinality(below[x])
    BY <1>2, <2>2 DEF k
  <2>4. f[k + 1] = x
    BY <2>3, Ranks
  <2> QED
    BY <2>2, <2>4
<1>7. ASSUME NEW i \in 1 .. c, NEW j \in 1 .. c PROVE i < j <=> f[i] \in below[f[j]]
  <2>1. f[i] \in below[f[j]] <=> Cardinality(below[f[i]]) < Cardinality(below[f[j]])
    BY <1>2, Ranks
  <2>2. Cardinality(below[f[i]]) = i - 1 /\ Cardinality(below[f[j]]) = j - 1
    BY <1>2
  <2>3. i - 1 < j - 1 <=> i < j
    OBVIOUS
  <2> QED
    BY <2>1, <2>2, <2>3
<1> QED
  BY <1>1, <1>3, <1>5, <1>6, <1>7 DEF c

Numbers(S) == S \subseteq Nat
Places(S) == S \subseteq Nat \X Nat

\* An order, from its laws.
LEMMA MadeOrder ==
  ASSUME NEW S, NEW below, below \in [S -> SUBSET S], \A x \in S : x \notin below[x],
         \A x, y, z \in S : z \in below[x] /\ x \in below[y] => z \in below[y],
         \A x, y \in S : x # y => x \in below[y] \/ y \in below[x]
  PROVE  IsOrder(below, S)
<1>1. ASSUME NEW x \in S, NEW y \in S, x \in below[y] PROVE below[x] \subseteq below[y]
  BY <1>1
<1> QED
  BY <1>1 DEF IsOrder

LEMMA AscendingLists ==
  ASSUME NEW S, Numbers(S), IsFiniteSet(S), NEW f, f = Ascending(S),
         NEW below \in [S -> SUBSET S], \A x \in S : below[x] = {y \in S : (y < x)}
  PROVE  IsOrder(below, S) /\ Lists(f, S, below)
<1>1. \A s, t \in S : s # t => (s < t) \/ (t < s)
  BY DEF Numbers
<1>2. \A s \in S : ~(s < s)
  BY DEF Numbers
<1>3. \A s, t, u \in S : (s < t) /\ (t < u) => (s < u)
  BY DEF Numbers
<1>4. \A x \in S : below[x] = {y \in S : (y < x)}
  OBVIOUS
<1>5. IsOrder(below, S)
  <2>1. below \in [S -> SUBSET S]
    OBVIOUS
  <2>2. \A x, y \in S : y \in below[x] <=> (y < x)
    BY <1>4
  <2>3. \A x \in S : x \notin below[x]
    BY <1>2, <2>2
  <2>4. \A x, y, z \in S : z \in below[x] /\ x \in below[y] => z \in below[y]
    BY <1>3, <2>2
  <2>5. \A x, y \in S : x # y => x \in below[y] \/ y \in below[x]
    BY <1>1, <2>2
  <2> QED
    BY <2>1, <2>3, <2>4, <2>5, MadeOrder
<1>6. f = [i \in 1 .. Cardinality(S) |-> CHOOSE x \in S : Cardinality({y \in S : (y < x)}) = i - 1]
  BY DEF Ascending, Sorted
<1>7. ASSUME NEW i \in 1 .. Cardinality(S) PROVE f[i] \in S /\ Cardinality(below[f[i]]) = i - 1
  <2>0. \A j \in 1 .. Cardinality(S) : \E x \in S : Cardinality(below[x]) = j - 1
    BY <1>5, Ranks
  <2>1. PICK x \in S : Cardinality(below[x]) = i - 1
    BY <2>0
  <2>2. Cardinality({y \in S : (y < x)}) = i - 1
    BY <1>4, <2>1
  <2>3. f[i] = CHOOSE z \in S : Cardinality({y \in S : (y < z)}) = i - 1
    BY <1>6
  <2>4. f[i] \in S /\ Cardinality({y \in S : (y < f[i])}) = i - 1
    BY <2>2, <2>3
  <2> QED
    BY <1>4, <2>4
<1> QED
  BY <1>5, <1>6, <1>7 DEF Lists

LEMMA AscendingShape ==
  ASSUME NEW S, Numbers(S), IsFiniteSet(S), NEW f, f = Ascending(S)
  PROVE  /\ f \in Seq(S) /\ Len(f) = Cardinality(S) /\ DOMAIN f = 1 .. Len(f) /\ Len(f) \in Nat
         /\ \A i, j \in 1 .. Len(f) : f[i] = f[j] => i = j
         /\ \A x \in S : \E i \in 1 .. Len(f) : f[i] = x
<1> DEFINE below == [x \in S |-> {y \in S : y < x}]
<1>1. IsOrder(below, S) /\ Lists(f, S, below)
  <2>1. below \in [S -> SUBSET S] /\ \A x \in S : below[x] = {y \in S : y < x}
    OBVIOUS
  <2> HIDE DEF below
  <2> QED
    BY <2>1, AscendingLists
<1> HIDE DEF below
<1> QED
  BY <1>1, InOrder

\* The turns are taken in order.
LEMMA TurnsLists ==
  ASSUME NEW S, Places(S), IsFiniteSet(S), NEW f, f = InTurns(S),
         NEW below \in [S -> SUBSET S], \A x \in S : below[x] = {y \in S : Sooner(y, x)}
  PROVE  IsOrder(below, S) /\ Lists(f, S, below)
<1>0. \A s \in S : s[1] \in Nat /\ s[2] \in Nat
  BY DEF Places
<1>1. \A s, t \in S : s # t => Sooner(s, t) \/ Sooner(t, s)
  <2>1. \A s, t \in S : s[1] = t[1] /\ s[2] = t[2] => s = t
    BY DEF Places
  <2> QED
    BY <1>0, <2>1 DEF Sooner
<1>2. \A s \in S : ~Sooner(s, s)
  BY <1>0 DEF Sooner
<1>3. \A s, t, u \in S : Sooner(s, t) /\ Sooner(t, u) => Sooner(s, u)
  BY <1>0 DEF Sooner
<1>4. \A x \in S : below[x] = {y \in S : Sooner(y, x)}
  OBVIOUS
<1>5. IsOrder(below, S)
  <2>1. below \in [S -> SUBSET S]
    OBVIOUS
  <2>2. \A x, y \in S : y \in below[x] <=> Sooner(y, x)
    BY <1>4
  <2>3. \A x \in S : x \notin below[x]
    BY <1>2, <2>2
  <2>4. \A x, y, z \in S : z \in below[x] /\ x \in below[y] => z \in below[y]
    BY <1>3, <2>2
  <2>5. \A x, y \in S : x # y => x \in below[y] \/ y \in below[x]
    BY <1>1, <2>2
  <2> QED
    BY <2>1, <2>3, <2>4, <2>5, MadeOrder
<1>6. f = [i \in 1 .. Cardinality(S) |-> CHOOSE x \in S : Cardinality({y \in S : Sooner(y, x)}) = i - 1]
  BY DEF InTurns, Sorted
<1>7. ASSUME NEW i \in 1 .. Cardinality(S) PROVE f[i] \in S /\ Cardinality(below[f[i]]) = i - 1
  <2>0. \A j \in 1 .. Cardinality(S) : \E x \in S : Cardinality(below[x]) = j - 1
    BY <1>5, Ranks
  <2>1. PICK x \in S : Cardinality(below[x]) = i - 1
    BY <2>0
  <2>2. Cardinality({y \in S : Sooner(y, x)}) = i - 1
    BY <1>4, <2>1
  <2>3. f[i] = CHOOSE z \in S : Cardinality({y \in S : Sooner(y, z)}) = i - 1
    BY <1>6
  <2>4. f[i] \in S /\ Cardinality({y \in S : Sooner(y, f[i])}) = i - 1
    BY <2>2, <2>3
  <2> QED
    BY <1>4, <2>4
<1> QED
  BY <1>5, <1>6, <1>7 DEF Lists

LEMMA TurnsShape ==
  ASSUME NEW S, Places(S), IsFiniteSet(S), NEW f, f = InTurns(S)
  PROVE  /\ f \in Seq(S) /\ Len(f) = Cardinality(S) /\ DOMAIN f = 1 .. Len(f) /\ Len(f) \in Nat
         /\ \A i, j \in 1 .. Len(f) : f[i] = f[j] => i = j
         /\ \A x \in S : \E i \in 1 .. Len(f) : f[i] = x
         /\ \A i, j \in 1 .. Len(f) : i < j <=> Sooner(f[i], f[j])
<1> DEFINE below == [x \in S |-> {y \in S : Sooner(y, x)}]
<1>1. IsOrder(below, S) /\ Lists(f, S, below)
  <2>1. below \in [S -> SUBSET S] /\ \A x \in S : below[x] = {y \in S : Sooner(y, x)}
    OBVIOUS
  <2> HIDE DEF below
  <2> QED
    BY <2>1, TurnsLists
<1>2. \A x, y \in S : y \in below[x] <=> Sooner(y, x)
  OBVIOUS
<1> HIDE DEF below
<1>3. /\ f \in Seq(S) /\ Len(f) = Cardinality(S) /\ DOMAIN f = 1 .. Len(f) /\ Len(f) \in Nat
      /\ \A i, j \in 1 .. Len(f) : f[i] = f[j] => i = j
      /\ \A x \in S : \E i \in 1 .. Len(f) : f[i] = x
      /\ \A i, j \in 1 .. Len(f) : i < j <=> f[i] \in below[f[j]]
  BY <1>1, InOrder
<1>4. \A i \in 1 .. Len(f) : f[i] \in S
  BY <1>3
<1> QED
  BY <1>2, <1>3, <1>4

\* The largest modules come first; modules of one size differ in their ids.
LEMMA LargerLists ==
  ASSUME NEW S, IsFiniteSet(S), \A m \in S : m.loc \in Nat /\ m.id \in Nat,
         \A m, n \in S : m.loc = n.loc /\ m.id = n.id => m = n, NEW f, f = BySize(S),
         NEW below \in [S -> SUBSET S], \A x \in S : below[x] = {y \in S : Larger(y, x)}
  PROVE  IsOrder(below, S) /\ Lists(f, S, below)
<1>1. \A s, t \in S : s # t => Larger(s, t) \/ Larger(t, s)
  BY DEF Larger
<1>2. \A s \in S : ~Larger(s, s)
  BY DEF Larger
<1>3. \A s, t, u \in S : Larger(s, t) /\ Larger(t, u) => Larger(s, u)
  BY DEF Larger
<1>4. \A x \in S : below[x] = {y \in S : Larger(y, x)}
  OBVIOUS
<1>5. IsOrder(below, S)
  <2>1. below \in [S -> SUBSET S]
    OBVIOUS
  <2>2. \A x, y \in S : y \in below[x] <=> Larger(y, x)
    BY <1>4
  <2>3. \A x \in S : x \notin below[x]
    BY <1>2, <2>2
  <2>4. \A x, y, z \in S : z \in below[x] /\ x \in below[y] => z \in below[y]
    BY <1>3, <2>2
  <2>5. \A x, y \in S : x # y => x \in below[y] \/ y \in below[x]
    BY <1>1, <2>2
  <2> QED
    BY <2>1, <2>3, <2>4, <2>5, MadeOrder
<1>6. f = [i \in 1 .. Cardinality(S) |-> CHOOSE x \in S : Cardinality({y \in S : Larger(y, x)}) = i - 1]
  BY DEF BySize, Sorted
<1>7. ASSUME NEW i \in 1 .. Cardinality(S) PROVE f[i] \in S /\ Cardinality(below[f[i]]) = i - 1
  <2>0. \A j \in 1 .. Cardinality(S) : \E x \in S : Cardinality(below[x]) = j - 1
    BY <1>5, Ranks
  <2>1. PICK x \in S : Cardinality(below[x]) = i - 1
    BY <2>0
  <2>2. Cardinality({y \in S : Larger(y, x)}) = i - 1
    BY <1>4, <2>1
  <2>3. f[i] = CHOOSE z \in S : Cardinality({y \in S : Larger(y, z)}) = i - 1
    BY <1>6
  <2>4. f[i] \in S /\ Cardinality({y \in S : Larger(y, f[i])}) = i - 1
    BY <2>2, <2>3, ZenonT(60)
  <2> QED
    BY <1>4, <2>4
<1> QED
  BY <1>5, <1>6, <1>7 DEF Lists

LEMMA LargerShape ==
  ASSUME NEW S, IsFiniteSet(S), \A m \in S : m.loc \in Nat /\ m.id \in Nat,
         \A m, n \in S : m.loc = n.loc /\ m.id = n.id => m = n,
         NEW f, f = BySize(S)
  PROVE  /\ f \in Seq(S) /\ Len(f) = Cardinality(S) /\ DOMAIN f = 1 .. Len(f) /\ Len(f) \in Nat
         /\ \A i, j \in 1 .. Len(f) : f[i] = f[j] => i = j
         /\ \A x \in S : \E i \in 1 .. Len(f) : f[i] = x
         /\ \A i, j \in 1 .. Len(f) : i < j => f[j].loc <= f[i].loc
<1> DEFINE below == [x \in S |-> {y \in S : Larger(y, x)}]
<1>1. IsOrder(below, S) /\ Lists(f, S, below)
  <2>1. below \in [S -> SUBSET S] /\ \A x \in S : below[x] = {y \in S : Larger(y, x)}
    OBVIOUS
  <2> HIDE DEF below
  <2> QED
    BY <2>1, LargerLists
<1>2. \A x, y \in S : y \in below[x] => x.loc <= y.loc
  BY DEF Larger
<1> HIDE DEF below
<1>3. /\ f \in Seq(S) /\ Len(f) = Cardinality(S) /\ DOMAIN f = 1 .. Len(f) /\ Len(f) \in Nat
      /\ \A i, j \in 1 .. Len(f) : f[i] = f[j] => i = j
      /\ \A x \in S : \E i \in 1 .. Len(f) : f[i] = x
      /\ \A i, j \in 1 .. Len(f) : i < j <=> f[i] \in below[f[j]]
  BY <1>1, InOrder
<1>4. \A i \in 1 .. Len(f) : f[i] \in S
  BY <1>3
<1> QED
  BY <1>2, <1>3, <1>4

-----------------------------------------------------------------------------
(* What a lexical search finds                                             *)

Better(score, a, b) == score[a] > score[b] \/ (score[a] = score[b] /\ a < b)

LEMMA BestLists ==
  ASSUME NEW S, Numbers(S), IsFiniteSet(S), NEW score, \A d \in S : score[d] \in Nat, NEW f, f = ByScore(S, score),
         NEW below \in [S -> SUBSET S], \A x \in S : below[x] = {y \in S : Better(score, y, x)}
  PROVE  IsOrder(below, S) /\ Lists(f, S, below)
<1>1. \A s, t \in S : s # t => Better(score, s, t) \/ Better(score, t, s)
  BY DEF Better, Numbers
<1>2. \A s \in S : ~Better(score, s, s)
  BY DEF Better, Numbers
<1>3. \A s, t, u \in S : Better(score, s, t) /\ Better(score, t, u) => Better(score, s, u)
  BY DEF Better, Numbers
<1>4. \A x \in S : below[x] = {y \in S : Better(score, y, x)}
  OBVIOUS
<1>5. IsOrder(below, S)
  <2>1. below \in [S -> SUBSET S]
    OBVIOUS
  <2>2. \A x, y \in S : y \in below[x] <=> Better(score, y, x)
    BY <1>4
  <2>3. \A x \in S : x \notin below[x]
    BY <1>2, <2>2
  <2>4. \A x, y, z \in S : z \in below[x] /\ x \in below[y] => z \in below[y]
    BY <1>3, <2>2
  <2>5. \A x, y \in S : x # y => x \in below[y] \/ y \in below[x]
    BY <1>1, <2>2
  <2> QED
    BY <2>1, <2>3, <2>4, <2>5, MadeOrder
<1>6. f = [i \in 1 .. Cardinality(S) |-> CHOOSE x \in S : Cardinality({y \in S : Better(score, y, x)}) = i - 1]
  BY DEF ByScore, Sorted, Better
<1>7. ASSUME NEW i \in 1 .. Cardinality(S) PROVE f[i] \in S /\ Cardinality(below[f[i]]) = i - 1
  <2>0. \A j \in 1 .. Cardinality(S) : \E x \in S : Cardinality(below[x]) = j - 1
    BY <1>5, Ranks
  <2>1. PICK x \in S : Cardinality(below[x]) = i - 1
    BY <2>0
  <2>2. Cardinality({y \in S : Better(score, y, x)}) = i - 1
    BY <1>4, <2>1
  <2>3. f[i] = CHOOSE z \in S : Cardinality({y \in S : Better(score, y, z)}) = i - 1
    BY <1>6
  <2>4. f[i] \in S /\ Cardinality({y \in S : Better(score, y, f[i])}) = i - 1
    BY <2>2, <2>3
  <2> QED
    BY <1>4, <2>4
<1> QED
  BY <1>5, <1>6, <1>7 DEF Lists

\* It finds documents of the set, all of them or as many as are asked for.
Scored(in, q, S) == \A d \in S : in.lexical[q][d] \in Nat

LEMMA TopShape ==
  ASSUME NEW in, NEW q, NEW S, Numbers(S), IsFiniteSet(S), Scored(in, q, S),
         NEW n \in Nat, NEW top, top = Top(in, q, S, n)
  PROVE  /\ top \subseteq S /\ IsFiniteSet(top) /\ Cardinality(top) \in Nat /\ Cardinality(top) <= n
         /\ Cardinality(S) <= n => top = S
         /\ n <= Cardinality(S) => Cardinality(top) = n
<1> DEFINE score == in.lexical[q]
           f == ByScore(S, score)
           below == [x \in S |-> {y \in S : Better(score, y, x)}]
           front == AtMost(f, n)
<1>1. IsOrder(below, S) /\ Lists(f, S, below)
  <2>1. below \in [S -> SUBSET S] /\ \A x \in S : below[x] = {y \in S : Better(score, y, x)}
    OBVIOUS
  <2>2. \A d \in S : score[d] \in Nat
    BY DEF Scored
  <2>3. f = ByScore(S, score)
    OBVIOUS
  <2> HIDE DEF below, f, score
  <2> QED
    BY <2>1, <2>2, <2>3, BestLists
<1>2. top = Range(front)
  BY DEF Top
<1> HIDE DEF f, below
<1>3. /\ f \in Seq(S) /\ Len(f) = Cardinality(S) /\ Len(f) \in Nat
      /\ \A i, j \in 1 .. Len(f) : f[i] = f[j] => i = j
      /\ \A x \in S : \E i \in 1 .. Len(f) : f[i] = x
  BY <1>1, InOrder
<1>4. /\ front \in Seq(S) /\ Len(front) = IF n <= Len(f) THEN n ELSE Len(f)
      /\ \A i \in 1 .. Len(front) : i \in 1 .. Len(f) /\ front[i] = f[i]
  BY <1>3, AtMostShape
<1> HIDE DEF front
<1> DEFINE c == Len(front)
<1>5. c \in Nat /\ DOMAIN front = 1 .. c /\ front \in [1 .. c -> S]
  BY <1>4
<1>6. c <= n /\ (Cardinality(S) <= n => c = Cardinality(S)) /\ (n <= Cardinality(S) => c = n)
  BY <1>3, <1>4
<1>7. top = {front[i] : i \in 1 .. c}
  BY <1>2, <1>5 DEF Range
<1>8. top \subseteq S /\ IsFiniteSet(top)
  BY <1>5, <1>7, FS_Subset
<1> HIDE DEF c
<1>9. front \in [1 .. c -> top] /\ \A x \in top : \E i \in 1 .. c : front[i] = x
  BY <1>5, <1>7
<1>10. front \in Injection(1 .. c, top) /\ front \in Surjection(1 .. c, top)
  <2>1. ASSUME NEW i \in 1 .. c, NEW j \in 1 .. c, front[i] = front[j] PROVE i = j
    BY <1>3, <1>4, <2>1 DEF c
  <2> QED
    BY <1>5, <1>9, <2>1 DEF Injection, Surjection, IsInjective
<1>11. IsFiniteSet(1 .. c) /\ Cardinality(1 .. c) = c
  BY <1>5, FS_Interval
<1>12. Cardinality(top) = c
  BY <1>10, <1>11, FS_Surjection
<1>13. Cardinality(S) <= n => top = S
  <2>1. ASSUME Cardinality(S) <= n, NEW x \in S PROVE x \in top
    <3>1. PICK i \in 1 .. Len(f) : f[i] = x
      BY <1>3
    <3>2. c = Len(f)
      BY <1>3, <1>6, <2>1
    <3>3. i \in 1 .. c /\ front[i] = x
      BY <1>4, <3>1, <3>2 DEF c
    <3> QED
      BY <1>7, <3>3
  <2> QED
    BY <1>8, <2>1
<1> QED
  BY <1>5, <1>6, <1>8, <1>12, <1>13

-----------------------------------------------------------------------------
(* What a report says of the audits                                        *)

Listed(seq) == seq \in Seq(Range(seq))

LEMMA ListedShape ==
  ASSUME NEW seq, Listed(seq)
  PROVE  Len(seq) \in Nat /\ DOMAIN seq = 1 .. Len(seq)
BY DEF Listed

LEMMA MadeList ==
  ASSUME NEW n \in Nat, NEW seq, DOMAIN seq = 1 .. n, seq = [i \in 1 .. n |-> seq[i]]
  PROVE  Listed(seq) /\ Len(seq) = n
<1>1. \A i \in 1 .. n : seq[i] \in Range(seq)
  BY DEF Range
<1>2. seq \in [1 .. n -> Range(seq)]
  BY <1>1
<1> HIDE DEF Range
<1> QED
  BY <1>2 DEF Listed

\* Some of the places of a list.
LEMMA SomePlaces ==
  ASSUME NEW n \in Nat, NEW S \in SUBSET (1 .. n)
  PROVE  /\ IsFiniteSet(S) /\ Cardinality(S) \in Nat /\ Cardinality(S) <= n
         /\ Cardinality(S) = 0 <=> S = {}
<1>1. IsFiniteSet(1 .. n) /\ Cardinality(1 .. n) = n
  BY FS_Interval
<1>2. IsFiniteSet(S) /\ Cardinality(S) <= n
  BY <1>1, FS_Subset
<1> QED
  BY <1>2, FS_CardinalityType, FS_EmptySet

LEMMA QualityReportsTell ==
  ASSUME NEW as, Listed(as), NEW r \in QualityReports(as)
  PROVE  /\ Len(r.rows) = Len(as) /\ r.passed + r.failed = r.total
         /\ r.verdict = "pass" <=> {i \in DOMAIN as : as[i].kind = "verdict" /\ ~as[i].pass} = {}
<1> DEFINE S == {i \in DOMAIN as : as[i].kind = "verdict" /\ ~as[i].pass}
           failed == Cardinality(S)
<1>1. Len(as) \in Nat /\ DOMAIN as = 1 .. Len(as)
  BY ListedShape
<1>2. failed \in Nat /\ (failed = 0 <=> S = {})
  <2>1. S \in SUBSET (1 .. Len(as))
    BY <1>1
  <2> HIDE DEF S
  <2> QED
    BY <1>1, <2>1, SomePlaces
<1>3. r = [total |-> Len(as), rows |-> as, passed |-> Len(as) - failed, failed |-> failed,
           verdict |-> Verdict(failed)]
  BY DEF QualityReports, HowMany
<1> HIDE DEF S, failed
<1>4. /\ r.total = Len(as) /\ r.rows = as /\ r.passed = Len(as) - failed /\ r.failed = failed
      /\ r.verdict = Verdict(failed)
  BY <1>3
<1>5. r.passed + r.failed = r.total
  <2> DEFINE n == Len(as)
  <2>1. n \in Nat /\ failed \in Nat /\ r.total = n /\ r.passed = n - failed /\ r.failed = failed
    BY <1>1, <1>2, <1>4
  <2> HIDE DEF n
  <2> QED
    BY <2>1
<1>6. r.verdict = "pass" <=> S = {}
  BY <1>2, <1>4 DEF Verdict
<1> QED
  BY <1>4, <1>5, <1>6 DEF S

LEMMA BlogReportsTell ==
  ASSUME NEW as, Listed(as), NEW r \in BlogReports(as)
  PROVE  /\ Len(r.rows) = Len(as) /\ r.passed + r.failed = r.total
         /\ r.verdict = "pass" <=> {i \in DOMAIN as : as[i].kind = "echo" \/ as[i].blocker} = {}
<1> DEFINE n == Len(as)
           rows == [i \in DOMAIN as |-> BlogRow(as[i])]
           F == {i \in DOMAIN rows : rows[i].score < 6}
           B == {i \in DOMAIN rows : rows[i].blocker}
<1>1. n \in Nat /\ DOMAIN as = 1 .. n
  BY ListedShape
<1>2. DOMAIN rows = 1 .. n /\ Listed(rows) /\ Len(rows) = n
  <2>1. DOMAIN rows = 1 .. n /\ rows = [i \in 1 .. n |-> rows[i]]
    BY <1>1
  <2> HIDE DEF rows, n
  <2> QED
    BY <1>1, <2>1, MadeList
<1>3. F \in SUBSET (1 .. n) /\ B \in SUBSET (1 .. n)
  BY <1>2
<1>4. r = [total |-> Len(rows), rows |-> rows, passed |-> Len(rows) - Cardinality(F),
           failed |-> Cardinality(F), verdict |-> Verdict(Cardinality(B))]
  BY DEF BlogReports, HowMany
<1>5. \A i \in 1 .. n : as[i].kind \in {"audit", "echo"}
  BY <1>1 DEF BlogReports
<1>6. B = {i \in DOMAIN as : as[i].kind = "echo" \/ as[i].blocker}
  <2>1. ASSUME NEW i \in 1 .. n PROVE rows[i].blocker <=> as[i].kind = "echo" \/ as[i].blocker
    <3>1. rows[i] = BlogRow(as[i])
      BY <1>1
    <3>2. CASE as[i].kind = "audit"
      <4>1. rows[i] = [blocker |-> as[i].blocker, score |-> as[i].score]
        BY <3>1, <3>2 DEF BlogRow
      <4> HIDE DEF rows
      <4>2. rows[i].blocker = as[i].blocker
        BY <4>1
      <4>3. as[i].kind # "echo"
        BY <3>2
      <4> QED
        BY <4>2, <4>3, Zenon
    <3>3. CASE as[i].kind = "echo"
      <4>1. rows[i] = [blocker |-> TRUE, score |-> 0]
        BY <3>1, <3>3 DEF BlogRow
      <4> HIDE DEF rows
      <4>2. rows[i].blocker
        BY <4>1
      <4> QED
        BY <3>3, <4>2
    <3> QED
      BY <1>5, <3>2, <3>3
  <2> HIDE DEF rows
  <2> QED
    BY <1>1, <1>2, <2>1
<1> HIDE DEF rows, F, B
<1> DEFINE f == Cardinality(F)
           b == Cardinality(B)
<1>7. f \in Nat /\ b \in Nat /\ (b = 0 <=> B = {})
  <2> HIDE DEF n
  <2> QED
    BY <1>1, <1>3, SomePlaces
<1> HIDE DEF f, b
<1>8. r.total = n /\ r.rows = rows /\ r.passed = n - f /\ r.failed = f /\ r.verdict = Verdict(b)
  BY <1>2, <1>4 DEF f, b
<1>9. r.passed + r.failed = r.total
  <2> HIDE DEF n
  <2> QED
    BY <1>1, <1>7, <1>8
<1>10. r.verdict = "pass" <=> B = {}
  BY <1>7, <1>8 DEF Verdict
<1> QED
  BY <1>2, <1>6, <1>8, <1>9, <1>10

LEMMA TraceReportsTell ==
  ASSUME NEW as, Listed(as), NEW r \in TraceReports(as)
  PROVE  /\ Len(r.rows) = Len(as)
         /\ r.verdict = "pass" <=> {i \in DOMAIN as : as[i].kind = "note" /\ as[i].blocker} = {}
<1> DEFINE n == Len(as)
           rows == [i \in DOMAIN as |-> [blocker |-> as[i].kind = "note" /\ as[i].blocker]]
           B == {i \in DOMAIN rows : rows[i].blocker}
<1>1. n \in Nat /\ DOMAIN as = 1 .. n
  BY ListedShape
<1>2. DOMAIN rows = 1 .. n /\ Listed(rows) /\ Len(rows) = n
  <2>1. DOMAIN rows = 1 .. n /\ rows = [i \in 1 .. n |-> rows[i]]
    BY <1>1
  <2> HIDE DEF rows, n
  <2> QED
    BY <1>1, <2>1, MadeList
<1>3. B \in SUBSET (1 .. n)
  BY <1>2
<1>4. r = [total |-> Len(rows), rows |-> rows, verdict |-> Verdict(Cardinality(B))]
  BY DEF TraceReports, HowMany
<1>5. B = {i \in DOMAIN as : as[i].kind = "note" /\ as[i].blocker}
  <2>1. ASSUME NEW i \in 1 .. n PROVE rows[i].blocker <=> as[i].kind = "note" /\ as[i].blocker
    BY <1>1
  <2> HIDE DEF rows
  <2> QED
    BY <1>1, <1>2, <2>1
<1> HIDE DEF rows, B
<1> DEFINE b == Cardinality(B)
<1>6. b = 0 <=> B = {}
  <2> HIDE DEF n
  <2> QED
    BY <1>1, <1>3, SomePlaces
<1> HIDE DEF b
<1>7. r.rows = rows /\ r.verdict = Verdict(b)
  BY <1>4 DEF b
<1>8. r.verdict = "pass" <=> B = {}
  BY <1>6, <1>7 DEF Verdict
<1> QED
  BY <1>2, <1>5, <1>7, <1>8

LEMMA OssReportTells ==
  ASSUME NEW js, NEW as, Listed(js), Listed(as), Len(as) = Len(js), NEW r \in OssReports(js, as)
  PROVE  /\ Len(r.rows) = Len(js) /\ r.passed + r.failed = r.total
         /\ r.verdict = "pass" <=>
              {i \in DOMAIN as : ~(as[i].kind = "audit" /\ ~as[i].hold /\ \A s \in as[i].bearing : s > 3)} = {}
<1> DEFINE n == Len(js)
           rows == [i \in DOMAIN as |-> IF as[i].kind = "audit" THEN AuditRow(as[i]) ELSE MalformedRow(js[i])]
           H == {i \in DOMAIN rows : rows[i].hold}
           O == {i \in DOMAIN as : ~(as[i].kind = "audit" /\ ~as[i].hold /\ \A s \in as[i].bearing : s > 3)}
           h == Cardinality(H)
           lost == Max({0, n - Len(rows)})
<1>1. n \in Nat /\ DOMAIN as = 1 .. n
  BY ListedShape
<1>2. DOMAIN rows = 1 .. n /\ Listed(rows) /\ Len(rows) = n
  <2>1. DOMAIN rows = 1 .. n /\ rows = [i \in 1 .. n |-> rows[i]]
    BY <1>1
  <2> HIDE DEF rows, n
  <2> QED
    BY <1>1, <2>1, MadeList
<1>3. \A i \in 1 .. n : as[i].kind = "audit" => \A s \in as[i].bearing : s \in Int
  <2>1. ASSUME NEW i \in 1 .. n, as[i].kind = "audit", NEW s \in as[i].bearing PROVE s \in Int
    <3>1. InRange(as[i])
      BY <1>1, <2>1 DEF OssReports
    <3>2. s \in 1 .. 10
      BY <2>1, <3>1 DEF InRange
    <3> QED
      BY <3>2
  <2> QED
    BY <2>1
<1>4. r = OssReport(js, as)
  BY DEF OssReports
<1>5. /\ r.total = n /\ r.rows = rows /\ r.passed = Max({0, n - (h + lost)}) /\ r.failed = h + lost
      /\ r.verdict = IF h + lost = 0 THEN "pass" ELSE "fail"
  BY <1>4 DEF OssReport, HowMany
<1>6. H = O
  <2>1. ASSUME NEW i \in 1 .. n
        PROVE  rows[i].hold <=> ~(as[i].kind = "audit" /\ ~as[i].hold /\ \A s \in as[i].bearing : s > 3)
    <3>1. CASE as[i].kind = "audit"
      <4>1. rows[i] = AuditRow(as[i])
        BY <1>1, <3>1
      <4> HIDE DEF rows
      <4>2. rows[i].hold = (as[i].hold \/ \E s \in as[i].bearing : s <= 3)
        BY <4>1 DEF AuditRow
      <4> DEFINE b == as[i].bearing
      <4>a. \A s \in b : s \in Int
        BY <1>3, <3>1
      <4> HIDE DEF b
      <4>b. (\E s \in b : s <= 3) <=> ~(\A s \in b : s > 3)
        BY <4>a
      <4>3. (\E s \in as[i].bearing : s <= 3) <=> ~(\A s \in as[i].bearing : s > 3)
        BY <4>b DEF b
      <4> QED
        BY <3>1, <4>2, <4>3, Zenon
    <3>2. CASE as[i].kind # "audit"
      <4>1. rows[i] = MalformedRow(js[i])
        BY <1>1, <3>2
      <4> HIDE DEF rows
      <4>2. rows[i].hold
        BY <4>1 DEF MalformedRow
      <4> QED
        BY <3>2, <4>2
    <3> QED
      BY <3>1, <3>2
  <2> HIDE DEF rows
  <2> QED
    BY <1>1, <1>2, <2>1
<1>7. H \in SUBSET (1 .. n)
  BY <1>2
<1> HIDE DEF rows, H, O, n
<1>8. h \in Nat /\ h <= n /\ (h = 0 <=> H = {})
  BY <1>1, <1>7, SomePlaces
<1> HIDE DEF h
<1>9. lost = 0
  <2>1. n - Len(rows) = 0
    BY <1>1, <1>2
  <2>2. lost = Max({0, 0})
    BY <2>1
  <2> QED
    BY <2>2, MaxOfTwo
<1> HIDE DEF lost
<1>10. r.passed = n - h /\ r.failed = h
  <2>1. h + lost = h
    BY <1>8, <1>9
  <2>2. n - h \in Int /\ 0 <= n - h
    BY <1>1, <1>8
  <2>3. Max({0, n - h}) = n - h
    BY <2>2, MaxOfTwo
  <2> QED
    BY <1>5, <2>1, <2>3
<1>11. r.passed + r.failed = r.total
  BY <1>1, <1>5, <1>8, <1>10
<1>12. r.verdict = "pass" <=> H = {}
  BY <1>5, <1>8, <1>9
<1> QED
  BY <1>2, <1>5, <1>6, <1>11, <1>12 DEF n, O

LEMMA DocsReportTells ==
  ASSUME NEW js, NEW as, Listed(js), Listed(as), Len(as) = Len(js), NEW r \in DocsReports(js, as)
  PROVE  /\ Len(r.rows) + r.lost = Len(js) /\ r.passed + r.failed = r.total
         /\ r.verdict = "pass" <=> {i \in DOMAIN as : as[i].kind = "page" /\ as[i].blocker} = {}
<1> DEFINE n == Len(js)
           S == {i \in DOMAIN as : as[i].kind = "page"}
           told == Ascending(S)
           rows == [i \in DOMAIN told |-> [blocker |-> as[told[i]].blocker, score |-> Scaled(as[told[i]].score)]]
           F == {i \in DOMAIN rows : Scaled(rows[i].score) < 600}
           B == {i \in DOMAIN rows : rows[i].blocker}
           O == {i \in DOMAIN as : as[i].kind = "page" /\ as[i].blocker}
           m == Len(told)
<1>1. n \in Nat /\ DOMAIN as = 1 .. n
  BY ListedShape
<1>2. Numbers(S) /\ IsFiniteSet(S) /\ Cardinality(S) \in Nat /\ Cardinality(S) <= n
  <2>1. S \in SUBSET (1 .. n)
    BY <1>1
  <2> HIDE DEF S, n
  <2> QED
    BY <1>1, <2>1, SomePlaces DEF Numbers
<1>3. /\ told \in Seq(S) /\ m = Cardinality(S) /\ DOMAIN told = 1 .. m /\ m \in Nat
      /\ \A x \in S : \E i \in 1 .. m : told[i] = x
  <2> HIDE DEF S, told
  <2>1. told = Ascending(S)
    BY DEF told
  <2> QED
    BY <1>2, <2>1, AscendingShape
<1>4. r = [total |-> Len(rows), rows |-> rows, passed |-> Len(rows) - Cardinality(F), failed |-> Cardinality(F),
           lost |-> Max({0, n - Len(rows)}), verdict |-> Verdict(Cardinality(B))]
  BY DEF DocsReports, HowMany
<1> HIDE DEF told
<1>5. DOMAIN rows = 1 .. m /\ Listed(rows) /\ Len(rows) = m
  <2>1. DOMAIN rows = 1 .. m /\ rows = [i \in 1 .. m |-> rows[i]]
    BY <1>3
  <2> HIDE DEF rows, m
  <2> QED
    BY <1>3, <2>1, MadeList
<1>6. \A i \in 1 .. m : told[i] \in S
  <2> HIDE DEF S
  <2> QED
    BY <1>3
<1>7. B = {} <=> O = {}
  <2>1. ASSUME NEW i \in 1 .. m PROVE rows[i].blocker = as[told[i]].blocker
    BY <1>3
  <2> HIDE DEF rows
  <2>2. ASSUME NEW i \in B PROVE told[i] \in O
    <3>1. i \in 1 .. m /\ rows[i].blocker
      BY <1>5
    <3>2. as[told[i]].blocker
      BY <2>1, <3>1, Zenon
    <3>3. told[i] \in DOMAIN as /\ as[told[i]].kind = "page"
      BY <1>6, <3>1
    <3> QED
      BY <3>2, <3>3
  <2>3. ASSUME NEW x \in O PROVE \E i \in 1 .. m : i \in B
    <3>1. x \in S /\ as[x].blocker
      OBVIOUS
    <3>2. PICK i \in 1 .. m : told[i] = x
      BY <1>3, <3>1
    <3>3. rows[i].blocker
      BY <2>1, <3>1, <3>2, Zenon
    <3> QED
      BY <1>5, <3>2, <3>3
  <2> HIDE DEF B, O
  <2> QED
    BY <2>2, <2>3
<1>8. F \in SUBSET (1 .. m) /\ B \in SUBSET (1 .. m)
  BY <1>5
<1> HIDE DEF S, rows, F, B, m, n
<1> DEFINE f == Cardinality(F)
           b == Cardinality(B)
<1>9. f \in Nat /\ b \in Nat /\ (b = 0 <=> B = {})
  BY <1>3, <1>8, SomePlaces
<1> HIDE DEF f, b
<1>10. /\ r.total = m /\ r.rows = rows /\ r.passed = m - f /\ r.failed = f /\ r.verdict = Verdict(b)
       /\ r.lost = Max({0, n - m})
  BY <1>4, <1>5 DEF f, b
<1>11. r.passed + r.failed = r.total
  BY <1>3, <1>9, <1>10
<1>12. Len(r.rows) + r.lost = n
  <2>1. m <= n
    BY <1>2, <1>3
  <2>2. n - m \in Int /\ 0 <= n - m
    BY <1>1, <1>3, <2>1
  <2>3. Max({0, n - m}) = n - m
    BY <2>2, MaxOfTwo
  <2>4. Len(r.rows) = m /\ r.lost = n - m
    BY <1>5, <1>10, <2>3
  <2> QED
    BY <1>1, <1>3, <2>4
<1>13. r.verdict = "pass" <=> B = {}
  BY <1>9, <1>10 DEF Verdict
<1> QED
  BY <1>7, <1>11, <1>12, <1>13 DEF n

LEMMA ObliqReportTells ==
  ASSUME NEW in, NEW as, Listed(as), NEW r \in ObliqReports(in, as)
  PROVE  /\ Len(r.rows) = Len(as) /\ r.verdict \in {"pass", "fail"}
         /\ \A i \in DOMAIN as : r.rows[i] = ObliqRow(in, as[i])
<1> DEFINE n == Len(as)
           rows == [i \in DOMAIN as |-> ObliqRow(in, as[i])]
           gained == FoldLeft(LAMBDA k, row : k + row.ndcg, 0, rows)
           good == rows # <<>> /\ gained \div Len(rows) >= 500
<1>1. n \in Nat /\ DOMAIN as = 1 .. n
  BY ListedShape
<1>2. r \in {[total |-> Len(rows), rows |-> rows, verdict |-> IF good THEN "pass" ELSE "fail"]}
  BY DEF ObliqReports
<1> HIDE DEF gained
<1> HIDE DEF good
<1>3. Len(rows) = n
  <2>1. DOMAIN rows = 1 .. n /\ rows = [i \in 1 .. n |-> rows[i]]
    BY <1>1
  <2> HIDE DEF rows, n
  <2> QED
    BY <1>1, <2>1, MadeList
<1>4. \A i \in DOMAIN as : rows[i] = ObliqRow(in, as[i])
  OBVIOUS
<1> HIDE DEF rows
<1>5. r.rows = rows /\ r.verdict = IF good THEN "pass" ELSE "fail"
  BY <1>2
<1>6. r.verdict \in {"pass", "fail"}
  BY <1>5
<1> QED
  BY <1>3, <1>4, <1>5, <1>6

-----------------------------------------------------------------------------
(* The modules of a repository                                             *)

LEMMA FiniteImage ==
  ASSUME NEW S, IsFiniteSet(S), NEW f, NEW T, T = {f[x] : x \in S} PROVE IsFiniteSet(T)
<1> DEFINE g == [x \in S |-> f[x]]
<1>1. g \in [S -> T] /\ \A y \in T : \E x \in S : g[x] = y
  OBVIOUS
<1>2. g \in Surjection(S, T)
  BY <1>1 DEF Surjection
<1> QED
  BY <1>2, FS_Surjection

\* What MapThenSumSet adds up.
LEMMA SumChosen ==
  ASSUME NEW D, IsFiniteSet(D), NEW w,
         NEW c, c = CHOOSE f : f = [S \in SUBSET D |->
                      IF S = {} THEN 0 ELSE w[CHOOSE k \in S : TRUE] + f[S \ {CHOOSE k \in S : TRUE}]]
  PROVE  Sums(c, D, w)
<1> DEFINE H(f) == f = [S \in SUBSET D |->
                      IF S = {} THEN 0 ELSE w[CHOOSE k \in S : TRUE] + f[S \ {CHOOSE k \in S : TRUE}]]
<1>1. \A f : H(f) <=> Sums(f, D, w)
  BY DEF Sums, AnyOf
<1>2. c = CHOOSE f : H(f)
  OBVIOUS
<1> HIDE DEF H
<1>3. \E f : H(f)
  BY <1>1, SumsExist
<1> QED
  BY <1>1, <1>2, <1>3

LEMMA LocIsSize ==
  ASSUME NEW d, d.files \in Seq(Range(d.files)), \A i \in DOMAIN d.files : d.files[i].lines \in Nat,
         NEW cfg, cfg.maxFiles \in Nat
  PROVE  Loc(d, cfg) \in Nat
<1> DEFINE E == Excerpts(d, cfg)
           w == [i \in E |-> d.files[i].lines]
           H(f) == f = [S \in SUBSET E |-> IF S = {} THEN 0
                                           ELSE d.files[CHOOSE k \in S : TRUE].lines
                                                + f[S \ {CHOOSE k \in S : TRUE}]]
           c == CHOOSE f : H(f)
<1>1. Loc(d, cfg) = c[E]
  BY DEF Loc, MapThenSumSet, MapThenFoldSet
<1>2. Len(d.files) \in Nat /\ DOMAIN d.files = 1 .. Len(d.files)
  OBVIOUS
<1>3. E \in SUBSET (1 .. Len(d.files)) /\ E \subseteq DOMAIN d.files
  <2> DEFINE m == Min({cfg.maxFiles, Len(d.files)})
  <2>1. m \in Nat /\ m <= Len(d.files)
    BY <1>2, MinOfTwo
  <2>2. E \subseteq 1 .. m
    BY DEF Excerpts
  <2> HIDE DEF m, E
  <2> QED
    BY <1>2, <2>1, <2>2
<1> HIDE DEF E
<1>4. IsFiniteSet(E)
  BY <1>2, <1>3, SomePlaces
<1>5. \A k \in E : w[k] = d.files[k].lines /\ w[k] \in Nat
  BY <1>3
<1>6. ASSUME NEW f PROVE H(f) <=> Sums(f, E, w)
  <2>1. \A S \in SUBSET E : S # {} => w[AnyOf(S)] = d.files[AnyOf(S)].lines
    BY <1>5 DEF AnyOf
  <2> DEFINE F(S) == d.files[AnyOf(S)].lines
  <2>2. H(f) <=> f = [S \in SUBSET E |-> IF S = {} THEN 0 ELSE F(S) + f[S \ {AnyOf(S)}]]
    BY DEF AnyOf
  <2>3. \A S \in SUBSET E : S # {} => w[AnyOf(S)] = F(S)
    BY <2>1
  <2> HIDE DEF w, F, H
  <2> QED
    BY <2>2, <2>3 DEF Sums
<1> HIDE DEF H, w
<1>7. \E f : H(f)
  BY <1>4, <1>6, SumsExist
<1>8. H(c)
  BY <1>7
<1> HIDE DEF c
<1>9. Sums(c, E, w)
  BY <1>6, <1>8
<1>10. E \in SUBSET E
  OBVIOUS
<1>11. c[E] \in Nat
  BY <1>4, <1>5, <1>9, <1>10, SumsOff
<1> QED
  BY <1>1, <1>11

LEMMA MatchedShape ==
  ASSUME NEW repo, RepoInput(repo), NEW cfg, cfg.maxFiles \in Nat, NEW M, M = Matched(repo, cfg)
  PROVE  /\ IsFiniteSet(M)
         /\ \A m \in M : m.repo = repo.name /\ m.loc \in Nat /\ m.id \in Nat
         /\ \A m, n \in M : m.loc = n.loc /\ m.id = n.id => m = n
<1> DEFINE mod(d) == [repo |-> repo.name, id |-> d.id, loc |-> Loc(d, cfg)]
           g == [d \in repo.dirs |-> mod(d)]
<1>1. ASSUME NEW m \in M PROVE \E d \in repo.dirs : m = mod(d)
  BY DEF Matched, Discovered, Walked
<1>2. \A d \in repo.dirs : d.id \in Nat /\ Loc(d, cfg) \in Nat
  BY LocIsSize DEF RepoInput
<1>3. IsFiniteSet(M)
  <2> DEFINE T == {g[d] : d \in repo.dirs}
  <2>1. IsFiniteSet(repo.dirs)
    BY DEF RepoInput
  <2>2. IsFiniteSet(T)
    <3> HIDE DEF g
    <3> QED
      BY <2>1, FiniteImage
  <2>3. M \in SUBSET T
    <3> SUFFICES ASSUME NEW m \in M PROVE m \in T
      OBVIOUS
    <3>1. PICK d \in repo.dirs : m = mod(d)
      BY <1>1
    <3>2. g[d] = m
      BY <3>1
    <3> QED
      BY <3>2
  <2> HIDE DEF T
  <2> QED
    BY <2>2, <2>3, FS_Subset
<1>4. ASSUME NEW m \in M PROVE m.repo = repo.name /\ m.loc \in Nat /\ m.id \in Nat
  <2>1. PICK d \in repo.dirs : m = mod(d)
    BY <1>1
  <2> QED
    BY <1>2, <2>1
<1>5. ASSUME NEW m \in M, NEW n \in M, m.loc = n.loc, m.id = n.id PROVE m = n
  <2>1. PICK d \in repo.dirs : m = mod(d)
    BY <1>1
  <2>2. PICK e \in repo.dirs : n = mod(e)
    BY <1>1
  <2>3. d.id = e.id /\ Loc(d, cfg) = Loc(e, cfg)
    BY <1>5, <2>1, <2>2
  <2> QED
    BY <2>1, <2>2, <2>3
<1> QED
  BY <1>3, <1>4, <1>5

\* What stays of a repository: as many as its cap asks for, the largest ones.
Most(cfg, M) == IF cfg.perRepo = 0 THEN Cardinality(M) ELSE Min({cfg.perRepo, Cardinality(M)})

LEMMA KeptShape ==
  ASSUME NEW repo, RepoInput(repo), NEW cfg, cfg.maxFiles \in Nat, cfg.perRepo \in Nat,
         NEW M, M = Matched(repo, cfg), NEW kept, kept = Kept(repo, cfg)
  PROVE  /\ kept \in Seq(M) /\ Len(kept) \in Nat /\ Len(kept) = Most(cfg, M) /\ DOMAIN kept = 1 .. Len(kept)
         /\ \A i, j \in 1 .. Len(kept) : kept[i] = kept[j] => i = j
         /\ \A m \in M, i \in 1 .. Len(kept) : m.loc > kept[i].loc => \E j \in 1 .. i : kept[j] = m
<1> DEFINE sorted == BySize(M)
           c == Cardinality(M)
           n == Most(cfg, M)
<1>1. /\ IsFiniteSet(M)
      /\ \A m \in M : m.repo = repo.name /\ m.loc \in Nat /\ m.id \in Nat
      /\ \A m, k \in M : m.loc = k.loc /\ m.id = k.id => m = k
  BY MatchedShape
<1>2. /\ sorted \in Seq(M) /\ Len(sorted) = c /\ Len(sorted) \in Nat
      /\ \A i, j \in 1 .. Len(sorted) : sorted[i] = sorted[j] => i = j
      /\ \A x \in M : \E i \in 1 .. Len(sorted) : sorted[i] = x
      /\ \A i, j \in 1 .. Len(sorted) : i < j => sorted[j].loc <= sorted[i].loc
  <2>1. sorted = BySize(M)
    OBVIOUS
  <2> HIDE DEF sorted
  <2> QED
    BY <1>1, <2>1, LargerShape
<1>3. kept = IF cfg.perRepo = 0 THEN sorted ELSE AtMost(sorted, cfg.perRepo)
  BY DEF Kept
<1> HIDE DEF sorted
<1>4. c \in Nat
  BY <1>2
<1>5. n \in Nat /\ n <= c
  BY <1>4, MinOfTwo DEF Most
<1>6. kept \in Seq(M) /\ Len(kept) = n /\ \A i \in 1 .. n : i \in 1 .. c /\ kept[i] = sorted[i]
  <2>1. CASE cfg.perRepo = 0
    BY <1>2, <1>3, <2>1 DEF Most
  <2>2. CASE cfg.perRepo # 0
    <3>1. kept = AtMost(sorted, cfg.perRepo)
      BY <1>3, <2>2
    <3>2. /\ kept \in Seq(M) /\ Len(kept) = IF cfg.perRepo <= Len(sorted) THEN cfg.perRepo ELSE Len(sorted)
          /\ \A i \in 1 .. Len(kept) : i \in 1 .. Len(sorted) /\ kept[i] = sorted[i]
      BY <1>2, <3>1, AtMostShape
    <3>3. n = IF cfg.perRepo <= c THEN cfg.perRepo ELSE c
      BY <1>4, <2>2, MinOfTwo DEF Most
    <3> QED
      BY <1>2, <3>2, <3>3
  <2> QED
    BY <2>1, <2>2
<1> HIDE DEF c, n
<1>7. DOMAIN kept = 1 .. n
  BY <1>5, <1>6
<1>8. ASSUME NEW i \in 1 .. n, NEW j \in 1 .. n, kept[i] = kept[j] PROVE i = j
  <2>1. i \in 1 .. Len(sorted) /\ j \in 1 .. Len(sorted) /\ sorted[i] = sorted[j]
    BY <1>2, <1>6, <1>8 DEF c
  <2> QED
    BY <1>2, <2>1
<1>9. ASSUME NEW m \in M, NEW i \in 1 .. n, m.loc > kept[i].loc PROVE \E j \in 1 .. i : kept[j] = m
  <2>1. PICK j \in 1 .. c : sorted[j] = m
    BY <1>2
  <2>2. i \in 1 .. c /\ kept[i] = sorted[i]
    BY <1>6
  <2>3. m.loc \in Nat /\ sorted[i].loc \in Nat /\ sorted[i] \in M
    BY <1>1, <1>2, <2>2
  <2>4. ~(i < j)
    <3>1. SUFFICES ASSUME i < j PROVE FALSE
      OBVIOUS
    <3>2. sorted[j].loc <= sorted[i].loc
      BY <1>2, <2>1, <2>2, <3>1
    <3> QED
      BY <1>9, <2>1, <2>2, <2>3, <3>2
  <2>5. j \in 1 .. i /\ j \in 1 .. n
    BY <1>4, <1>5, <2>1, <2>4
  <2> QED
    BY <1>6, <2>1, <2>5
<1> QED
  BY <1>5, <1>6, <1>7, <1>8, <1>9 DEF n

-----------------------------------------------------------------------------
(* Taking turns                                                            *)

Lengths(by) == [n \in DOMAIN by |-> Len(by[n])]

\* Some modules of each of some repositories.
Shelves(by) ==
  /\ IsFiniteSet(DOMAIN by) /\ DOMAIN by \subseteq Nat
  /\ \A n \in DOMAIN by : Len(by[n]) \in Nat /\ DOMAIN by[n] = 1 .. Len(by[n])

LEMMA TurnsOf ==
  ASSUME NEW by, Shelves(by), NEW T, T = Turns(by)
  PROVE  /\ Places(T) /\ IsFiniteSet(T)
         /\ \A t \in T : t = <<t[1], t[2]>> /\ t[2] \in DOMAIN by /\ t[1] \in 1 .. Len(by[t[2]])
         /\ \A n \in DOMAIN by : \A i \in 1 .. Len(by[n]) : <<i, n>> \in T
<1> DEFINE row(n) == {<<i, n>> : i \in DOMAIN by[n]}
           R == {row(n) : n \in DOMAIN by}
<1>1. T = UNION R
  BY DEF Turns
<1>2. ASSUME NEW n \in DOMAIN by PROVE IsFiniteSet(row(n))
  <2> DEFINE g == [i \in DOMAIN by[n] |-> <<i, n>>]
             D == DOMAIN by[n]
  <2>1. row(n) = {g[i] : i \in D}
    OBVIOUS
  <2>2. Len(by[n]) \in Nat /\ D = 1 .. Len(by[n])
    BY DEF Shelves
  <2>3. IsFiniteSet(D)
    BY <2>2, FS_Interval
  <2> HIDE DEF g, D, row
  <2> QED
    BY <2>1, <2>3, FiniteImage
<1>3. IsFiniteSet(R)
  <2> DEFINE g == [n \in DOMAIN by |-> row(n)]
             D == DOMAIN by
  <2>1. R = {g[n] : n \in D}
    OBVIOUS
  <2>2. IsFiniteSet(D)
    BY DEF Shelves
  <2> HIDE DEF g, D, R
  <2> QED
    BY <2>1, <2>2, FiniteImage
<1>4. \A x \in R : IsFiniteSet(x)
  BY <1>2
<1>5. ASSUME NEW t \in T
      PROVE  t = <<t[1], t[2]>> /\ t[2] \in DOMAIN by /\ t[1] \in 1 .. Len(by[t[2]])
  <2>1. PICK n \in DOMAIN by : t \in row(n)
    BY <1>1
  <2>2. PICK i \in DOMAIN by[n] : t = <<i, n>>
    BY <2>1
  <2> QED
    BY <2>2 DEF Shelves
<1>6. ASSUME NEW n \in DOMAIN by, NEW i \in 1 .. Len(by[n]) PROVE <<i, n>> \in T
  <2>1. i \in DOMAIN by[n]
    BY DEF Shelves
  <2> QED
    BY <1>1, <2>1
<1> HIDE DEF R
<1>7. IsFiniteSet(T)
  BY <1>1, <1>3, <1>4, FS_UNION
<1>8. Places(T)
  <2>1. ASSUME NEW t \in T PROVE t \in Nat \X Nat
    <3>1. t[2] \in Nat /\ t[1] \in Nat /\ t = <<t[1], t[2]>>
      BY <1>5 DEF Shelves
    <3> QED
      BY <3>1
  <2> QED
    BY <2>1 DEF Places
<1> QED
  BY <1>5, <1>6, <1>7, <1>8

\* There are as many turns as modules.
LEMMA TurnsCounted ==
  ASSUME NEW by, Shelves(by), NEW T, T = Turns(by), NEW f, Sums(f, DOMAIN by, Lengths(by))
  PROVE  Cardinality(T) = f[DOMAIN by]
<1> DEFINE D == DOMAIN by
           w == Lengths(by)
           Of(N) == {t \in T : t[2] \in N}
           Good == {m \in Nat : \A N \in SUBSET D : Cardinality(N) = m => Cardinality(Of(N)) = f[N]}
<1>1. /\ IsFiniteSet(T)
      /\ \A t \in T : t = <<t[1], t[2]>> /\ t[2] \in D /\ t[1] \in 1 .. Len(by[t[2]])
      /\ \A n \in D : \A i \in 1 .. Len(by[n]) : <<i, n>> \in T
  BY TurnsOf
<1>2. IsFiniteSet(D) /\ \A n \in D : w[n] \in Nat /\ w[n] = Len(by[n])
  BY DEF Shelves, Lengths
<1>3. \A N \in SUBSET D : IsFiniteSet(N) /\ Cardinality(N) \in Nat
  BY <1>2, FS_Subset, FS_CardinalityType
<1>4. \A N : IsFiniteSet(Of(N)) /\ Cardinality(Of(N)) \in Nat
  <2>1. ASSUME NEW N PROVE IsFiniteSet(Of(N)) /\ Cardinality(Of(N)) \in Nat
    <3>1. Of(N) \in SUBSET T
      OBVIOUS
    <3> HIDE DEF Of
    <3> QED
      BY <1>1, <3>1, FS_Subset, FS_CardinalityType
  <2> QED
    BY <2>1
<1>5. ASSUME NEW n \in D PROVE Cardinality(Of({n})) = w[n]
  <2> DEFINE g == [i \in 1 .. w[n] |-> <<i, n>>]
  <2>1. g \in [1 .. w[n] -> Of({n})] /\ \A y \in Of({n}) : \E i \in 1 .. w[n] : g[i] = y
    BY <1>1, <1>2
  <2>2. \A i, j \in 1 .. w[n] : g[i] = g[j] => i = j
    OBVIOUS
  <2>3. DOMAIN g = 1 .. w[n]
    OBVIOUS
  <2>4. IsFiniteSet(1 .. w[n]) /\ Cardinality(1 .. w[n]) = w[n]
    <3> DEFINE k == w[n]
    <3>1. k \in Nat
      BY <1>2
    <3> HIDE DEF k
    <3>2. IsFiniteSet(1 .. k) /\ Cardinality(1 .. k) = k
      BY <3>1, FS_Interval
    <3> QED
      BY <3>2 DEF k
  <2> HIDE DEF g, Of
  <2>5. g \in Surjection(1 .. w[n], Of({n})) /\ g \in Injection(1 .. w[n], Of({n}))
    BY <2>1, <2>2, <2>3 DEF Surjection, Injection, IsInjective
  <2> QED
    BY <2>4, <2>5, FS_Surjection
<1>6. f[{}] = 0
  BY DEF Sums
<1>7. 0 \in Good
  <2>1. ASSUME NEW N \in SUBSET D, Cardinality(N) = 0 PROVE Cardinality(Of(N)) = f[N]
    <3>1. N = {}
      BY <1>3, <2>1, FS_EmptySet
    <3>2. Of(N) = {}
      BY <3>1
    <3> QED
      BY <1>6, <3>1, <3>2, FS_EmptySet
  <2> QED
    BY <2>1
<1>8. ASSUME NEW m \in Nat, m \in Good PROVE m + 1 \in Good
  <2>1. ASSUME NEW N \in SUBSET D, Cardinality(N) = m + 1 PROVE Cardinality(Of(N)) = f[N]
    <3>1. N # {}
      BY <2>1, FS_EmptySet
    <3>2. PICK n \in N : TRUE
      BY <3>1
    <3> DEFINE O == N \ {n}
    <3>3. O \in SUBSET D /\ Cardinality(O) = m
      <4>1. Cardinality(O) = Cardinality(N) - 1
        BY <1>3, <3>2, FS_RemoveElement
      <4>2. (m + 1) - 1 = m
        OBVIOUS
      <4> QED
        BY <2>1, <4>1, <4>2
    <3>4. Cardinality(Of(O)) = f[O]
      BY <1>8, <3>3
    <3>5. f[N] = w[n] + f[O]
      <4>1. Sums(f, D, w) /\ IsFiniteSet(D) /\ \A k \in D : w[k] \in Nat
        BY <1>2
      <4> HIDE DEF D, w
      <4>2. \A S \in SUBSET D : f[S] \in Nat /\ \A k \in S : f[S] = w[k] + f[S \ {k}]
        BY <4>1, SumsOff
      <4> QED
        BY <4>2
    <3>6. Of(N) = Of(O) \cup Of({n}) /\ Of(O) \cap Of({n}) = {}
      OBVIOUS
    <3> DEFINE a == Of(O)
               b == Of({n})
    <3>7. IsFiniteSet(a) /\ IsFiniteSet(b) /\ Cardinality(b) = w[n] /\ Cardinality(a) = f[O]
      BY <1>4, <1>5, <3>4
    <3>8. Of(N) = a \cup b /\ a \cap b = {}
      BY <3>6
    <3> HIDE DEF Of, a, b, O, w
    <3>9. Cardinality(a \cup b) = Cardinality(a) + Cardinality(b) - Cardinality(a \cap b)
      BY <3>7, FS_Union
    <3>10. Cardinality(a \cap b) = 0
      BY <3>8, FS_EmptySet
    <3>11. w[n] \in Nat /\ Cardinality(a) \in Nat
      BY <1>2, <3>7, FS_CardinalityType
    <3> QED
      BY <3>5, <3>7, <3>8, <3>9, <3>10, <3>11
  <2> QED
    BY <2>1
<1> HIDE DEF Good
<1>9. Cardinality(D) \in Good
  BY <1>3, <1>7, <1>8, AllNats
<1>10. Cardinality(Of(D)) = f[D]
  BY <1>9 DEF Good
<1>11. Of(D) = T
  BY <1>1
<1> QED
  BY <1>10, <1>11

\* The deal follows the turns.
LEMMA DealtShape ==
  ASSUME NEW by, Shelves(by), NEW T, T = Turns(by), NEW order, order = InTurns(T),
         NEW deal, deal = Dealt(by)
  PROVE  /\ Cardinality(T) \in Nat
         /\ order \in Seq(T) /\ Len(order) = Cardinality(T)
         /\ \A i, j \in 1 .. Cardinality(T) : order[i] = order[j] => i = j
         /\ \A x \in T : \E i \in 1 .. Cardinality(T) : order[i] = x
         /\ \A i, j \in 1 .. Cardinality(T) : i < j <=> Sooner(order[i], order[j])
         /\ Listed(deal) /\ Len(deal) = Cardinality(T)
         /\ \A k \in 1 .. Cardinality(T) : deal[k] = by[order[k][2]][order[k][1]]
<1> DEFINE c == Cardinality(T)
<1>1. Places(T) /\ IsFiniteSet(T)
  BY TurnsOf
<1>2. c \in Nat
  BY <1>1, FS_CardinalityType
<1>3. /\ order \in Seq(T) /\ Len(order) = c /\ DOMAIN order = 1 .. Len(order)
      /\ \A i, j \in 1 .. Len(order) : order[i] = order[j] => i = j
      /\ \A x \in T : \E i \in 1 .. Len(order) : order[i] = x
      /\ \A i, j \in 1 .. Len(order) : i < j <=> Sooner(order[i], order[j])
  BY <1>1, TurnsShape
<1>4. deal = [k \in DOMAIN order |-> by[order[k][2]][order[k][1]]]
  BY DEF Dealt
<1> HIDE DEF c
<1>5. DOMAIN deal = 1 .. c /\ \A k \in 1 .. c : deal[k] = by[order[k][2]][order[k][1]]
  BY <1>3, <1>4
<1>6. deal = [k \in 1 .. c |-> deal[k]]
  BY <1>3, <1>4
<1>7. Listed(deal) /\ Len(deal) = c
  BY <1>2, <1>5, <1>6, MadeList
<1>8. \A i, j \in 1 .. c : order[i] = order[j] => i = j
  BY <1>3
<1>9. \A x \in T : \E i \in 1 .. c : order[i] = x
  BY <1>3
<1>10. \A i, j \in 1 .. c : i < j <=> Sooner(order[i], order[j])
  BY <1>3
<1> QED
  BY <1>2, <1>3, <1>5, <1>7, <1>8, <1>9, <1>10 DEF c

LEMMA DownClosed ==
  ASSUME NEW m \in Nat, NEW S \in SUBSET (1 .. m), \A i \in S : \A j \in 1 .. i : j \in S
  PROVE  \E t \in 0 .. m : S = 1 .. t
<1>1. CASE S = {}
  <2>1. 0 \in 0 .. m /\ S = 1 .. 0
    BY <1>1
  <2> QED
    BY <2>1
<1>2. CASE S # {}
  <2> DEFINE t == Max(S)
  <2>1. t \in S /\ \A y \in S : t >= y
    BY <1>2, MaxOfSome
  <2> HIDE DEF t
  <2>2. t \in 0 .. m
    BY <2>1
  <2>3. S = 1 .. t
    <3>1. \A x \in S : x \in 1 .. t
      BY <2>1
    <3>2. \A x \in 1 .. t : x \in S
      BY <2>1
    <3> QED
      BY <3>1, <3>2
  <2> QED
    BY <2>2, <2>3
<1> QED
  BY <1>1, <1>2

Ahead(order, size, i, n) == \E k \in 1 .. size : order[k] = <<i, n>>

\* The first turns give each repository its first modules, and none more than
\* one ahead of one that has a module left.
LEMMA FrontIsFair ==
  ASSUME NEW by, Shelves(by), NEW T, T = Turns(by), NEW order, order = InTurns(T),
         NEW size \in Nat, size <= Cardinality(T)
  PROVE  \E t \in [DOMAIN by -> Nat] :
           /\ \A n \in DOMAIN by : /\ t[n] <= Len(by[n])
                                   /\ \A i \in 1 .. Len(by[n]) : i <= t[n] <=> Ahead(order, size, i, n)
           /\ \A n, m \in DOMAIN by : t[n] < Len(by[n]) => t[m] <= t[n] + 1
<1> DEFINE c == Cardinality(T)
           In(n) == {i \in 1 .. Len(by[n]) : Ahead(order, size, i, n)}
<1>1. /\ Places(T) /\ IsFiniteSet(T)
      /\ \A x \in T : x = <<x[1], x[2]>> /\ x[2] \in DOMAIN by /\ x[1] \in 1 .. Len(by[x[2]])
      /\ \A n \in DOMAIN by : \A i \in 1 .. Len(by[n]) : <<i, n>> \in T
  BY TurnsOf
<1>2. /\ c \in Nat
      /\ order \in Seq(T) /\ Len(order) = c
      /\ \A i, j \in 1 .. c : order[i] = order[j] => i = j
      /\ \A x \in T : \E i \in 1 .. c : order[i] = x
      /\ \A i, j \in 1 .. c : i < j <=> Sooner(order[i], order[j])
  <2>1. /\ order \in Seq(T) /\ Len(order) = c /\ DOMAIN order = 1 .. Len(order)
        /\ \A i, j \in 1 .. Len(order) : order[i] = order[j] => i = j
        /\ \A x \in T : \E i \in 1 .. Len(order) : order[i] = x
        /\ \A i, j \in 1 .. Len(order) : i < j <=> Sooner(order[i], order[j])
    <3>1. Places(T) /\ IsFiniteSet(T)
      BY <1>1
    <3> HIDE DEF c
    <3>2. /\ order \in Seq(T) /\ Len(order) = Cardinality(T) /\ DOMAIN order = 1 .. Len(order)
          /\ \A i, j \in 1 .. Len(order) : order[i] = order[j] => i = j
          /\ \A x \in T : \E i \in 1 .. Len(order) : order[i] = x
          /\ \A i, j \in 1 .. Len(order) : i < j <=> Sooner(order[i], order[j])
      BY <3>1, TurnsShape
    <3> QED
      BY <3>2 DEF c
  <2>2. c \in Nat
    BY <1>1, FS_CardinalityType
  <2> HIDE DEF c
  <2>3. Len(order) = c
    BY <2>1
  <2> QED
    BY <2>1, <2>2, <2>3
<1> HIDE DEF c
<1>3. \A n \in DOMAIN by : Len(by[n]) \in Nat /\ n \in Nat
  BY DEF Shelves
\* What comes sooner than a turn at the front is at the front.
<1>4. ASSUME NEW n \in DOMAIN by, NEW i \in 1 .. Len(by[n]), Ahead(order, size, i, n),
             NEW m \in DOMAIN by, NEW j \in 1 .. Len(by[m]), Sooner(<<j, m>>, <<i, n>>)
      PROVE  Ahead(order, size, j, m)
  <2>1. PICK k \in 1 .. size : order[k] = <<i, n>>
    BY <1>4 DEF Ahead
  <2>2. <<j, m>> \in T
    BY <1>1
  <2>3. PICK p \in 1 .. c : order[p] = <<j, m>>
    BY <1>2, <2>2
  <2>4. k \in 1 .. c
    BY <1>2 DEF c
  <2>5. p < k
    <3>1. Sooner(order[p], order[k])
      BY <1>4, <2>1, <2>3
    <3> QED
      BY <1>2, <2>4, <3>1
  <2>6. p \in 1 .. size
    BY <1>2, <2>5
  <2> QED
    BY <2>3, <2>6 DEF Ahead
<1>5. ASSUME NEW n \in DOMAIN by PROVE \E t \in 0 .. Len(by[n]) : In(n) = 1 .. t
  <2> DEFINE m == Len(by[n])
  <2>1. m \in Nat /\ In(n) \in SUBSET (1 .. m)
    BY <1>3
  <2>2. ASSUME NEW i \in In(n), NEW j \in 1 .. i PROVE j \in In(n)
    <3>1. i \in 1 .. m /\ Ahead(order, size, i, n)
      OBVIOUS
    <3>2. j \in 1 .. m
      BY <2>1, <3>1
    <3>3. CASE j = i
      BY <3>3
    <3>4. CASE j # i
      <4>1. Sooner(<<j, n>>, <<i, n>>)
        BY <3>1, <3>4 DEF Sooner
      <4>2. Ahead(order, size, j, n)
        BY <1>4, <3>1, <3>2, <4>1
      <4> QED
        BY <3>2, <4>2
    <3> QED
      BY <3>3, <3>4
  <2> HIDE DEF In, m
  <2>3. \E t \in 0 .. m : In(n) = 1 .. t
    BY <2>1, <2>2, DownClosed
  <2> QED
    BY <2>3 DEF m
<1> DEFINE t == [n \in DOMAIN by |-> CHOOSE x \in 0 .. Len(by[n]) : In(n) = 1 .. x]
<1>6. \A n \in DOMAIN by : t[n] \in 0 .. Len(by[n]) /\ In(n) = 1 .. t[n]
  <2>1. ASSUME NEW n \in DOMAIN by PROVE t[n] \in 0 .. Len(by[n]) /\ In(n) = 1 .. t[n]
    <3>1. t[n] = CHOOSE x \in 0 .. Len(by[n]) : In(n) = 1 .. x
      OBVIOUS
    <3> HIDE DEF In, t
    <3> QED
      BY <1>5, <3>1
  <2> QED
    BY <2>1
<1>7. DOMAIN t = DOMAIN by /\ t = [n \in DOMAIN by |-> t[n]]
  OBVIOUS
<1> HIDE DEF t
<1>8. ASSUME NEW n \in DOMAIN by, NEW i \in 1 .. Len(by[n]) PROVE i <= t[n] <=> Ahead(order, size, i, n)
  <2>1. i \in In(n) <=> Ahead(order, size, i, n)
    OBVIOUS
  <2> HIDE DEF In
  <2>2. i \in In(n) <=> i \in 1 .. t[n]
    BY <1>6
  <2>3. t[n] \in Nat
    BY <1>3, <1>6
  <2>4. i \in 1 .. t[n] <=> i <= t[n]
    BY <1>3, <2>3
  <2> QED
    BY <2>1, <2>2, <2>4
<1>9. ASSUME NEW n \in DOMAIN by, NEW m \in DOMAIN by, t[n] < Len(by[n]) PROVE t[m] <= t[n] + 1
  <2> DEFINE a == t[n]
             b == t[m]
             la == Len(by[n])
             lb == Len(by[m])
  <2>1. a \in Nat /\ b \in Nat /\ la \in Nat /\ lb \in Nat /\ a < la /\ b <= lb
    BY <1>3, <1>6, <1>9
  <2>2. SUFFICES ASSUME ~(b <= a + 1) PROVE FALSE
    OBVIOUS
  <2>3. b \in 1 .. lb /\ a + 1 \in 1 .. la /\ a + 1 < b /\ b <= b /\ ~(a + 1 <= a)
    <3> HIDE DEF a, b, la, lb
    <3> QED
      BY <2>1, <2>2
  <2>4. Ahead(order, size, b, m)
    BY <1>8, <2>3
  <2>5. Sooner(<<a + 1, n>>, <<b, m>>)
    <3> HIDE DEF a, b
    <3> QED
      BY <2>3 DEF Sooner
  <2>6. b \in 1 .. Len(by[m]) /\ a + 1 \in 1 .. Len(by[n])
    BY <2>3
  <2> HIDE DEF b
  <2>7. Ahead(order, size, a + 1, n)
    BY <1>4, <2>4, <2>5, <2>6
  <2> HIDE DEF a
  <2>8. a + 1 <= a
    BY <1>8, <2>6, <2>7 DEF a
  <2> QED
    BY <2>3, <2>8
<1>10. t \in [DOMAIN by -> Nat]
  BY <1>3, <1>6, <1>7
<1>11. \A n \in DOMAIN by : t[n] <= Len(by[n])
  BY <1>3, <1>6
<1> HIDE DEF In
<1> QED
  BY <1>8, <1>9, <1>10, <1>11

-----------------------------------------------------------------------------
(* The jobs of a code scan                                                 *)

Names(cfg) == {cfg.repos[i].name : i \in DOMAIN cfg.repos}
LastOf(cfg, n) == cfg.repos[Max({i \in DOMAIN cfg.repos : cfg.repos[i].name = n})]
Of(js, n) == {js[i] : i \in {j \in DOMAIN js : js[j].repo = n}}
FitOf(cfg, n) == Matched(LastOf(cfg, n), cfg)

LEMMA ByRepoShape ==
  ASSUME NEW cfg, OssInput(cfg), NEW by, by = ByRepo(cfg)
  PROVE  /\ Shelves(by) /\ DOMAIN by = Names(cfg)
         /\ \A n \in Names(cfg) : LastOf(cfg, n).name = n /\ RepoInput(LastOf(cfg, n))
         /\ \A n \in Names(cfg) : by[n] = Kept(LastOf(cfg, n), cfg)
<1> DEFINE N == Names(cfg)
           count == Len(cfg.repos)
<1>1. /\ cfg.repos \in Seq(Range(cfg.repos)) /\ cfg.maxFiles \in Nat /\ cfg.perRepo \in Nat
      /\ \A i \in DOMAIN cfg.repos : RepoInput(cfg.repos[i])
  BY DEF OssInput
<1>2. count \in Nat /\ DOMAIN cfg.repos = 1 .. count
  BY <1>1
<1> HIDE DEF count
<1>3. ASSUME NEW n \in N PROVE LastOf(cfg, n).name = n /\ RepoInput(LastOf(cfg, n))
  <2> DEFINE S == {i \in DOMAIN cfg.repos : cfg.repos[i].name = n}
  <2>1. S # {} /\ S \in SUBSET (1 .. count)
    BY <1>2 DEF Names
  <2>2. LastOf(cfg, n) = cfg.repos[Max(S)]
    BY DEF LastOf
  <2>3. \A i \in S : i \in DOMAIN cfg.repos /\ cfg.repos[i].name = n
    OBVIOUS
  <2> HIDE DEF S
  <2>4. Max(S) \in S
    BY <1>2, <2>1, MaxOfSome
  <2> QED
    BY <1>1, <2>2, <2>3, <2>4
<1>4. DOMAIN by = N /\ \A n \in N : by[n] = Kept(LastOf(cfg, n), cfg)
  BY DEF ByRepo, Names, LastOf
<1>5. IsFiniteSet(N) /\ N \subseteq Nat
  <2> DEFINE g == [i \in DOMAIN cfg.repos |-> cfg.repos[i].name]
             D == DOMAIN cfg.repos
  <2>1. N = {g[i] : i \in D}
    BY DEF Names
  <2>2. IsFiniteSet(D)
    BY <1>2, FS_Interval
  <2>3. N \subseteq Nat
    BY <1>1 DEF Names, RepoInput
  <2> HIDE DEF g, D, N
  <2> QED
    BY <2>1, <2>2, <2>3, FiniteImage
<1>6. ASSUME NEW n \in N PROVE Len(by[n]) \in Nat /\ DOMAIN by[n] = 1 .. Len(by[n])
  <2> DEFINE repo == LastOf(cfg, n)
             M == Matched(repo, cfg)
             kept == by[n]
  <2>1. RepoInput(repo) /\ cfg.maxFiles \in Nat /\ cfg.perRepo \in Nat /\ M = Matched(repo, cfg)
        /\ kept = Kept(repo, cfg)
    BY <1>1, <1>3, <1>4
  <2> HIDE DEF repo, M, kept
  <2>2. Len(kept) \in Nat /\ DOMAIN kept = 1 .. Len(kept)
    BY <2>1, KeptShape
  <2> QED
    BY <2>2 DEF kept
<1> QED
  BY <1>3, <1>4, <1>5, <1>6 DEF Shelves

LEMMA ByRepoKept ==
  ASSUME NEW cfg, OssInput(cfg), NEW by, by = ByRepo(cfg), NEW n \in Names(cfg)
  PROVE  /\ by[n] \in Seq(FitOf(cfg, n)) /\ Len(by[n]) \in Nat /\ Len(by[n]) = Most(cfg, FitOf(cfg, n))
         /\ DOMAIN by[n] = 1 .. Len(by[n])
         /\ \A i, j \in 1 .. Len(by[n]) : by[n][i] = by[n][j] => i = j
         /\ \A i \in 1 .. Len(by[n]) : by[n][i].repo = n
         /\ \A m \in FitOf(cfg, n) : m.loc \in Nat
         /\ \A m \in FitOf(cfg, n), i \in 1 .. Len(by[n]) :
              m.loc > by[n][i].loc => \E j \in 1 .. i : by[n][j] = m
<1> DEFINE repo == LastOf(cfg, n)
           M == FitOf(cfg, n)
           kept == by[n]
<1>1. /\ RepoInput(repo) /\ cfg.maxFiles \in Nat /\ cfg.perRepo \in Nat /\ M = Matched(repo, cfg)
      /\ kept = Kept(repo, cfg) /\ repo.name = n
  BY ByRepoShape DEF OssInput, FitOf
<1> HIDE DEF repo, M, kept
<1>2. /\ kept \in Seq(M) /\ Len(kept) \in Nat /\ Len(kept) = Most(cfg, M) /\ DOMAIN kept = 1 .. Len(kept)
      /\ \A i, j \in 1 .. Len(kept) : kept[i] = kept[j] => i = j
      /\ \A m \in M, i \in 1 .. Len(kept) : m.loc > kept[i].loc => \E j \in 1 .. i : kept[j] = m
  BY <1>1, KeptShape
<1>3. \A m \in M : m.repo = repo.name /\ m.loc \in Nat
  BY <1>1, MatchedShape
<1>4. \A i \in 1 .. Len(kept) : kept[i].repo = n
  <2>1. \A i \in 1 .. Len(kept) : kept[i] \in M
    BY <1>2
  <2> QED
    BY <1>1, <1>3, <2>1
<1> QED
  BY <1>2, <1>3, <1>4 DEF M, kept

LEMMA SumIsOfFunction ==
  ASSUME NEW D, IsFiniteSet(D), NEW g, DOMAIN g = D
  PROVE  \E f : Sums(f, D, g) /\ SumFunction(g) = f[D]
<1> DEFINE c == CHOOSE f : f = [S \in SUBSET D |->
                    IF S = {} THEN 0 ELSE g[CHOOSE k \in S : TRUE] + f[S \ {CHOOSE k \in S : TRUE}]]
<1>1. SumFunction(g) = c[D]
  BY DEF SumFunction, SumFunctionOnSet, FoldFunctionOnSet, MapThenFoldSet
<1>2. Sums(c, D, g)
  BY SumChosen
<1> HIDE DEF c
<1> QED
  BY <1>1, <1>2

\* How many jobs there are.
LEMMA DealLength ==
  ASSUME NEW cfg, OssInput(cfg), NEW by, by = ByRepo(cfg), NEW T, T = Turns(by)
  PROVE  Cardinality(T) = SumFunction([n \in Names(cfg) |-> Most(cfg, FitOf(cfg, n))])
<1> DEFINE N == Names(cfg)
           g == [n \in N |-> Most(cfg, FitOf(cfg, n))]
<1>1. Shelves(by) /\ DOMAIN by = N
  BY ByRepoShape
<1>2. g = Lengths(by)
  <2>1. \A n \in N : Len(by[n]) = Most(cfg, FitOf(cfg, n))
    BY ByRepoKept
  <2> QED
    BY <1>1, <2>1 DEF Lengths
<1>3. IsFiniteSet(N) /\ DOMAIN g = N
  BY <1>1 DEF Shelves
<1> HIDE DEF g, N
<1>4. PICK f : Sums(f, N, g) /\ SumFunction(g) = f[N]
  BY <1>3, SumIsOfFunction
<1>5. Sums(f, DOMAIN by, Lengths(by))
  BY <1>1, <1>2, <1>4
<1>6. Cardinality(T) = f[DOMAIN by]
  BY <1>1, <1>5, TurnsCounted
<1> QED
  BY <1>1, <1>4, <1>6 DEF g, N

\* The jobs of a code scan are the first of a deal.
LEMMA OssExpanded ==
  ASSUME NEW cfg, OssInput(cfg), NEW js \in OssExpansions(cfg)
  PROVE  \E by, order, t :
           /\ by = ByRepo(cfg)
           /\ Listed(js) /\ Len(js) = Min({cfg.limit, Cardinality(Turns(by))})
           /\ \A i, j \in 1 .. Len(js) : order[i] = order[j] => i = j
           /\ \A k \in 1 .. Len(js) : /\ order[k] = <<order[k][1], order[k][2]>> /\ order[k][2] \in Names(cfg)
                                      /\ order[k][1] \in 1 .. Len(by[order[k][2]])
                                      /\ js[k] = by[order[k][2]][order[k][1]]
           /\ t \in [Names(cfg) -> Nat]
           /\ \A n \in Names(cfg) : /\ t[n] <= Len(by[n])
                                    /\ \A i \in 1 .. Len(by[n]) : i <= t[n] <=> Ahead(order, Len(js), i, n)
           /\ \A n, m \in Names(cfg) : t[n] < Len(by[n]) => t[m] <= t[n] + 1
<1> DEFINE by == ByRepo(cfg)
           T == Turns(by)
           order == InTurns(T)
           deal == Dealt(by)
           c == Cardinality(T)
           size == Len(js)
<1>1. js = AtMost(deal, cfg.limit)
  BY DEF OssExpansions
<1>2. cfg.limit \in Nat
  BY DEF OssInput
<1>3. by = ByRepo(cfg) /\ T = Turns(by) /\ order = InTurns(T) /\ deal = Dealt(by)
  OBVIOUS
<1> HIDE DEF by, T, order, deal
<1>4. Shelves(by) /\ DOMAIN by = Names(cfg)
  BY <1>3, ByRepoShape
<1>5. /\ c \in Nat
      /\ order \in Seq(T) /\ Len(order) = c
      /\ \A i, j \in 1 .. c : order[i] = order[j] => i = j
      /\ Listed(deal) /\ Len(deal) = c
      /\ \A k \in 1 .. c : deal[k] = by[order[k][2]][order[k][1]]
  BY <1>3, <1>4, DealtShape, SMTT(60)
<1>6. \A x \in T : x = <<x[1], x[2]>> /\ x[2] \in DOMAIN by /\ x[1] \in 1 .. Len(by[x[2]])
  BY <1>3, <1>4, TurnsOf
<1> HIDE DEF c
<1>7. /\ js \in Seq(Range(deal)) /\ Len(js) = IF cfg.limit <= c THEN cfg.limit ELSE c
      /\ \A i \in 1 .. Len(js) : i \in 1 .. c /\ js[i] = deal[i]
  <2>1. /\ js \in Seq(Range(deal)) /\ Len(js) = IF cfg.limit <= Len(deal) THEN cfg.limit ELSE Len(deal)
        /\ \A i \in 1 .. Len(js) : i \in 1 .. Len(deal) /\ js[i] = deal[i]
    <3>1. deal \in Seq(Range(deal))
      BY <1>5 DEF Listed
    <3> QED
      BY <1>1, <1>2, <3>1, AtMostShape
  <2> QED
    BY <1>5, <2>1
<1>8. size \in Nat /\ size <= c /\ size = Min({cfg.limit, c})
  BY <1>2, <1>5, <1>7, MinOfTwo
<1>9. Listed(js)
  <2>1. DOMAIN js = 1 .. size /\ js = [i \in 1 .. size |-> js[i]]
    BY <1>7
  <2> HIDE DEF size
  <2> QED
    BY <1>8, <2>1, MadeList
<1>10. \A i, j \in 1 .. size : order[i] = order[j] => i = j
  BY <1>5, <1>8
<1>11. ASSUME NEW k \in 1 .. size
       PROVE  /\ order[k] = <<order[k][1], order[k][2]>> /\ order[k][2] \in Names(cfg)
              /\ order[k][1] \in 1 .. Len(by[order[k][2]])
              /\ js[k] = by[order[k][2]][order[k][1]]
  <2>1. k \in 1 .. c /\ js[k] = deal[k]
    BY <1>7
  <2>2. order[k] \in T
    BY <1>5, <2>1
  <2> QED
    BY <1>4, <1>5, <1>6, <2>1, <2>2
<1>12. PICK t \in [DOMAIN by -> Nat] :
          /\ \A n \in DOMAIN by : /\ t[n] <= Len(by[n])
                                  /\ \A i \in 1 .. Len(by[n]) : i <= t[n] <=> Ahead(order, size, i, n)
          /\ \A n, m \in DOMAIN by : t[n] < Len(by[n]) => t[m] <= t[n] + 1
  <2>1. size \in Nat /\ size <= Cardinality(T)
    BY <1>8 DEF c
  <2> HIDE DEF size
  <2> QED
    BY <1>3, <1>4, <2>1, FrontIsFair
<1>13. size = Min({cfg.limit, Cardinality(Turns(by))})
  BY <1>3, <1>8 DEF c
<1>14. t \in [Names(cfg) -> Nat]
  BY <1>4
<1>15. \A n \in Names(cfg) : /\ t[n] <= Len(by[n])
                             /\ \A i \in 1 .. Len(by[n]) : i <= t[n] <=> Ahead(order, size, i, n)
  BY <1>4, <1>12
<1>16. \A n, m \in Names(cfg) : t[n] < Len(by[n]) => t[m] <= t[n] + 1
  BY <1>4, <1>12
<1> WITNESS by, order, t
<1> QED
  BY <1>3, <1>9, <1>10, <1>11, <1>13, <1>14, <1>15, <1>16

LEMMA OssShared ==
  ASSUME NEW cfg, OssInput(cfg), NEW js \in OssExpansions(cfg)
  PROVE  /\ Listed(js) /\ IsInjective(js)
         /\ Len(js) = Min({cfg.limit, SumFunction([n \in Names(cfg) |-> Most(cfg, FitOf(cfg, n))])})
         /\ \A n, m \in Names(cfg) : Cardinality(Of(js, n)) < Most(cfg, FitOf(cfg, n)) =>
                                       Cardinality(Of(js, m)) <= Cardinality(Of(js, n)) + 1
         /\ \A n \in Names(cfg) : \A out \in FitOf(cfg, n) \ Of(js, n), job \in Of(js, n) : out.loc <= job.loc
<1> DEFINE size == Len(js)
<1>1. PICK by, order, t :
           /\ by = ByRepo(cfg)
           /\ Listed(js) /\ Len(js) = Min({cfg.limit, Cardinality(Turns(by))})
           /\ \A i, j \in 1 .. Len(js) : order[i] = order[j] => i = j
           /\ \A k \in 1 .. Len(js) : /\ order[k] = <<order[k][1], order[k][2]>> /\ order[k][2] \in Names(cfg)
                                      /\ order[k][1] \in 1 .. Len(by[order[k][2]])
                                      /\ js[k] = by[order[k][2]][order[k][1]]
           /\ t \in [Names(cfg) -> Nat]
           /\ \A n \in Names(cfg) : /\ t[n] <= Len(by[n])
                                    /\ \A i \in 1 .. Len(by[n]) : i <= t[n] <=> Ahead(order, Len(js), i, n)
           /\ \A n, m \in Names(cfg) : t[n] < Len(by[n]) => t[m] <= t[n] + 1
  BY OssExpanded
<1>2. size \in Nat /\ DOMAIN js = 1 .. size
  BY <1>1, ListedShape
<1>a. ASSUME NEW n \in Names(cfg)
      PROVE  /\ by[n] \in Seq(FitOf(cfg, n)) /\ Len(by[n]) \in Nat /\ Len(by[n]) = Most(cfg, FitOf(cfg, n))
             /\ \A i, j \in 1 .. Len(by[n]) : by[n][i] = by[n][j] => i = j
             /\ \A i \in 1 .. Len(by[n]) : by[n][i].repo = n
             /\ \A m \in FitOf(cfg, n) : m.loc \in Nat
             /\ \A m \in FitOf(cfg, n), i \in 1 .. Len(by[n]) :
                  m.loc > by[n][i].loc => \E j \in 1 .. i : by[n][j] = m
  <2>1. by = ByRepo(cfg)
    BY <1>1
  <2> QED
    BY <2>1, ByRepoKept
<1>3. \A n \in Names(cfg) :
         /\ by[n] \in Seq(FitOf(cfg, n)) /\ Len(by[n]) \in Nat /\ Len(by[n]) = Most(cfg, FitOf(cfg, n))
         /\ \A i, j \in 1 .. Len(by[n]) : by[n][i] = by[n][j] => i = j
         /\ \A i \in 1 .. Len(by[n]) : by[n][i].repo = n
         /\ \A m \in FitOf(cfg, n) : m.loc \in Nat
         /\ \A m \in FitOf(cfg, n), i \in 1 .. Len(by[n]) :
              m.loc > by[n][i].loc => \E j \in 1 .. i : by[n][j] = m
  BY <1>a
<1>b. ASSUME NEW k \in 1 .. size, NEW n, NEW i, order[k] = <<i, n>>
      PROVE  n \in Names(cfg) /\ i \in 1 .. Len(by[n]) /\ js[k] = by[n][i]
  <2>1. /\ order[k][2] \in Names(cfg) /\ order[k][1] \in 1 .. Len(by[order[k][2]])
        /\ js[k] = by[order[k][2]][order[k][1]]
    BY <1>1
  <2>2. order[k][1] = i /\ order[k][2] = n
    BY <1>b
  <2> QED
    BY <2>1, <2>2
<1>4. ASSUME NEW k \in 1 .. size PROVE js[k].repo = order[k][2]
  <2> DEFINE i == order[k][1]
             n == order[k][2]
  <2>1. order[k] = <<i, n>>
    BY <1>1
  <2> HIDE DEF i, n
  <2>2. n \in Names(cfg) /\ i \in 1 .. Len(by[n]) /\ js[k] = by[n][i]
    BY <1>b, <2>1
  <2>3. js[k].repo = n
    BY <1>3, <2>2
  <2> QED
    BY <2>3 DEF n
<1>5. IsInjective(js)
  <2>1. ASSUME NEW i \in 1 .. size, NEW j \in 1 .. size, js[i] = js[j] PROVE i = j
    <3>1. order[i][2] = order[j][2]
      BY <1>4, <2>1
    <3> DEFINE n == order[i][2]
               a == order[i][1]
               b == order[j][1]
    <3>2. order[i] = <<a, n>> /\ order[j] = <<b, n>>
      BY <1>1, <3>1
    <3> HIDE DEF n, a, b
    <3>3. /\ n \in Names(cfg) /\ a \in 1 .. Len(by[n]) /\ js[i] = by[n][a]
      BY <1>b, <3>2
    <3>4. b \in 1 .. Len(by[n]) /\ js[j] = by[n][b]
      BY <1>b, <3>2
    <3>5. by[n][a] = by[n][b]
      BY <2>1, <3>3, <3>4
    <3>6. a = b
      BY <1>3, <3>3, <3>4, <3>5
    <3>7. order[i] = order[j]
      BY <3>2, <3>6
    <3> QED
      BY <1>1, <3>7
  <2> HIDE DEF size
  <2> QED
    BY <1>2, <2>1 DEF IsInjective
\* What is taken of a repository is its first modules.
<1>6. ASSUME NEW n \in Names(cfg) PROVE Of(js, n) = {by[n][i] : i \in 1 .. t[n]}
  <2>1. t[n] \in Nat /\ t[n] <= Len(by[n]) /\ Len(by[n]) \in Nat
    BY <1>1, <1>3
  <2>2. ASSUME NEW x \in Of(js, n) PROVE \E i \in 1 .. t[n] : by[n][i] = x
    <3>1. PICK k \in 1 .. size : js[k] = x /\ js[k].repo = n
      BY <1>2 DEF Of
    <3>2. order[k][2] = n
      BY <1>4, <3>1
    <3> DEFINE i == order[k][1]
    <3>3. order[k] = <<i, n>> /\ i \in 1 .. Len(by[n]) /\ x = by[n][i]
      BY <1>1, <3>1, <3>2
    <3> HIDE DEF i
    <3>4. Ahead(order, size, i, n)
      BY <3>3 DEF Ahead
    <3>5. i <= t[n]
      BY <1>1, <3>3, <3>4
    <3>6. i \in 1 .. t[n]
      BY <2>1, <3>3, <3>5
    <3> QED
      BY <3>3, <3>6
  <2>3. ASSUME NEW i \in 1 .. t[n] PROVE by[n][i] \in Of(js, n)
    <3>1. i \in 1 .. Len(by[n]) /\ i <= t[n]
      BY <2>1
    <3>2. Ahead(order, size, i, n)
      BY <1>1, <3>1
    <3>3. PICK k \in 1 .. size : order[k] = <<i, n>>
      BY <3>2 DEF Ahead
    <3>4. js[k] = by[n][i]
      BY <1>b, <3>3
    <3>5. js[k].repo = n
      BY <1>4, <3>3
    <3> QED
      BY <1>2, <3>4, <3>5 DEF Of
  <2> QED
    BY <2>2, <2>3
<1>7. ASSUME NEW n \in Names(cfg) PROVE Cardinality(Of(js, n)) = t[n]
  <2> DEFINE m == t[n]
             O == Of(js, n)
             g == [i \in 1 .. m |-> by[n][i]]
  <2>1. m \in Nat /\ m <= Len(by[n]) /\ Len(by[n]) \in Nat
    BY <1>1, <1>3
  <2>2. O = {by[n][i] : i \in 1 .. m}
    BY <1>6
  <2> HIDE DEF m, O
  <2>3. g \in [1 .. m -> O] /\ DOMAIN g = 1 .. m /\ \A y \in O : \E i \in 1 .. m : g[i] = y
    BY <2>2
  <2>4. ASSUME NEW i \in 1 .. m, NEW j \in 1 .. m, g[i] = g[j] PROVE i = j
    <3>1. i \in 1 .. Len(by[n]) /\ j \in 1 .. Len(by[n]) /\ by[n][i] = by[n][j]
      BY <2>1, <2>4
    <3> QED
      BY <1>3, <3>1
  <2>5. IsFiniteSet(1 .. m) /\ Cardinality(1 .. m) = m
    BY <2>1, FS_Interval
  <2> HIDE DEF g
  <2>6. g \in Surjection(1 .. m, O) /\ g \in Injection(1 .. m, O)
    BY <2>3, <2>4 DEF Surjection, Injection, IsInjective
  <2>7. Cardinality(O) = m
    BY <2>5, <2>6, FS_Surjection
  <2> QED
    BY <2>7 DEF m, O
<1>8. ASSUME NEW n \in Names(cfg), NEW m \in Names(cfg), Cardinality(Of(js, n)) < Most(cfg, FitOf(cfg, n))
      PROVE  Cardinality(Of(js, m)) <= Cardinality(Of(js, n)) + 1
  <2>1. Cardinality(Of(js, n)) = t[n] /\ Cardinality(Of(js, m)) = t[m] /\ Len(by[n]) = Most(cfg, FitOf(cfg, n))
    BY <1>3, <1>7
  <2> QED
    BY <1>1, <1>8, <2>1
<1>9. ASSUME NEW n \in Names(cfg), NEW out \in FitOf(cfg, n) \ Of(js, n), NEW job \in Of(js, n)
      PROVE  out.loc <= job.loc
  <2>1. PICK i \in 1 .. t[n] : job = by[n][i]
    BY <1>6
  <2>2. t[n] \in Nat /\ t[n] <= Len(by[n]) /\ Len(by[n]) \in Nat
    BY <1>1, <1>3
  <2>3. i \in 1 .. Len(by[n])
    BY <2>2
  <2>4. SUFFICES ASSUME ~(out.loc <= job.loc) PROVE FALSE
    OBVIOUS
  <2>5. job \in FitOf(cfg, n)
    BY <1>3, <2>1, <2>3
  <2>6. out.loc \in Nat /\ job.loc \in Nat
    BY <1>3, <2>5
  <2>7. out.loc > by[n][i].loc
    <3>1. out.loc > job.loc
      BY <2>4, <2>6
    <3> QED
      BY <2>1, <3>1
  <2>8. PICK j \in 1 .. i : by[n][j] = out
    BY <1>3, <2>3, <2>7
  <2>9. j \in 1 .. t[n]
    BY <2>1, <2>2
  <2>10. out \in Of(js, n)
    BY <1>6, <2>8, <2>9
  <2> QED
    BY <2>10
<1>10. size = Min({cfg.limit, SumFunction([n \in Names(cfg) |-> Most(cfg, FitOf(cfg, n))])})
  <2>1. Cardinality(Turns(by)) = SumFunction([n \in Names(cfg) |-> Most(cfg, FitOf(cfg, n))])
    BY <1>1, DealLength
  <2> QED
    BY <1>1, <2>1
<1> QED
  BY <1>1, <1>5, <1>8, <1>9, <1>10

-----------------------------------------------------------------------------
(* The jobs of the other scans of files                                    *)

LEMMA BlogPosts ==
  ASSUME NEW in, BlogInput(in), NEW js \in BlogExpansions(in)
  PROVE  /\ Listed(js) /\ {Slug(js[i]) : i \in DOMAIN js} = {Slug(f) : f \in Posts(in.files)}
         /\ \A i, j \in DOMAIN js : Slug(js[i]) = Slug(js[j]) => i = j
<1> DEFINE P == Posts(in.files)
           slugs == {Slug(f) : f \in P}
           order == Ascending(slugs)
           c == Cardinality(slugs)
<1>1. IsFiniteSet(slugs) /\ Numbers(slugs)
  <2> DEFINE g == [f \in P |-> Slug(f)]
  <2>1. IsFiniteSet(in.files) /\ P \in SUBSET in.files
    BY DEF BlogInput, Posts
  <2>2. IsFiniteSet(P)
    <3> HIDE DEF P
    <3> QED
      BY <2>1, FS_Subset
  <2>3. slugs = {g[f] : f \in P}
    OBVIOUS
  <2>4. Numbers(slugs)
    BY DEF BlogInput, Numbers
  <2> HIDE DEF g, P, slugs
  <2> QED
    BY <2>2, <2>3, <2>4, FiniteImage
<1>2. /\ c \in Nat /\ \A i \in 1 .. c : order[i] \in slugs
      /\ \A i, j \in 1 .. c : order[i] = order[j] => i = j
      /\ \A x \in slugs : \E i \in 1 .. c : order[i] = x
  <2>1. order = Ascending(slugs)
    OBVIOUS
  <2> HIDE DEF slugs, order
  <2>2. /\ order \in Seq(slugs) /\ Len(order) = Cardinality(slugs) /\ Len(order) \in Nat
        /\ \A i, j \in 1 .. Len(order) : order[i] = order[j] => i = j
        /\ \A x \in slugs : \E i \in 1 .. Len(order) : order[i] = x
    BY <1>1, <2>1, AscendingShape
  <2> QED
    BY <2>2
<1>3. PICK f \in [slugs -> P] : /\ \A s \in slugs : Slug(f[s]) = s
                                /\ js = [i \in 1 .. c |-> f[order[i]]]
  BY DEF BlogExpansions, Published
<1> HIDE DEF slugs, order, c
<1>4. DOMAIN js = 1 .. c /\ js = [i \in 1 .. c |-> js[i]]
  BY <1>3
<1>5. \A i \in 1 .. c : Slug(js[i]) = order[i]
  BY <1>2, <1>3
<1>6. {Slug(js[i]) : i \in DOMAIN js} = slugs
  BY <1>2, <1>4, <1>5
<1>7. \A i, j \in DOMAIN js : Slug(js[i]) = Slug(js[j]) => i = j
  BY <1>2, <1>4, <1>5
<1>8. Listed(js)
  BY <1>2, <1>4, MadeList
<1> QED
  BY <1>6, <1>7, <1>8 DEF slugs

LEMMA DocsListed ==
  ASSUME NEW in, IsFiniteSet(in.files), in.limit \subseteq Nat, NEW js \in DocsExpansions(in)
  PROVE  Listed(js)
<1> DEFINE P == Pages(in)
           c == Cardinality(P)
           pick(i) == CHOOSE x \in P : Cardinality({y \in P : y.name < x.name}) = i - 1
           sorted == [i \in 1 .. c |-> pick(i)]
           limit == IF in.limit = {} THEN Len(sorted) ELSE Min(in.limit)
           front == AtMost(sorted, limit)
<1>1. js = [i \in DOMAIN front |-> [name |-> sorted[i].name, inNav |-> InNav(in, sorted[i])]]
  BY DEF DocsExpansions, SitePages, Sorted
<1>2. c \in Nat
  <2>1. P \in SUBSET in.files
    BY DEF Pages
  <2> HIDE DEF P
  <2> QED
    BY <2>1, FS_Subset, FS_CardinalityType
<1>3. Listed(sorted) /\ Len(sorted) = c
  <2> HIDE DEF pick
  <2>1. DOMAIN sorted = 1 .. c /\ sorted = [i \in 1 .. c |-> sorted[i]]
    OBVIOUS
  <2> HIDE DEF sorted, c
  <2> QED
    BY <1>2, <2>1, MadeList
<1> HIDE DEF sorted
<1>4. limit \in Nat
  BY <1>2, <1>3, MinOfSome
<1>5. front \in Seq(Range(sorted)) /\ Len(front) \in Nat
  <2>1. front = AtMost(sorted, limit) /\ sorted \in Seq(Range(sorted))
    BY <1>3 DEF Listed
  <2> HIDE DEF front, limit
  <2>2. front \in Seq(Range(sorted))
    BY <1>4, <2>1, AtMostShape
  <2> QED
    BY <2>2
<1> HIDE DEF front
<1> DEFINE n == Len(front)
<1>6. DOMAIN front = 1 .. n /\ n \in Nat
  BY <1>5
<1> HIDE DEF n
<1>7. DOMAIN js = 1 .. n /\ js = [i \in 1 .. n |-> js[i]]
  BY <1>1, <1>6
<1> QED
  BY <1>6, <1>7, MadeList

LEMMA TraceListed ==
  ASSUME NEW in, IsFiniteSet(in.files), NEW js \in TraceExpansions(in) PROVE Listed(js)
<1> DEFINE P == Traces(in)
           c == Cardinality(P)
<1>1. js = [i \in 1 .. c |-> CHOOSE x \in P : Cardinality({y \in P : y.name < x.name}) = i - 1]
  BY DEF TraceExpansions, Sorted
<1>2. c \in Nat
  <2>1. P \in SUBSET in.files
    BY DEF Traces
  <2> HIDE DEF P
  <2> QED
    BY <2>1, FS_Subset, FS_CardinalityType
<1> HIDE DEF P, c
<1>3. DOMAIN js = 1 .. c /\ js = [i \in 1 .. c |-> js[i]]
  BY <1>1
<1> QED
  BY <1>2, <1>3, MadeList

-----------------------------------------------------------------------------
(* The pools                                                               *)

\* A list without repetition of a finite set.
LEMMA ShuffledShape ==
  ASSUME NEW S, IsFiniteSet(S), NEW f \in Shuffled(S)
  PROVE  Listed(f) /\ Len(f) = Cardinality(S) /\ IsInjective(f) /\ Range(f) = S
<1> DEFINE c == Cardinality(S)
<1>1. c \in Nat
  BY FS_CardinalityType
<1>2. f \in [1 .. c -> S] /\ \A i, j \in 1 .. c : i # j => f[i] # f[j]
  BY DEF Shuffled, SetToSeqs
<1>3. IsFiniteSet(1 .. c) /\ Cardinality(1 .. c) = c
  BY <1>1, FS_Interval
<1>4. DOMAIN f = 1 .. c /\ f = [i \in 1 .. c |-> f[i]] /\ IsInjective(f) /\ f \in Injection(1 .. c, S)
  <2> HIDE DEF c
  <2>1. DOMAIN f = 1 .. c /\ f = [i \in 1 .. c |-> f[i]]
    BY <1>2
  <2>2. IsInjective(f)
    BY <1>2, <2>1 DEF IsInjective
  <2> QED
    BY <1>2, <2>1, <2>2 DEF Injection
<1>5. f \in Surjection(1 .. c, S)
  BY <1>3, <1>4, FS_Injection
<1> HIDE DEF c
<1>6. Range(f) = S
  BY <1>2, <1>4, <1>5 DEF Range, Surjection
<1>7. Listed(f) /\ Len(f) = c
  BY <1>1, <1>4, MadeList
<1> QED
  BY <1>4, <1>6, <1>7 DEF c

LEMMA SomeShape ==
  ASSUME NEW S, IsFiniteSet(S), NEW n \in Int, n >= 0, NEW s \in Some(S, n)
  PROVE  /\ s \subseteq S /\ IsFiniteSet(s) /\ Cardinality(s) \in Nat /\ Cardinality(s) <= n
         /\ Cardinality(S) \in Nat /\ Cardinality(s) = IF n <= Cardinality(S) THEN n ELSE Cardinality(S)
<1>1. Cardinality(S) \in Nat /\ n \in Nat
  BY FS_CardinalityType
<1>2. s \in SUBSET S /\ Cardinality(s) = Min({n, Cardinality(S)})
  BY DEF Some, kSubset
<1>3. Cardinality(s) = IF n <= Cardinality(S) THEN n ELSE Cardinality(S)
  BY <1>1, <1>2, MinOfTwo
<1>4. IsFiniteSet(s)
  BY <1>2, FS_Subset
<1> QED
  BY <1>1, <1>2, <1>3, <1>4

LEMMA PoolSizes ==
  ASSUME NEW in, ObliqInput(in)
  PROVE  PoolSize(in) \in Nat /\ PoolSize(in) >= 2
<1>1. in.poolSize \in Nat
  BY DEF ObliqInput
<1> QED
  BY <1>1, MaxOfTwo DEF PoolSize

LEMMA GoldsLeaveRoom ==
  ASSUME NEW size \in Nat, size >= 2
  PROVE  GoldSlots(size) \in Nat /\ GoldSlots(size) >= 1 /\ GoldSlots(size) <= size - 1
<1> DEFINE kept == IF size >= 4 THEN Max({2, size \div 4}) ELSE 1
<1>1. kept \in Nat /\ kept >= 1 /\ kept <= size - 1
  <2>1. CASE size >= 4
    <3>1. size \div 4 \in Int /\ size \div 4 <= size - 1
      BY <2>1
    <3>2. kept = Max({2, size \div 4})
      BY <2>1
    <3> QED
      BY <2>1, <3>1, <3>2, MaxOfTwo
  <2>2. CASE ~(size >= 4)
    BY <2>2
  <2> QED
    BY <2>1, <2>2
<1>2. GoldSlots(size) = Max({1, size - kept})
  BY DEF GoldSlots
<1> HIDE DEF kept
<1>3. size - kept \in Int /\ size - kept <= size - 1 /\ 1 <= size - kept
  BY <1>1
<1> QED
  BY <1>2, <1>3, MaxOfTwo

\* What is promised of a pool for a query.
Honest(in, q, pool) ==
  /\ Cardinality(pool) <= PoolSize(in) /\ pool \subseteq in.corpus /\ pool \cap in.excluded[q] \subseteq in.golds[q]
  /\ in.mode \in {"verify", "hard_verify"} =>
       /\ (in.golds[q] \cap in.corpus # {}) <=> (pool \cap in.golds[q] # {})
       /\ in.corpus \ (in.golds[q] \cup in.excluded[q]) # {} => pool \ (pool \cap in.golds[q]) # {}
  /\ in.mode = "hard_verify" => Cardinality(pool \cap in.golds[q]) <= 1

LEMMA ObliqSets ==
  ASSUME NEW in, ObliqInput(in), NEW q \in in.queries
  PROVE  /\ IsFiniteSet(in.corpus) /\ Numbers(in.corpus)
         /\ IsFiniteSet(Infusable(in, q)) /\ Infusable(in, q) \subseteq in.corpus
         /\ IsFiniteSet(Distractors(in, q)) /\ Distractors(in, q) \subseteq in.corpus
         /\ Infusable(in, q) = in.golds[q] \cap in.corpus
         /\ Distractors(in, q) = in.corpus \ (in.golds[q] \cup in.excluded[q])
         /\ \A d \in in.corpus : in.lexical[q][d] \in Nat
<1>1. IsFiniteSet(in.corpus) /\ Numbers(in.corpus) /\ \A d \in in.corpus : in.lexical[q][d] \in Nat
  BY DEF ObliqInput, Numbers
<1>2. /\ Infusable(in, q) = in.golds[q] \cap in.corpus
      /\ Distractors(in, q) = in.corpus \ (in.golds[q] \cup in.excluded[q])
  BY DEF Infusable, Distractors
<1>3. Infusable(in, q) \in SUBSET in.corpus /\ Distractors(in, q) \in SUBSET in.corpus
  BY <1>2
<1> QED
  BY <1>1, <1>2, <1>3, FS_Subset

LEMMA JoinedSize ==
  ASSUME NEW A, NEW B, IsFiniteSet(A), IsFiniteSet(B)
  PROVE  Cardinality(A \cup B) <= Cardinality(A) + Cardinality(B)
<1>1. Cardinality(A \cup B) = Cardinality(A) + Cardinality(B) - Cardinality(A \cap B)
  BY FS_Union
<1>2. IsFiniteSet(A \cap B)
  BY FS_Intersection
<1>3. Cardinality(A) \in Nat /\ Cardinality(B) \in Nat /\ Cardinality(A \cap B) \in Nat
  BY <1>2, FS_CardinalityType
<1> QED
  BY <1>1, <1>3

LEMMA VerifyHonest ==
  ASSUME NEW in, ObliqInput(in), NEW q \in in.queries, NEW pool \in VerifyPools(in, q),
         in.mode = "hard_verify" => Infusable(in, q) = {}
  PROVE  Honest(in, q, pool)
<1> DEFINE size == PoolSize(in)
           G == Infusable(in, q)
           D == Distractors(in, q)
           slots == GoldSlots(size)
<1>1. size \in Nat /\ size >= 2
  BY PoolSizes
<1>2. PICK golds \in Some(G, slots) : \E others \in Some(D, size - Cardinality(golds)) : pool = golds \cup others
  BY DEF VerifyPools
<1>3. PICK others \in Some(D, size - Cardinality(golds)) : pool = golds \cup others
  BY <1>2
<1>4. /\ IsFiniteSet(G) /\ G \subseteq in.corpus /\ IsFiniteSet(D) /\ D \subseteq in.corpus
      /\ G = in.golds[q] \cap in.corpus /\ D = in.corpus \ (in.golds[q] \cup in.excluded[q])
  BY ObliqSets
<1> HIDE DEF size, G, D
<1>5. slots \in Nat /\ slots >= 1 /\ slots <= size - 1
  BY <1>1, GoldsLeaveRoom
<1> HIDE DEF slots
<1>6. /\ golds \subseteq G /\ IsFiniteSet(golds) /\ Cardinality(golds) \in Nat /\ Cardinality(golds) <= slots
      /\ Cardinality(G) \in Nat /\ Cardinality(golds) = IF slots <= Cardinality(G) THEN slots ELSE Cardinality(G)
  BY <1>4, <1>5, SomeShape
<1> DEFINE rest == size - Cardinality(golds)
<1>7. rest \in Int /\ rest >= 1 /\ rest >= 0
  BY <1>1, <1>5, <1>6
<1>8. others \in Some(D, rest)
  OBVIOUS
<1> HIDE DEF rest
<1>9. /\ others \subseteq D /\ IsFiniteSet(others) /\ Cardinality(others) \in Nat /\ Cardinality(others) <= rest
      /\ Cardinality(D) \in Nat /\ Cardinality(others) = IF rest <= Cardinality(D) THEN rest ELSE Cardinality(D)
  BY <1>4, <1>7, <1>8, SomeShape
<1>10. G # {} => golds # {}
  <2>1. SUFFICES ASSUME G # {}, golds = {} PROVE FALSE
    OBVIOUS
  <2>2. Cardinality(G) # 0 /\ Cardinality(golds) = 0
    BY <1>4, <2>1, FS_EmptySet
  <2> QED
    BY <1>5, <1>6, <2>2
<1>11. D # {} => others # {}
  <2>1. SUFFICES ASSUME D # {}, others = {} PROVE FALSE
    OBVIOUS
  <2>2. Cardinality(D) # 0 /\ Cardinality(others) = 0
    BY <1>4, <2>1, FS_EmptySet
  <2> QED
    BY <1>7, <1>9, <2>2
<1>12. Cardinality(pool) <= size
  <2>1. Cardinality(golds \cup others) <= Cardinality(golds) + Cardinality(others)
    BY <1>6, <1>9, JoinedSize
  <2>2. IsFiniteSet(pool)
    BY <1>3, <1>6, <1>9, FS_Union
  <2>3. Cardinality(pool) \in Nat
    BY <2>2, FS_CardinalityType
  <2> QED
    BY <1>1, <1>3, <1>6, <1>9, <2>1, <2>3 DEF rest
<1>13. pool \subseteq in.corpus /\ pool \cap in.excluded[q] \subseteq in.golds[q]
  BY <1>3, <1>4, <1>6, <1>9
<1>14. pool \cap in.golds[q] = golds /\ pool \ (pool \cap in.golds[q]) = others
  BY <1>3, <1>4, <1>6, <1>9
<1>15. (in.golds[q] \cap in.corpus # {}) <=> (pool \cap in.golds[q] # {})
  BY <1>4, <1>6, <1>10, <1>14
<1>16. in.corpus \ (in.golds[q] \cup in.excluded[q]) # {} => pool \ (pool \cap in.golds[q]) # {}
  BY <1>4, <1>11, <1>14
<1>17. in.mode = "hard_verify" => Cardinality(pool \cap in.golds[q]) <= 1
  <2>1. SUFFICES ASSUME in.mode = "hard_verify" PROVE Cardinality(pool \cap in.golds[q]) <= 1
    OBVIOUS
  <2>2. pool \cap in.golds[q] = {}
    BY <1>6, <1>14, <2>1 DEF G
  <2>3. Cardinality({}) = 0
    BY FS_EmptySet
  <2> QED
    BY <2>2, <2>3
<1> QED
  BY <1>12, <1>13, <1>15, <1>16, <1>17 DEF Honest, size

LEMMA BestOfCorpus ==
  ASSUME NEW in, ObliqInput(in), NEW q \in in.queries, NEW S \in SUBSET in.corpus, NEW n \in Nat,
         NEW top, top = Top(in, q, S, n)
  PROVE  /\ top \subseteq S /\ IsFiniteSet(top) /\ Cardinality(top) \in Nat /\ Cardinality(top) <= n
<1>1. IsFiniteSet(in.corpus) /\ Numbers(in.corpus) /\ \A d \in in.corpus : in.lexical[q][d] \in Nat
  BY ObliqSets
<1>2. Numbers(S)
  BY <1>1 DEF Numbers
<1>3. Scored(in, q, S)
  BY <1>1 DEF Scored
<1>4. IsFiniteSet(S)
  BY <1>1, FS_Subset
<1> QED
  BY <1>2, <1>3, <1>4, TopShape

LEMMA HardHonest ==
  ASSUME NEW in, ObliqInput(in), NEW q \in in.queries, NEW pool \in HardPools(in, q), in.mode = "hard_verify"
  PROVE  Honest(in, q, pool)
<1> DEFINE size == PoolSize(in)
           G == Infusable(in, q)
           D == Distractors(in, q)
           need == size - 1
           S == {d \in D : in.lexical[q][d] > 0}
           near == Top(in, q, S, need)
<1>1. size \in Nat /\ size >= 2
  BY PoolSizes
<1>2. CASE G = {}
  <2>1. pool \in VerifyPools(in, q)
    BY <1>2 DEF HardPools
  <2> QED
    BY <1>2, <2>1, VerifyHonest
<1>3. CASE G # {}
  <2>1. PICK gold \in G : \E pad \in Some(D \ near, need - Cardinality(near)) : pool = {gold} \cup near \cup pad
    BY <1>3 DEF HardPools
  <2>2. PICK pad \in Some(D \ near, need - Cardinality(near)) : pool = {gold} \cup near \cup pad
    BY <2>1
  <2>3. /\ IsFiniteSet(in.corpus) /\ Numbers(in.corpus) /\ \A d \in in.corpus : in.lexical[q][d] \in Nat
        /\ IsFiniteSet(G) /\ G \subseteq in.corpus /\ IsFiniteSet(D) /\ D \subseteq in.corpus
        /\ G = in.golds[q] \cap in.corpus /\ D = in.corpus \ (in.golds[q] \cup in.excluded[q])
    BY ObliqSets
  <2> HIDE DEF size, G, D
  <2>4. need \in Nat /\ need >= 1
    BY <1>1
  <2>5. near = Top(in, q, S, need) /\ S \in SUBSET D
    OBVIOUS
  <2> HIDE DEF S, near
  <2> HIDE DEF need
  <2>8. near \subseteq S /\ IsFiniteSet(near) /\ Cardinality(near) \in Nat /\ Cardinality(near) <= need
    <3>1. near = Top(in, q, S, need) /\ S \in SUBSET in.corpus /\ need \in Nat
      BY <2>3, <2>4, <2>5
    <3> QED
      BY <3>1, BestOfCorpus
  <2> DEFINE rest == need - Cardinality(near)
             E == D \ near
  <2>9. rest \in Int /\ rest >= 0 /\ pad \in Some(E, rest) /\ IsFiniteSet(E)
    <3>1. rest \in Int /\ rest >= 0
      BY <2>4, <2>8
    <3>2. IsFiniteSet(E)
      BY <2>3, FS_Difference
    <3>3. pad \in Some(E, rest)
      OBVIOUS
    <3> QED
      BY <3>1, <3>2, <3>3
  <2>10. E \subseteq D
    OBVIOUS
  <2> HIDE DEF rest, E
  <2>11. /\ pad \subseteq E /\ IsFiniteSet(pad) /\ Cardinality(pad) \in Nat /\ Cardinality(pad) <= rest
         /\ Cardinality(E) \in Nat /\ Cardinality(pad) = IF rest <= Cardinality(E) THEN rest ELSE Cardinality(E)
    BY <2>9, SomeShape
  <2> DEFINE others == near \cup pad
  <2>12. others \subseteq D /\ pool = {gold} \cup others
    BY <2>2, <2>5, <2>8, <2>10, <2>11
  <2>13. D # {} => others # {}
    <3>1. SUFFICES ASSUME D # {}, near = {}, pad = {} PROVE FALSE
      OBVIOUS
    <3>2. E = D
      BY <3>1 DEF E
    <3>3. Cardinality(near) = 0 /\ Cardinality(pad) = 0 /\ Cardinality(E) # 0
      BY <2>9, <3>1, <3>2, FS_EmptySet
    <3>4. rest = need
      BY <2>4, <3>3 DEF rest
    <3> QED
      BY <2>4, <2>11, <3>3, <3>4
  <2>14. IsFiniteSet(others) /\ Cardinality(others) <= Cardinality(near) + Cardinality(pad)
    BY <2>8, <2>11, JoinedSize, FS_Union
  <2> HIDE DEF others
  <2>15. IsFiniteSet(pool) /\ Cardinality(pool) <= 1 + Cardinality(others)
    <3>1. IsFiniteSet({gold}) /\ Cardinality({gold}) = 1
      BY FS_Singleton
    <3> QED
      BY <2>12, <2>14, <3>1, JoinedSize, FS_Union
  <2>16. Cardinality(pool) <= size
    <3>1. Cardinality(pool) \in Nat /\ Cardinality(others) \in Nat
      BY <2>14, <2>15, FS_CardinalityType
    <3>2. Cardinality(others) <= need
      BY <2>4, <2>8, <2>11, <2>14, <3>1 DEF rest
    <3> QED
      BY <1>1, <2>15, <3>1, <3>2 DEF need
  <2>17. pool \cap in.golds[q] = {gold} /\ pool \ (pool \cap in.golds[q]) = others
    BY <2>3, <2>12
  <2>18. pool \subseteq in.corpus /\ pool \cap in.excluded[q] \subseteq in.golds[q]
    BY <2>3, <2>12
  <2>19. (in.golds[q] \cap in.corpus # {}) <=> (pool \cap in.golds[q] # {})
    BY <2>3, <2>17
  <2>20. in.corpus \ (in.golds[q] \cup in.excluded[q]) # {} => pool \ (pool \cap in.golds[q]) # {}
    BY <2>3, <2>13, <2>17
  <2>21. Cardinality(pool \cap in.golds[q]) <= 1
    <3>1. Cardinality({gold}) = 1
      BY FS_Singleton
    <3> QED
      BY <2>17, <3>1
  <2> QED
    BY <2>16, <2>18, <2>19, <2>20, <2>21 DEF Honest, size
<1> QED
  BY <1>2, <1>3

LEMMA RetrieveHonest ==
  ASSUME NEW in, ObliqInput(in), NEW q \in in.queries, NEW pool, pool = RetrievePool(in, q),
         in.mode \in {"retrieve", "retrieve_hard"}
  PROVE  Honest(in, q, pool)
<1> DEFINE size == PoolSize(in)
           S == in.corpus \ (in.excluded[q] \ in.golds[q])
<1>1. size \in Nat
  BY PoolSizes
<1>3. pool = Top(in, q, S, size)
  BY DEF RetrievePool
<1>4. S \in SUBSET in.corpus
  OBVIOUS
<1>5. \A d \in S : d \in in.excluded[q] => d \in in.golds[q]
  OBVIOUS
<1> HIDE DEF S, size
<1>7. pool \subseteq S /\ Cardinality(pool) <= size
  BY <1>1, <1>3, <1>4, BestOfCorpus
<1>8. pool \subseteq in.corpus /\ pool \cap in.excluded[q] \subseteq in.golds[q]
  BY <1>4, <1>5, <1>7
<1> QED
  BY <1>7, <1>8 DEF Honest, size

LEMMA PoolHonest ==
  ASSUME NEW in, ObliqInput(in), NEW q \in in.queries, NEW pool \in Pools(in, q)
  PROVE  Honest(in, q, pool)
<1>1. CASE in.mode \in {"retrieve", "retrieve_hard"}
  <2>1. pool = RetrievePool(in, q)
    BY <1>1 DEF Pools
  <2> QED
    BY <1>1, <2>1, RetrieveHonest
<1>2. CASE in.mode = "hard_verify"
  <2>1. pool \in HardPools(in, q)
    BY <1>2 DEF Pools
  <2> QED
    BY <1>2, <2>1, HardHonest
<1>3. CASE in.mode \notin {"retrieve", "retrieve_hard", "hard_verify"}
  <2>1. pool \in VerifyPools(in, q)
    BY <1>3 DEF Pools
  <2> QED
    BY <1>3, <2>1, VerifyHonest
<1> QED
  BY <1>1, <1>2, <1>3

\* The queries a job may be for.
LEMMA ObliqJobs ==
  ASSUME NEW in, ObliqInput(in), NEW js \in ObliqExpansions(in)
  PROVE  /\ Listed(js)
         /\ \A i \in DOMAIN js :
              /\ js[i].id \in Eligible(in)
              /\ \E pool \in Pools(in, js[i].id) : js[i].cands \in Shuffled(pool)
<1>1. PICK qs \in Drawn(in) : js \in JobLists(in, qs)
  BY DEF ObliqExpansions
<1> DEFINE W == {q \in qs : in.golds[q] # {}}
           order == Ascending(W)
           E == Eligible(in)
<1>2. IsFiniteSet(E) /\ E \subseteq Nat
  <2>1. E \in SUBSET in.queries /\ IsFiniteSet(in.queries) /\ in.queries \subseteq Nat
    BY DEF Eligible, ObliqInput
  <2> HIDE DEF E
  <2> QED
    BY <2>1, FS_Subset
<1>3. qs \subseteq E /\ IsFiniteSet(qs)
  <2>1. in.maxQueries \in Nat
    BY DEF ObliqInput
  <2> DEFINE n == Max({1, in.maxQueries})
  <2>2. n \in Int /\ n >= 0
    BY <2>1, MaxOfTwo
  <2>3. qs \in Some(E, n)
    BY <1>1 DEF Drawn
  <2> HIDE DEF E, n
  <2> QED
    BY <1>2, <2>2, <2>3, SomeShape
<1>4. IsFiniteSet(W) /\ Numbers(W) /\ W \subseteq E
  <2>1. W \in SUBSET qs
    OBVIOUS
  <2> HIDE DEF W, E
  <2> QED
    BY <1>2, <1>3, <2>1, FS_Subset DEF Numbers
<1> DEFINE c == Len(order)
<1>5. c \in Nat /\ DOMAIN order = 1 .. c /\ \A i \in 1 .. c : order[i] \in W
  <2>1. order = Ascending(W)
    OBVIOUS
  <2> HIDE DEF W, order
  <2>2. order \in Seq(W) /\ DOMAIN order = 1 .. Len(order) /\ Len(order) \in Nat
    BY <1>4, <2>1, AscendingShape
  <2> QED
    BY <2>2
<1>6. js \in [DOMAIN order -> UNION {JobsOf(in, order[i]) : i \in DOMAIN order}]
      /\ \A i \in DOMAIN order : js[i].id = order[i]
  BY <1>1 DEF JobLists
<1> HIDE DEF W, order, c, E
<1>7. DOMAIN js = 1 .. c /\ js = [i \in 1 .. c |-> js[i]]
  BY <1>5, <1>6
<1>8. Listed(js)
  BY <1>5, <1>7, MadeList
<1>9. ASSUME NEW i \in DOMAIN js
      PROVE  /\ js[i].id \in E
             /\ \E pool \in Pools(in, js[i].id) : js[i].cands \in Shuffled(pool)
  <2>1. i \in 1 .. c /\ js[i].id = order[i]
    BY <1>5, <1>6, <1>7
  <2>2. order[i] \in W
    BY <1>5, <2>1
  <2>3. js[i].id \in E
    BY <1>4, <2>1, <2>2
  <2>4. PICK j \in DOMAIN order : js[i] \in JobsOf(in, order[j])
    BY <1>6, <1>7, ZenonT(60)
  <2> DEFINE q == order[j]
  <2>5. PICK cands \in UNION {Shuffled(pool) : pool \in Pools(in, q)} : js[i] = Job(in, q, cands)
    BY <2>4 DEF JobsOf
  <2>6. js[i].id = q /\ js[i].cands = cands
    BY <2>5 DEF Job
  <2> QED
    BY <2>3, <2>5, <2>6
<1> QED
  BY <1>8, <1>9 DEF E

\* A pool in some order, for a query whose golds the first stage misses if the
\* mode says so.
LEMMA ObliqJobsHonest ==
  ASSUME NEW in, ObliqInput(in), NEW js \in ObliqExpansions(in), NEW i \in DOMAIN js,
         NEW q, q = js[i].id, NEW pool, pool = Range(js[i].cands)
  PROVE  /\ q \in in.queries /\ IsFiniteSet(pool) /\ Listed(js[i].cands) /\ IsInjective(js[i].cands)
         /\ Honest(in, q, pool)
         /\ in.mode = "retrieve_hard" => pool \cap in.golds[q] = {}
<1>1. q \in Eligible(in)
  BY ObliqJobs
<1>2. PICK P \in Pools(in, q) : js[i].cands \in Shuffled(P)
  BY ObliqJobs
<1>3. q \in in.queries
  BY <1>1 DEF Eligible
<1>4. Honest(in, q, P)
  BY <1>2, <1>3, PoolHonest
<1>5. IsFiniteSet(P)
  <2>1. IsFiniteSet(in.corpus) /\ P \in SUBSET in.corpus
    BY <1>4 DEF Honest, ObliqInput
  <2> QED
    BY <2>1, FS_Subset
<1> DEFINE f == js[i].cands
<1>6. f \in Shuffled(P)
  BY <1>2
<1> HIDE DEF f
<1>7. Listed(f) /\ IsInjective(f) /\ Range(f) = P
  BY <1>5, <1>6, ShuffledShape
<1>8. P = pool
  BY <1>7 DEF f
<1>9. in.mode = "retrieve_hard" => pool \cap in.golds[q] = {}
  <2>1. SUFFICES ASSUME in.mode = "retrieve_hard" PROVE pool \cap in.golds[q] = {}
    OBVIOUS
  <2>2. RetrievePool(in, q) \cap in.golds[q] = {}
    BY <1>1, <2>1 DEF Eligible
  <2>3. P = RetrievePool(in, q)
    BY <1>2, <2>1 DEF Pools
  <2> QED
    BY <1>8, <2>2, <2>3
<1> QED
  BY <1>3, <1>4, <1>5, <1>7, <1>8, <1>9 DEF f

-----------------------------------------------------------------------------
(* The inductive invariant                                                 *)

\* There is an audit per job, and the jobs are those of the scan.
Audited ==
  /\ scan \in Scans
  /\ phase \in {"expand", "audit", "reduce", "record", "done", "failed"}
  /\ Listed(jobs) /\ Listed(audits) /\ Len(audits) = Len(jobs)
  /\ phase = "expand" => jobs = <<>>
  /\ Expanded \/ jobs # <<>> => jobs \in Expansions

\* A report is made of the audits as they are, and what is recorded repeats it.
Written ==
  /\ phase \in {"expand", "audit", "reduce"} => report = NoReport
  /\ report # NoReport => report \in Reports
  /\ phase = "record" => scan.workload \in Recorded
  /\ phase # "done" => record = NoReport
  /\ record # NoReport => record.verdict = report.verdict

OutOfRange == \E i \in DOMAIN audits : audits[i].kind = "audit" /\ ~InRange(audits[i])
LostAudits == {i \in DOMAIN audits : audits[i] = Lost}

\* What makes a scan of code or of pages fail once it has jobs.
Caused ==
  phase = "failed" /\ jobs # <<>> =>
    /\ scan.workload = "oss" => OutOfRange
    /\ scan.workload = "docs" => 5 * Cardinality(LostAudits) > Len(jobs)

LEMMA ExpansionsListed ==
  ASSUME scan \in Scans, NEW list \in Expansions PROVE Listed(list)
<1>1. /\ scan.workload \in Workloads
      /\ scan.workload = "oss" => OssInput(scan.in)
      /\ scan.workload = "docs" => IsFiniteSet(scan.in.files) /\ scan.in.limit \subseteq Nat
      /\ scan.workload = "blog" => BlogInput(scan.in)
      /\ scan.workload = "trace" => IsFiniteSet(scan.in.files)
      /\ scan.workload = "obliq" => ObliqInput(scan.in)
  BY ScanAssumption
<1>2. CASE scan.workload = "quality"
  <2>1. list = Dimensions
    BY <1>2 DEF Expansions, QualityExpansions
  <2> QED
    BY <2>1, DimensionAssumption DEF Listed
<1>3. CASE scan.workload = "oss"
  <2>1. list \in OssExpansions(scan.in)
    BY <1>3 DEF Expansions
  <2> QED
    BY <1>1, <1>3, <2>1, OssShared
<1>4. CASE scan.workload = "docs"
  <2>1. list \in DocsExpansions(scan.in)
    BY <1>4 DEF Expansions
  <2> QED
    BY <1>1, <1>4, <2>1, DocsListed
<1>5. CASE scan.workload = "blog"
  <2>1. list \in BlogExpansions(scan.in)
    BY <1>5 DEF Expansions
  <2> QED
    BY <1>1, <1>5, <2>1, BlogPosts
<1>6. CASE scan.workload = "trace"
  <2>1. list \in TraceExpansions(scan.in)
    BY <1>6 DEF Expansions
  <2> QED
    BY <1>1, <1>6, <2>1, TraceListed
<1>7. CASE scan.workload = "obliq"
  <2>1. list \in ObliqExpansions(scan.in)
    BY <1>7 DEF Expansions
  <2> QED
    BY <1>1, <1>7, <2>1, ObliqJobs
<1> QED
  BY <1>1, <1>2, <1>3, <1>4, <1>5, <1>6, <1>7 DEF Workloads

\* The steps that leave the jobs and the audits alone.
LEMMA SameJobs ==
  ASSUME Audited, UNCHANGED <<scan, jobs, audits>>,
         phase' \in {"expand", "audit", "reduce", "record", "done", "failed"},
         phase' = "expand" => phase = "expand", phase' \notin {"expand", "failed"} => Expanded
  PROVE  Audited' /\ Reports' = Reports /\ Expansions' = Expansions
<1>1. Reports' = Reports /\ Expansions' = Expansions
  BY DEF Reports, Expansions
<1>2. Expanded' \/ jobs' # <<>> => jobs' \in Expansions'
  BY <1>1 DEF Audited, Expanded
<1> QED
  BY <1>1, <1>2 DEF Audited

LEMMA GateLoses ==
  ASSUME Audited, ~Gate
  PROVE  /\ scan.workload # "oss"
         /\ scan.workload = "docs" => 5 * Cardinality(LostAudits) > Len(jobs)
<1> DEFINE n == Len(jobs)
           W == {i \in DOMAIN audits : audits[i] # Lost}
           L == LostAudits
           w == Cardinality(W)
           l == Cardinality(L)
           m == MinSuccess[scan.workload]
<1>1. n \in Nat /\ DOMAIN audits = 1 .. n
  <2>1. Listed(jobs) /\ Listed(audits) /\ Len(audits) = n
    BY DEF Audited
  <2> QED
    BY <2>1, ListedShape
<1>2. ~(100 * w >= m * n)
  BY DEF Gate, HowMany
<1>3. W \in SUBSET (1 .. n) /\ L \in SUBSET (1 .. n) /\ W \cup L = 1 .. n /\ W \cap L = {}
  BY <1>1 DEF LostAudits
<1> HIDE DEF n, W, L
<1>4. IsFiniteSet(W) /\ IsFiniteSet(L) /\ w \in Nat /\ l \in Nat
  BY <1>1, <1>3, SomePlaces
<1>5. w + l = n
  <2>1. Cardinality(W \cup L) = w + l - Cardinality(W \cap L)
    BY <1>4, FS_Union
  <2>2. Cardinality(W \cap L) = 0
    BY <1>3, FS_EmptySet
  <2>3. Cardinality(1 .. n) = n
    BY <1>1, FS_Interval
  <2>4. Cardinality(W \cup L) = n
    BY <1>3, <2>3
  <2> HIDE DEF w, l
  <2>5. n = w + l - 0
    BY <2>1, <2>2, <2>4
  <2> QED
    BY <1>4, <2>5
<1> HIDE DEF w, l
<1>6. scan.workload # "oss"
  <2>1. SUFFICES ASSUME scan.workload = "oss" PROVE FALSE
    OBVIOUS
  <2>2. m = 0
    BY <2>1, GateAssumption
  <2>3. m * n = 0
    BY <1>1, <2>2
  <2> QED
    BY <1>2, <1>4, <2>3
<1>7. scan.workload = "docs" => 5 * l > n
  <2>1. SUFFICES ASSUME scan.workload = "docs" PROVE 5 * l > n
    OBVIOUS
  <2>2. m \in 0 .. 80
    BY <2>1, GateAssumption
  <2> HIDE DEF m
  <2>3. m * n <= 80 * n
    BY <1>1, <2>2
  <2>4. m * n \in Nat
    BY <1>1, <2>2
  <2> DEFINE p == m * n
  <2>5. p \in Nat /\ p <= 80 * n /\ ~(100 * w >= p)
    BY <1>2, <2>3, <2>4
  <2> HIDE DEF p
  <2> QED
    BY <1>1, <1>4, <1>5, <2>5
<1> QED
  BY <1>6, <1>7 DEF l, L, n

LEMMA ReportsFail ==
  ASSUME Audited, Reports = {}
  PROVE  /\ scan.workload = "oss" => OutOfRange
         /\ scan.workload # "docs"
<1>1. scan.workload = "oss" => OutOfRange
  BY DEF Reports, OssReports, OutOfRange
<1>2. ASSUME scan.workload = "docs" PROVE FALSE
  <2>1. DocsReports(jobs, audits) = {}
    BY <1>2 DEF Reports
  <2> QED
    BY <2>1 DEF DocsReports
<1> QED
  BY <1>1, <1>2

LEMMA ScanInit == Init => Audited /\ Written /\ Caused
<1> SUFFICES ASSUME Init PROVE Audited /\ Written /\ Caused
  OBVIOUS
<1>1. Listed(<<>>) /\ Len(<<>>) = 0
  BY DEF Listed
<1>2. Audited
  BY <1>1 DEF Init, Audited, Expanded
<1> QED
  BY <1>2 DEF Init, Written, Caused

\* `expand` settles the jobs.
LEMMA ExpandKeeps ==
  ASSUME Audited, Written, Caused, Expand PROVE Audited' /\ Written' /\ Caused'
<1>1. PICK list \in Expansions : jobs' = list /\ audits' = [i \in DOMAIN list |-> Unsettled]
  BY DEF Expand
<1>2. scan \in Scans
  BY DEF Audited
<1>3. Listed(list)
  BY <1>2, ExpansionsListed
<1> DEFINE n == Len(list)
           as == [i \in DOMAIN list |-> Unsettled]
<1>4. n \in Nat /\ DOMAIN list = 1 .. n
  BY <1>3, ListedShape
<1>5. Listed(as) /\ Len(as) = n
  <2>1. DOMAIN as = 1 .. n /\ as = [i \in 1 .. n |-> as[i]]
    BY <1>4
  <2> HIDE DEF as, n
  <2> QED
    BY <1>4, <2>1, MadeList
<1>6. audits' = as
  BY <1>1
<1> HIDE DEF as
<1>7. phase = "expand" /\ phase' = "audit" /\ UNCHANGED <<scan, report, record>>
  BY DEF Expand
<1>8. Expansions' = Expansions
  BY <1>7 DEF Expansions
<1>9. Audited'
  BY <1>1, <1>2, <1>3, <1>5, <1>6, <1>7, <1>8 DEF Audited
<1>10. Written'
  BY <1>7 DEF Written
<1> QED
  BY <1>7, <1>9, <1>10 DEF Caused

LEMMA AuditKeeps ==
  ASSUME Audited, Written, Caused, Audit PROVE Audited' /\ Written' /\ Caused'
<1>1. phase = "audit" /\ UNCHANGED <<scan, phase, jobs, report, record>>
  BY DEF Audit
<1>2. PICK i, reply : audits' = [audits EXCEPT ![i] = reply]
  BY DEF Audit
<1> DEFINE n == Len(audits)
           as == [audits EXCEPT ![i] = reply]
<1>3. Listed(audits) /\ n = Len(jobs)
  BY DEF Audited
<1>4. n \in Nat /\ DOMAIN audits = 1 .. n
  BY <1>3, ListedShape
<1>5. Listed(as) /\ Len(as) = n
  <2>1. DOMAIN as = 1 .. n /\ as = [j \in 1 .. n |-> as[j]]
    BY <1>4
  <2> HIDE DEF as, n
  <2> QED
    BY <1>4, <2>1, MadeList
<1>6. audits' = as
  BY <1>2
<1> HIDE DEF as
<1>7. Expansions' = Expansions
  BY <1>1 DEF Expansions
<1>8. Audited'
  BY <1>1, <1>3, <1>5, <1>6, <1>7 DEF Audited, Expanded
<1>9. Written'
  BY <1>1 DEF Written
<1> QED
  BY <1>1, <1>8, <1>9 DEF Caused

LEMMA GatheredKeeps ==
  ASSUME Audited, Written, Caused, Gathered PROVE Audited' /\ Written' /\ Caused'
<1>1. /\ phase = "audit" /\ UNCHANGED <<scan, jobs, audits, report, record>>
      /\ phase' = IF Gate THEN "reduce" ELSE "failed"
  BY DEF Gathered
<1>2. Audited' /\ Reports' = Reports
  BY <1>1, SameJobs DEF Expanded
<1>3. Written'
  BY <1>1 DEF Written
<1>4. Caused'
  <2>1. CASE Gate
    BY <1>1, <2>1 DEF Caused
  <2>2. CASE ~Gate
    <3>1. /\ scan.workload # "oss"
          /\ scan.workload = "docs" => 5 * Cardinality(LostAudits) > Len(jobs)
      BY <2>2, GateLoses
    <3>2. LostAudits' = LostAudits
      BY <1>1 DEF LostAudits
    <3> QED
      BY <1>1, <3>1, <3>2 DEF Caused
  <2> QED
    BY <2>1, <2>2
<1> QED
  BY <1>2, <1>3, <1>4

LEMMA AggregateKeeps ==
  ASSUME Audited, Written, Caused, Aggregate \/ AggregateFails PROVE Audited' /\ Written' /\ Caused'
<1>1. /\ phase = "reduce" /\ UNCHANGED <<scan, jobs, audits, record>>
      /\ phase' \in {"record", "done", "failed"}
  BY DEF Aggregate, AggregateFails
<1>2. Audited' /\ Reports' = Reports
  BY <1>1, SameJobs DEF Expanded
<1>3. report = NoReport /\ record = NoReport
  BY <1>1 DEF Written
<1>4. CASE Aggregate
  <2>1. report' \in Reports' /\ phase' = IF scan.workload \in Recorded THEN "record" ELSE "done"
    BY <1>2, <1>4 DEF Aggregate
  <2>2. Written'
    BY <1>1, <1>3, <2>1 DEF Written, NoReport
  <2> QED
    BY <1>2, <2>1, <2>2 DEF Caused
<1>5. CASE AggregateFails
  <2>1. phase' = "failed" /\ Reports = {} /\ UNCHANGED report
    BY <1>5 DEF AggregateFails
  <2>2. Written'
    BY <1>1, <1>3, <2>1 DEF Written
  <2>3. /\ scan.workload = "oss" => OutOfRange
        /\ scan.workload # "docs"
    BY <2>1, ReportsFail
  <2>4. OutOfRange' = OutOfRange
    BY <1>1 DEF OutOfRange
  <2>5. Caused'
    BY <1>1, <2>3, <2>4 DEF Caused
  <2> QED
    BY <1>2, <2>2, <2>5
<1> QED
  BY <1>4, <1>5

LEMMA RecordKeeps ==
  ASSUME Audited, Written, Caused, Record \/ RecordFails PROVE Audited' /\ Written' /\ Caused'
<1>1. /\ phase = "record" /\ UNCHANGED <<scan, jobs, audits, report>>
      /\ phase' \in {"done", "failed"}
  BY DEF Record, RecordFails
<1>2. Audited' /\ Reports' = Reports
  BY <1>1, SameJobs DEF Expanded
<1>3. scan.workload \in Recorded
  BY <1>1 DEF Written
<1>4. CASE Record
  <2>1. phase' = "done" /\ record' = IF scan.workload = "trace" THEN Registry(report) ELSE record
    BY <1>4 DEF Record
  <2>2. Registry(report).verdict = report.verdict
    BY DEF Registry
  <2>3. record = NoReport
    BY <1>1 DEF Written
  <2>4. Written'
    BY <1>1, <1>2, <2>1, <2>2, <2>3 DEF Written
  <2> QED
    BY <1>2, <2>1, <2>4 DEF Caused
<1>5. CASE RecordFails
  <2>1. phase' = "failed" /\ UNCHANGED record
    BY <1>5 DEF RecordFails
  <2>2. Written'
    BY <1>1, <1>2, <2>1 DEF Written
  <2>3. Caused'
    BY <1>1, <1>3 DEF Caused, Recorded
  <2> QED
    BY <1>2, <2>2, <2>3
<1> QED
  BY <1>4, <1>5

LEMMA StutterKeeps ==
  ASSUME Audited, Written, Caused, UNCHANGED vars PROVE Audited' /\ Written' /\ Caused'
<1>1. UNCHANGED <<scan, phase, jobs, audits, report, record>>
  BY DEF vars
<1>2. Audited' /\ Reports' = Reports
  <2>1. phase' \notin {"expand", "failed"} => Expanded
    BY <1>1 DEF Expanded
  <2>2. phase' \in {"expand", "audit", "reduce", "record", "done", "failed"}
    BY <1>1 DEF Audited
  <2> QED
    BY <1>1, <2>1, <2>2, SameJobs
<1>3. Written'
  BY <1>1, <1>2 DEF Written
<1>4. OutOfRange' = OutOfRange /\ LostAudits' = LostAudits
  BY <1>1 DEF OutOfRange, LostAudits
<1> QED
  BY <1>1, <1>2, <1>3, <1>4 DEF Caused

LEMMA ExpandFailsKeeps ==
  ASSUME Audited, Written, Caused, ExpandFails PROVE Audited' /\ Written' /\ Caused'
<1>1. phase = "expand" /\ phase' = "failed" /\ UNCHANGED <<scan, jobs, audits, report, record>>
  BY DEF ExpandFails
<1>2. Audited' /\ Reports' = Reports
  BY <1>1, SameJobs
<1>3. jobs = <<>>
  BY <1>1 DEF Audited
<1>4. Written'
  BY <1>1, <1>2 DEF Written
<1> QED
  BY <1>1, <1>2, <1>3, <1>4 DEF Caused

LEMMA ScanNext ==
  ASSUME Audited, Written, Caused, [Next]_vars PROVE Audited' /\ Written' /\ Caused'
<1>1. CASE Ended \/ UNCHANGED vars
  BY <1>1, StutterKeeps DEF Ended
<1> QED
  BY <1>1, ExpandKeeps, ExpandFailsKeeps, AuditKeeps, GatheredKeeps, AggregateKeeps, RecordKeeps DEF Next

THEOREM ScanInvariant == Spec => [](Audited /\ Written /\ Caused)
<1>1. Init => Audited /\ Written /\ Caused
  BY ScanInit
<1>2. Audited /\ Written /\ Caused /\ [Next]_vars => (Audited /\ Written /\ Caused)'
  BY ScanNext
<1> QED
  BY <1>1, <1>2, PTL DEF Spec

-----------------------------------------------------------------------------
(* What a scan audits                                                      *)

LEMMA OssJobsOf == ASSUME OssInput(scan.in), jobs \in OssExpansions(scan.in) PROVE OssJobsShared
<1>1. /\ IsInjective(jobs)
      /\ Len(jobs) = Min({scan.in.limit, SumFunction([n \in Names(scan.in) |-> Most(scan.in, FitOf(scan.in, n))])})
      /\ \A n, m \in Names(scan.in) :
           Cardinality(Of(jobs, n)) < Most(scan.in, FitOf(scan.in, n)) =>
             Cardinality(Of(jobs, m)) <= Cardinality(Of(jobs, n)) + 1
      /\ \A n \in Names(scan.in) : \A out \in FitOf(scan.in, n) \ Of(jobs, n), job \in Of(jobs, n) :
           out.loc <= job.loc
  BY OssShared
<1> QED
  BY <1>1 DEF OssJobsShared, Names, FitOf, LastOf, Of, Most

LEMMA BlogJobsOf == ASSUME BlogInput(scan.in), jobs \in BlogExpansions(scan.in) PROVE PostsOnce
BY BlogPosts DEF PostsOnce

LEMMA ObliqJobsOf == ASSUME ObliqInput(scan.in), jobs \in ObliqExpansions(scan.in) PROVE PoolsHonest
<1> DEFINE in == scan.in
<1>1. ASSUME NEW i \in DOMAIN jobs, NEW q, q = jobs[i].id, NEW pool, pool = Range(jobs[i].cands)
      PROVE  /\ IsInjective(jobs[i].cands) /\ Cardinality(pool) <= PoolSize(in)
             /\ pool \subseteq in.corpus /\ pool \cap in.excluded[q] \subseteq in.golds[q]
             /\ in.mode \in {"verify", "hard_verify"} =>
                  /\ (in.golds[q] \cap in.corpus # {}) = (pool \cap in.golds[q] # {})
                  /\ in.corpus \ (in.golds[q] \cup in.excluded[q]) # {} => pool \ (pool \cap in.golds[q]) # {}
             /\ in.mode = "hard_verify" => Cardinality(pool \cap in.golds[q]) <= 1
             /\ in.mode = "retrieve_hard" => pool \cap in.golds[q] = {}
  <2>1. /\ IsInjective(jobs[i].cands) /\ Honest(in, q, pool)
        /\ in.mode = "retrieve_hard" => pool \cap in.golds[q] = {}
    BY <1>1, ObliqJobsHonest
  <2> QED
    BY <2>1 DEF Honest
<1> QED
  BY <1>1, SMTT(60) DEF PoolsHonest

\* A scan audits what its options promise: the modules of a code scan are
\* shared among the repositories and are their largest, every published slug is
\* audited once, and the pools of the benchmark are sound, whatever the files,
\* the corpus, the caps and the shuffles (oss_code.rs, blog.rs, obliq.rs).
THEOREM JobsPromised == Spec => []JobsAsPromised
<1>1. Audited => JobsAsPromised
  <2> SUFFICES ASSUME Audited, Expanded
               PROVE  /\ scan.workload = "oss" => OssJobsShared
                      /\ scan.workload = "blog" => PostsOnce
                      /\ scan.workload = "obliq" => PoolsHonest
    BY DEF JobsAsPromised
  <2>1. scan \in Scans /\ jobs \in Expansions
    BY DEF Audited
  <2>2. ASSUME scan.workload = "oss" PROVE OssJobsShared
    <3>1. OssInput(scan.in) /\ jobs \in OssExpansions(scan.in)
      BY <2>1, <2>2, ScanAssumption DEF Expansions
    <3> QED
      BY <3>1, OssJobsOf
  <2>3. ASSUME scan.workload = "blog" PROVE PostsOnce
    <3>1. BlogInput(scan.in) /\ jobs \in BlogExpansions(scan.in)
      BY <2>1, <2>3, ScanAssumption DEF Expansions
    <3> QED
      BY <3>1, BlogJobsOf
  <2>4. ASSUME scan.workload = "obliq" PROVE PoolsHonest
    <3>1. ObliqInput(scan.in) /\ jobs \in ObliqExpansions(scan.in)
      BY <2>1, <2>4, ScanAssumption DEF Expansions
    <3> QED
      BY <3>1, ObliqJobsOf
  <2> QED
    BY <2>2, <2>3, <2>4
<1> QED
  BY <1>1, ScanInvariant, PTL

-----------------------------------------------------------------------------
(* What a report tells                                                     *)

LEMMA ReportOf ==
  ASSUME Audited, report \in Reports
  PROVE  /\ Len(report.rows) + (IF scan.workload = "docs" THEN report.lost ELSE 0) = Len(jobs)
         /\ scan.workload # "obliq" => (report.verdict = "pass" <=> Objections = {})
         /\ scan.workload \in {"quality", "blog", "docs", "oss"} => report.passed + report.failed = report.total
<1>1. Listed(jobs) /\ Listed(audits) /\ Len(audits) = Len(jobs) /\ scan.workload \in Workloads
  BY ScanAssumption DEF Audited
<1>a. Len(jobs) \in Nat
  BY <1>1, ListedShape
<1>2. CASE scan.workload = "quality"
  <2>1. report \in QualityReports(audits)
    BY <1>2 DEF Reports
  <2>2. /\ Len(report.rows) = Len(audits) /\ report.passed + report.failed = report.total
        /\ report.verdict = "pass" <=> {i \in DOMAIN audits : audits[i].kind = "verdict" /\ ~audits[i].pass} = {}
    BY <1>1, <2>1, QualityReportsTell
  <2>3. Objections = {i \in DOMAIN audits : audits[i].kind = "verdict" /\ ~audits[i].pass}
    BY <1>2 DEF Objections
  <2> QED
    BY <1>1, <1>a, <1>2, <2>2, <2>3
<1>3. CASE scan.workload = "oss"
  <2>1. report \in OssReports(jobs, audits)
    BY <1>3 DEF Reports
  <2>2. /\ Len(report.rows) = Len(jobs) /\ report.passed + report.failed = report.total
        /\ report.verdict = "pass" <=>
             {i \in DOMAIN audits : ~(audits[i].kind = "audit" /\ ~audits[i].hold /\ \A s \in audits[i].bearing : s > 3)} = {}
    BY <1>1, <2>1, OssReportTells
  <2>3. Objections = {i \in DOMAIN audits : ~(audits[i].kind = "audit" /\ ~audits[i].hold /\ \A s \in audits[i].bearing : s > 3)}
    BY <1>3 DEF Objections
  <2> QED
    BY <1>a, <1>3, <2>2, <2>3
<1>4. CASE scan.workload = "docs"
  <2>1. report \in DocsReports(jobs, audits)
    BY <1>4 DEF Reports
  <2>2. /\ Len(report.rows) + report.lost = Len(jobs) /\ report.passed + report.failed = report.total
        /\ report.verdict = "pass" <=> {i \in DOMAIN audits : audits[i].kind = "page" /\ audits[i].blocker} = {}
    BY <1>1, <2>1, DocsReportTells
  <2>3. Objections = {i \in DOMAIN audits : audits[i].kind = "page" /\ audits[i].blocker}
    BY <1>4 DEF Objections
  <2> QED
    BY <1>4, <2>2, <2>3
<1>5. CASE scan.workload = "blog"
  <2>1. report \in BlogReports(audits)
    BY <1>5 DEF Reports
  <2>2. /\ Len(report.rows) = Len(audits) /\ report.passed + report.failed = report.total
        /\ report.verdict = "pass" <=> {i \in DOMAIN audits : audits[i].kind = "echo" \/ audits[i].blocker} = {}
    BY <1>1, <2>1, BlogReportsTell
  <2>3. Objections = {i \in DOMAIN audits : audits[i].kind = "echo" \/ audits[i].blocker}
    BY <1>5 DEF Objections
  <2> QED
    BY <1>1, <1>a, <1>5, <2>2, <2>3
<1>6. CASE scan.workload = "trace"
  <2>1. report \in TraceReports(audits)
    BY <1>6 DEF Reports
  <2>2. /\ Len(report.rows) = Len(audits)
        /\ report.verdict = "pass" <=> {i \in DOMAIN audits : audits[i].kind = "note" /\ audits[i].blocker} = {}
    BY <1>1, <2>1, TraceReportsTell
  <2>3. Objections = {i \in DOMAIN audits : audits[i].kind = "note" /\ audits[i].blocker}
    BY <1>6 DEF Objections
  <2> QED
    BY <1>1, <1>a, <1>6, <2>2, <2>3
<1>7. CASE scan.workload = "obliq"
  <2>1. report \in ObliqReports(scan.in, audits)
    BY <1>7 DEF Reports
  <2>2. Len(report.rows) = Len(audits)
    BY <1>1, <2>1, ObliqReportTells
  <2> QED
    BY <1>1, <1>a, <1>7, <2>2
<1> QED
  BY <1>1, <1>2, <1>3, <1>4, <1>5, <1>6, <1>7 DEF Workloads

\* A report accounts for every job, passes exactly when no audit objects and
\* adds up, and a failed scan of code or pages has its cause in the audits, for
\* every reply of the actors and every number of jobs.
THEOREM ReportTells == Spec => []ReportTellsAudits
<1>1. Audited /\ Written /\ Caused => ReportTellsAudits
  <2> SUFFICES ASSUME Audited, Written, Caused PROVE ReportTellsAudits
    OBVIOUS
  <2>1. ASSUME Reported
        PROVE  /\ Len(report.rows) + (IF scan.workload = "docs" THEN report.lost ELSE 0) = Len(jobs)
               /\ scan.workload # "obliq" => (report.verdict = "pass" <=> Objections = {})
               /\ scan.workload \in {"quality", "blog", "docs", "oss"} => report.passed + report.failed = report.total
               /\ record # NoReport => record.verdict = report.verdict
    <3>1. report \in Reports
      BY <2>1 DEF Written, Reported
    <3>2. /\ Len(report.rows) + (IF scan.workload = "docs" THEN report.lost ELSE 0) = Len(jobs)
          /\ scan.workload # "obliq" => (report.verdict = "pass" <=> Objections = {})
          /\ scan.workload \in {"quality", "blog", "docs", "oss"} => report.passed + report.failed = report.total
      BY <3>1, ReportOf
    <3> QED
      BY <3>2 DEF Written
  <2>2. ASSUME phase = "failed", scan.workload = "oss", jobs # <<>>
        PROVE  \E i \in DOMAIN audits : audits[i].kind = "audit" /\ ~InRange(audits[i])
    BY <2>2 DEF Caused, OutOfRange
  <2>3. ASSUME phase = "failed", scan.workload = "docs", jobs # <<>>
        PROVE  5 * Cardinality({i \in DOMAIN audits : audits[i] = Lost}) > Len(jobs)
    BY <2>3 DEF Caused, LostAudits
  <2> QED
    BY <2>1, <2>2, <2>3 DEF ReportTellsAudits
<1> QED
  BY <1>1, ScanInvariant, PTL

-----------------------------------------------------------------------------
(* What a ranking gains                                                    *)

LEMMA Thousandths ==
  ASSUME NEW a \in Nat, NEW b \in Nat, b > 0, a <= b
  PROVE  (1000 * a) \div b \in 0 .. 1000 /\ (a = b => (1000 * a) \div b = 1000)
<1> DEFINE x == 1000 * a
           r == x \div b
<1>1. x \in Nat /\ r \in Int /\ b * r <= x /\ x < b * (r + 1)
  <2>1. x \in Nat
    OBVIOUS
  <2> HIDE DEF x
  <2> QED
    BY <2>1
<1>2. x <= 1000 * b
  OBVIOUS
<1>3. a = b => x = 1000 * b
  OBVIOUS
<1> HIDE DEF x, r
<1>4. r >= 0
  <2>1. SUFFICES ASSUME r <= -1 PROVE FALSE
    BY <1>1
  <2>2. b * (r + 1) <= 0
    BY <1>1, <2>1
  <2> QED
    BY <1>1, <2>2
<1>5. r <= 1000
  <2>1. SUFFICES ASSUME r >= 1001 PROVE FALSE
    BY <1>1
  <2>2. b * r >= b * 1001
    BY <1>1, <2>1
  <2> QED
    BY <1>1, <1>2, <2>2
<1>6. a = b => r >= 1000
  <2>1. SUFFICES ASSUME a = b, r <= 999 PROVE FALSE
    BY <1>1
  <2>2. b * (r + 1) <= b * 1000
    BY <1>1, <2>1
  <2> QED
    BY <1>1, <1>3, <2>1, <2>2
<1> QED
  BY <1>1, <1>4, <1>5, <1>6 DEF r, x

Within(S, D) == S \subseteq D
Weighs(D, w) == \A k \in D : w[k] \in Nat
AddsUp(f, w, S) == f[S] \in Nat /\ \A k \in S : f[S] = w[k] + f[S \ {k}]

LEMMA SumsAddUp ==
  ASSUME NEW D, IsFiniteSet(D), NEW w, Weighs(D, w), NEW f, Sums(f, D, w), NEW S, Within(S, D)
  PROVE  AddsUp(f, w, S)
<1>1. S \in SUBSET D /\ \A k \in D : w[k] \in Nat
  BY DEF Within, Weighs
<1>2. f[S] \in Nat /\ \A k \in S : f[S] = w[k] + f[S \ {k}]
  BY <1>1, SumsOff
<1> QED
  BY <1>2 DEF AddsUp

\* A sum does not depend on the set it is taken in.
LEMMA SumsAgree ==
  ASSUME NEW D, IsFiniteSet(D), NEW w, Weighs(D, w), NEW f, Sums(f, D, w),
         NEW E, Within(E, D), NEW g, Sums(g, E, w)
  PROVE  g[E] = f[E]
<1> DEFINE N == {n \in Nat : \A S \in SUBSET E : Cardinality(S) <= n => g[S] = f[S]}
<1>0. E \in SUBSET D
  BY DEF Within
<1>1. \A S \in SUBSET E : IsFiniteSet(S) /\ Cardinality(S) \in Nat
  BY <1>0, FS_Subset, FS_CardinalityType
<1>2. \A S \in SUBSET E :
        /\ g[S] = IF S = {} THEN 0 ELSE w[AnyOf(S)] + g[S \ {AnyOf(S)}]
        /\ f[S] = IF S = {} THEN 0 ELSE w[AnyOf(S)] + f[S \ {AnyOf(S)}]
  BY <1>0 DEF Sums
<1>3. 0 \in N
  <2>1. ASSUME NEW S \in SUBSET E, Cardinality(S) <= 0 PROVE g[S] = f[S]
    <3>1. Cardinality(S) = 0
      BY <1>1, <2>1
    <3>2. S = {}
      BY <1>1, <3>1, FS_EmptySet
    <3> QED
      BY <1>2, <3>2
  <2> QED
    BY <2>1
<1>4. ASSUME NEW n \in Nat, n \in N PROVE n + 1 \in N
  <2>1. ASSUME NEW S \in SUBSET E, Cardinality(S) <= n + 1 PROVE g[S] = f[S]
    <3>1. CASE S = {}
      BY <1>2, <3>1
    <3>2. CASE S # {}
      <4> DEFINE T == S \ {AnyOf(S)}
      <4>1. T \in SUBSET E /\ Cardinality(T) = Cardinality(S) - 1
        BY <1>1, <3>2, SomeLeft
      <4>2. Cardinality(T) <= n
        BY <1>1, <2>1, <4>1
      <4>3. g[T] = f[T]
        BY <1>4, <4>1, <4>2
      <4> QED
        BY <1>2, <3>2, <4>3
    <3> QED
      BY <3>1, <3>2
  <2> QED
    BY <2>1
<1> HIDE DEF N
<1>5. \A n \in Nat : n \in N
  BY <1>3, <1>4, AllNats
<1>6. Cardinality(E) \in N /\ Cardinality(E) <= Cardinality(E)
  BY <1>1, <1>5
<1> QED
  BY <1>6 DEF N

LEMMA GainIsSum ==
  ASSUME NEW S, IsFiniteSet(S) PROVE \E g : Sums(g, S, Discount) /\ Gain(S) = g[S]
<1> DEFINE c == CHOOSE f : f = [T \in SUBSET S |->
                    IF T = {} THEN 0 ELSE Discount[CHOOSE k \in T : TRUE] + f[T \ {CHOOSE k \in T : TRUE}]]
<1>1. Gain(S) = c[S]
  BY DEF Gain, MapThenSumSet, MapThenFoldSet
<1>2. Sums(c, S, Discount)
  BY SumChosen
<1> HIDE DEF c
<1> QED
  BY <1>1, <1>2

\* Any hit may be taken off.
Paid(S) == S \subseteq DOMAIN Discount

LEMMA NoGain == Gain({}) = 0
<1>1. PICK g : Sums(g, {}, Discount) /\ Gain({}) = g[{}]
  BY FS_EmptySet, GainIsSum
<1> QED
  BY <1>1 DEF Sums

LEMMA GainOff ==
  ASSUME NEW S, Paid(S)
  PROVE  Gain(S) \in Nat /\ \A k \in S : Gain(S) = Discount[k] + Gain(S \ {k})
<1> DEFINE D == DOMAIN Discount
           w == Discount
<1>1. D = 1 .. Len(Discount) /\ Len(Discount) \in Nat
  BY DiscountAssumption
<1>2. IsFiniteSet(D)
  BY <1>1, FS_Interval
<1>3. Weighs(D, w)
  BY DiscountAssumption DEF Weighs
<1>4. Within(S, D)
  BY DEF Paid, Within
<1> HIDE DEF D
<1>0. ASSUME NEW T, IsFiniteSet(T) PROVE \E g : Sums(g, T, w) /\ Gain(T) = g[T]
  BY <1>0, GainIsSum
<1> HIDE DEF w
<1>5. PICK f : Sums(f, D, w)
  BY <1>2, SumsExist
<1>6. ASSUME NEW T, Within(T, D) PROVE Gain(T) = f[T]
  <2>1. IsFiniteSet(T)
    BY <1>2, <1>6, FS_Subset DEF Within
  <2>2. PICK g : Sums(g, T, w) /\ Gain(T) = g[T]
    BY <1>0, <2>1
  <2>3. g[T] = f[T]
    BY <1>2, <1>3, <1>5, <1>6, <2>2, SumsAgree
  <2> QED
    BY <2>2, <2>3
<1>7. AddsUp(f, w, S)
  BY <1>2, <1>3, <1>4, <1>5, SumsAddUp
<1>8. ASSUME NEW k \in S PROVE Gain(S) = w[k] + Gain(S \ {k})
  <2>1. Within(S \ {k}, D)
    BY <1>4 DEF Within
  <2>2. Gain(S) = f[S] /\ Gain(S \ {k}) = f[S \ {k}]
    BY <1>4, <1>6, <2>1
  <2>3. f[S] = w[k] + f[S \ {k}]
    BY <1>7 DEF AddsUp
  <2> QED
    BY <2>2, <2>3
<1>9. Gain(S) \in Nat
  BY <1>4, <1>6, <1>7 DEF AddsUp
<1> QED
  BY <1>8, <1>9 DEF w

LEMMA LaterPaysLess ==
  ASSUME NEW i \in DOMAIN Discount, NEW j \in DOMAIN Discount, i <= j
  PROVE  Discount[j] <= Discount[i]
<1> DEFINE L == Len(Discount)
           N == {n \in Nat : i + n <= L => Discount[i + n] <= Discount[i]}
<1>1. L \in Nat /\ DOMAIN Discount = 1 .. L /\ \A k \in 1 .. L : Discount[k] \in Nat
  BY DiscountAssumption
<1>2. \A k \in 2 .. L : Discount[k] <= Discount[k - 1]
  BY DiscountAssumption
<1> HIDE DEF L
<1>3. 0 \in N
  <2>1. i + 0 = i /\ Discount[i] \in Nat
    BY <1>1
  <2> QED
    BY <2>1
<1>4. ASSUME NEW n \in Nat, n \in N PROVE n + 1 \in N
  <2>1. SUFFICES ASSUME i + (n + 1) <= L PROVE Discount[i + (n + 1)] <= Discount[i]
    OBVIOUS
  <2> DEFINE k == i + (n + 1)
  <2>2. k \in 2 .. L /\ k - 1 = i + n /\ k - 1 \in 1 .. L
    BY <1>1, <2>1, SMTT(60)
  <2>3. Discount[k] <= Discount[k - 1]
    BY <1>2, <2>2
  <2>4. Discount[k - 1] <= Discount[i]
    BY <1>4, <2>2
  <2>5. Discount[k] \in Nat /\ Discount[k - 1] \in Nat /\ Discount[i] \in Nat
    BY <1>1, <2>2
  <2> QED
    BY <2>3, <2>4, <2>5
<1> HIDE DEF N
<1>5. j - i \in Nat
  BY <1>1
<1>6. j - i \in N
  BY <1>3, <1>4, <1>5, AllNats
<1>7. i + (j - i) = j /\ j <= L
  BY <1>1
<1> QED
  BY <1>6, <1>7 DEF N

\* The first places gain most.
LEMMA FirstGainsMost ==
  ASSUME NEW H, Paid(H)
  PROVE  Gain(H) <= Gain(1 .. Cardinality(H))
<1> DEFINE L == Len(Discount)
           Fits(n) == \A S \in SUBSET (1 .. L) : Cardinality(S) = n => Gain(S) <= Gain(1 .. n)
           N == {n \in Nat : Fits(n)}
<1>1. L \in Nat /\ DOMAIN Discount = 1 .. L /\ \A k \in 1 .. L : Discount[k] \in Nat
  BY DiscountAssumption
<1> HIDE DEF L
<1>2. ASSUME NEW S \in SUBSET (1 .. L)
      PROVE  /\ IsFiniteSet(S) /\ Cardinality(S) \in Nat /\ Cardinality(S) <= L
             /\ Cardinality(S) = 0 <=> S = {}
  BY <1>1, SomePlaces
<1>3. 0 \in N
  <2>1. ASSUME NEW S \in SUBSET (1 .. L), Cardinality(S) = 0 PROVE Gain(S) <= Gain(1 .. 0)
    <3>1. S = {} /\ 1 .. 0 = {}
      BY <1>2, <2>1
    <3> QED
      BY <3>1, NoGain
  <2> QED
    BY <2>1
<1>4. ASSUME NEW n \in Nat, n \in N PROVE n + 1 \in N
  <2>1. ASSUME NEW S \in SUBSET (1 .. L), Cardinality(S) = n + 1 PROVE Gain(S) <= Gain(1 .. (n + 1))
    <3>1. S # {} /\ n + 1 <= L
      BY <1>2, <2>1
    <3> DEFINE k == Max(S)
    <3>2. k \in S /\ \A y \in S : k >= y
      BY <1>1, <3>1, MaxOfSome
    <3> HIDE DEF k
    <3>3. k \in 1 .. L /\ k \in Nat
      BY <1>1, <3>2
    <3>4. S \in SUBSET (1 .. k)
      BY <1>1, <3>2, <3>3
    <3>5. n + 1 <= k
      <4>1. Cardinality(S) <= k
        BY <3>3, <3>4, SomePlaces
      <4> QED
        BY <2>1, <4>1
    <3>6. S \ {k} \in SUBSET (1 .. L) /\ Cardinality(S \ {k}) = n
      <4>1. Cardinality(S \ {k}) = Cardinality(S) - 1
        BY <1>2, <3>2, FS_RemoveElement
      <4>2. Cardinality(S \ {k}) = (n + 1) - 1
        BY <2>1, <4>1
      <4>3. S \ {k} \in SUBSET (1 .. L)
        OBVIOUS
      <4> QED
        BY <4>2, <4>3
    <3>7. Gain(S \ {k}) <= Gain(1 .. n)
      BY <1>4, <3>6
    <3>8. Discount[k] <= Discount[n + 1]
      <4>1. n + 1 \in 1 .. L
        BY <1>1, <3>1
      <4> QED
        BY <1>1, <3>3, <3>5, <4>1, LaterPaysLess
    <3>9. Gain(S) = Discount[k] + Gain(S \ {k})
      <4>1. Paid(S)
        BY <1>1 DEF Paid
      <4> QED
        BY <3>2, <4>1, GainOff
    <3>10. Gain(1 .. (n + 1)) = Discount[n + 1] + Gain(1 .. n)
      <4>1. Paid(1 .. (n + 1)) /\ n + 1 \in 1 .. (n + 1) /\ (1 .. (n + 1)) \ {n + 1} = 1 .. n
        BY <1>1, <3>1 DEF Paid
      <4> QED
        BY <4>1, GainOff
    <3>11. Gain(S \ {k}) \in Nat /\ Gain(1 .. n) \in Nat /\ Discount[k] \in Nat /\ Discount[n + 1] \in Nat
      <4>1. n + 1 \in 1 .. L
        BY <1>1, <3>1
      <4>2. Paid(1 .. n)
        BY <1>1, <3>1 DEF Paid
      <4>3. Paid(S \ {k})
        BY <1>1 DEF Paid
      <4>4. Discount[k] \in Nat /\ Discount[n + 1] \in Nat
        BY <1>1, <3>3, <4>1
      <4> QED
        BY <4>2, <4>3, <4>4, GainOff
    <3> QED
      BY <3>7, <3>8, <3>9, <3>10, <3>11
  <2> QED
    BY <2>1
<1> HIDE DEF N
<1>5. Cardinality(H) \in N
  <2>1. Cardinality(H) \in Nat
    BY <1>1, <1>2 DEF Paid
  <2> QED
    BY <1>3, <1>4, <2>1, AllNats
<1> QED
  BY <1>1, <1>5 DEF N, Paid

\* More places gain more.
LEMMA MoreGainsMore ==
  ASSUME NEW n \in Nat, NEW m \in Nat, n <= m, m <= Len(Discount)
  PROVE  Gain(1 .. n) <= Gain(1 .. m) /\ Gain(1 .. m) \in Nat /\ (m > 0 => Gain(1 .. m) > 0)
<1> DEFINE L == Len(Discount)
           N == {j \in Nat : n + j <= L => Gain(1 .. n) <= Gain(1 .. (n + j))}
<1>1. L \in Nat /\ DOMAIN Discount = 1 .. L /\ \A k \in 1 .. L : Discount[k] \in Nat /\ Discount[k] > 0
  BY DiscountAssumption
<1> HIDE DEF L
<1>2. ASSUME NEW i \in Nat, i <= L PROVE Gain(1 .. i) \in Nat
  <2>1. Paid(1 .. i)
    BY <1>1, <1>2 DEF Paid
  <2> QED
    BY <2>1, GainOff
<1>3. ASSUME NEW i \in Nat, i + 1 <= L PROVE Gain(1 .. (i + 1)) = Discount[i + 1] + Gain(1 .. i)
  <2>1. Paid(1 .. (i + 1)) /\ i + 1 \in 1 .. (i + 1) /\ (1 .. (i + 1)) \ {i + 1} = 1 .. i
    BY <1>1, <1>3 DEF Paid
  <2> QED
    BY <2>1, GainOff
<1>4. 0 \in N
  <2>1. n + 0 = n
    OBVIOUS
  <2> QED
    BY <1>1, <1>2, <2>1
<1>5. ASSUME NEW j \in Nat, j \in N PROVE j + 1 \in N
  <2>1. SUFFICES ASSUME n + (j + 1) <= L PROVE Gain(1 .. n) <= Gain(1 .. (n + (j + 1)))
    OBVIOUS
  <2> DEFINE i == n + j
  <2>2. i \in Nat /\ i + 1 = n + (j + 1) /\ i + 1 <= L /\ i <= L /\ n <= L /\ i + 1 \in 1 .. L
    BY <1>1, <2>1
  <2>3. Gain(1 .. n) <= Gain(1 .. i)
    BY <1>5, <2>2
  <2> HIDE DEF i
  <2>4. Gain(1 .. (i + 1)) = Discount[i + 1] + Gain(1 .. i)
    BY <1>3, <2>2
  <2>5. Gain(1 .. n) \in Nat /\ Gain(1 .. i) \in Nat /\ Discount[i + 1] \in Nat
    BY <1>1, <1>2, <2>2
  <2>6. Gain(1 .. n) <= Gain(1 .. (i + 1))
    BY <2>3, <2>4, <2>5
  <2> QED
    BY <2>2, <2>6
<1> HIDE DEF N
<1>6. Gain(1 .. n) <= Gain(1 .. m)
  <2>1. m - n \in Nat /\ n + (m - n) = m
    OBVIOUS
  <2>2. m - n \in N
    BY <1>4, <1>5, <2>1, AllNats
  <2> QED
    BY <2>1, <2>2 DEF N, L
<1>7. m > 0 => Gain(1 .. m) > 0
  <2>1. SUFFICES ASSUME m > 0 PROVE Gain(1 .. m) > 0
    OBVIOUS
  <2>2. m - 1 \in Nat /\ (m - 1) + 1 = m /\ m <= L /\ m - 1 <= L /\ m \in 1 .. L
    BY <1>1, <2>1 DEF L
  <2>3. Gain(1 .. m) = Discount[m] + Gain(1 .. (m - 1))
    BY <1>3, <2>2
  <2>4. Discount[m] \in Nat /\ Discount[m] > 0 /\ Gain(1 .. (m - 1)) \in Nat
    BY <1>1, <1>2, <2>2
  <2> QED
    BY <2>3, <2>4
<1> QED
  BY <1>2, <1>6, <1>7 DEF L

\* The hits are at the first places, one for a gold at most.
LEMMA HitsFit ==
  ASSUME NEW ranked, Listed(ranked), IsInjective(ranked), NEW golds, IsFiniteSet(golds), NEW k \in Nat,
         NEW H, H = Hits(ranked, golds, k)
  PROVE  /\ H \subseteq 1 .. k /\ Cardinality(H) \in Nat
         /\ Cardinality(H) <= k /\ Cardinality(H) <= Cardinality(golds)
<1> DEFINE len == Len(ranked)
           m == Min({k, len})
<1>1. len \in Nat /\ DOMAIN ranked = 1 .. len
  BY ListedShape
<1>2. m \in Nat /\ m <= k /\ m <= len
  <2> HIDE DEF len
  <2> QED
    BY <1>1, MinOfTwo
<1>3. H = {i \in 1 .. m : ranked[i] \in golds}
  BY DEF Hits
<1> HIDE DEF len, m
<1>4. H \in SUBSET (1 .. k) /\ H \subseteq DOMAIN ranked /\ \A i \in H : ranked[i] \in golds
  BY <1>1, <1>2, <1>3
<1>5. Cardinality(H) \in Nat /\ Cardinality(H) <= k
  BY <1>4, SomePlaces
<1> DEFINE g == [i \in H |-> ranked[i]]
<1>6. \A i, j \in H : g[i] = g[j] => i = j
  BY <1>4 DEF IsInjective
<1>7. g \in [H -> golds] /\ DOMAIN g = H
  BY <1>4
<1> HIDE DEF g
<1>8. g \in Injection(H, golds)
  BY <1>6, <1>7 DEF Injection, IsInjective
<1>9. Cardinality(H) <= Cardinality(golds)
  BY <1>8, FS_Injection
<1> QED
  BY <1>4, <1>5, <1>9

\* A ranking that has the golds first hits them all, or as many as count.
LEMMA GoldsFirst ==
  ASSUME NEW ranked, Listed(ranked), IsInjective(ranked), NEW golds, IsFiniteSet(golds), NEW k \in Nat,
         NEW H, H = Hits(ranked, golds, k), NEW c, c = Cardinality(golds),
         golds \subseteq Range(ranked), {ranked[j] : j \in 1 .. c} = golds
  PROVE  H = 1 .. Min({k, c})
<1> DEFINE len == Len(ranked)
           m == Min({k, len})
           n == Min({k, c})
<1>1. len \in Nat /\ DOMAIN ranked = 1 .. len
  BY ListedShape
<1>2. c \in Nat
  BY FS_CardinalityType
<1>3. H = {i \in 1 .. m : ranked[i] \in golds}
  BY DEF Hits
<1> HIDE DEF len
<1>4. m \in Nat /\ m = (IF k <= len THEN k ELSE len) /\ n \in Nat /\ n = (IF k <= c THEN k ELSE c)
  BY <1>1, <1>2, MinOfTwo
<1>5. c <= len
  <2> DEFINE R == Range(ranked)
  <2>1. ranked \in Seq(R)
    BY DEF Listed
  <2>2. ranked \in [1 .. len -> R]
    BY <1>1, <2>1 DEF len
  <2>3. \A y \in R : \E i \in 1 .. len : ranked[i] = y
    BY <1>1 DEF Range
  <2>4. golds \in SUBSET R
    OBVIOUS
  <2> HIDE DEF R
  <2>5. ranked \in Surjection(1 .. len, R)
    BY <2>2, <2>3 DEF Surjection
  <2>6. IsFiniteSet(1 .. len) /\ Cardinality(1 .. len) = len
    BY <1>1, FS_Interval
  <2>7. IsFiniteSet(R) /\ Cardinality(R) <= len
    BY <2>5, <2>6, FS_Surjection
  <2>8. Cardinality(golds) <= Cardinality(R) /\ Cardinality(R) \in Nat
    BY <2>4, <2>7, FS_Subset, FS_CardinalityType
  <2> DEFINE r == Cardinality(R)
  <2>9. r \in Nat /\ c <= r /\ r <= len
    BY <2>7, <2>8
  <2> HIDE DEF r
  <2> QED
    BY <1>1, <1>2, <2>9
<1> HIDE DEF m, n
<1>6. ASSUME NEW i \in 1 .. len PROVE (ranked[i] \in golds) <=> i <= c
  <2>1. ASSUME i <= c PROVE ranked[i] \in golds
    <3>1. i \in 1 .. c
      BY <1>1, <1>2, <2>1
    <3> QED
      BY <3>1
  <2>2. ASSUME ranked[i] \in golds PROVE i <= c
    <3>1. PICK j \in 1 .. c : ranked[j] = ranked[i]
      BY <2>2
    <3>2. j \in 1 .. len
      BY <1>1, <1>2, <1>5
    <3>3. i = j
      BY <1>1, <3>1, <3>2 DEF IsInjective
    <3> QED
      BY <1>2, <3>3
  <2> QED
    BY <2>1, <2>2
<1>7. \A i \in 1 .. m : i \in 1 .. len
  BY <1>1, <1>4
<1>8. \A i : i \in H <=> i \in 1 .. m /\ i <= c
  BY <1>3, <1>6, <1>7
<1>9. \A i : (i \in 1 .. m /\ i <= c) <=> i \in 1 .. n
  BY <1>1, <1>2, <1>4, <1>5
<1>10. H = 1 .. n
  BY <1>3, <1>8, <1>9
<1> QED
  BY <1>10 DEF n

\* The metrics of a ranking without repetition.
LEMMA MetricsFair ==
  ASSUME NEW ranked, Listed(ranked), IsInjective(ranked), NEW golds, IsFiniteSet(golds),
         NEW k \in Nat, k > 0, k <= Len(Discount)
  PROVE  /\ Recall(ranked, golds, k) \in 0 .. 1000 /\ Ndcg(ranked, golds, k) \in 0 .. 1000
         /\ (golds # {} /\ golds \subseteq Range(ranked) /\ {ranked[j] : j \in 1 .. Cardinality(golds)} = golds) =>
              /\ Ndcg(ranked, golds, k) = 1000
              /\ Cardinality(golds) <= k => Recall(ranked, golds, k) = 1000
<1>1. CASE golds = {}
  BY <1>1 DEF Recall, Ndcg
<1>2. CASE golds # {}
  <2> DEFINE H == Hits(ranked, golds, k)
             c == Cardinality(golds)
             h == Cardinality(H)
             m == Min({k, c})
             gained == Gain(H)
             best == Gain(1 .. m)
  <2>1. c \in Nat /\ c > 0
    BY <1>2, FS_CardinalityType, FS_EmptySet
  <2>2. Recall(ranked, golds, k) = (1000 * h) \div c /\ Ndcg(ranked, golds, k) = (1000 * gained) \div best
    BY <1>2 DEF Recall, Ndcg
  <2>3. H = Hits(ranked, golds, k)
    OBVIOUS
  <2> HIDE DEF H
  <2>4. H \subseteq 1 .. k /\ h \in Nat /\ h <= k /\ h <= c
    BY <2>3, HitsFit
  <2>5. ASSUME golds \subseteq Range(ranked), {ranked[j] : j \in 1 .. c} = golds PROVE H = 1 .. m
    <3>1. \A C : C = c => H = 1 .. Min({k, C})
      BY <2>3, <2>5, GoldsFirst
    <3> QED
      BY <3>1
  <2> HIDE DEF c, h
  <2>6. m \in Nat /\ m = (IF k <= c THEN k ELSE c)
    BY <2>1, MinOfTwo
  <2> HIDE DEF m
  <2>7. h <= m /\ m > 0 /\ m <= Len(Discount) /\ m <= k
    <3> DEFINE L == Len(Discount)
    <3>1. L \in Nat /\ k <= L
      BY DiscountAssumption
    <3> HIDE DEF L
    <3>2. h <= m /\ m > 0 /\ m <= L /\ m <= k
      BY <2>1, <2>4, <2>6, <3>1
    <3> QED
      BY <3>2 DEF L
  <2>8. Paid(H)
    <3>1. DOMAIN Discount = 1 .. Len(Discount) /\ Len(Discount) \in Nat
      BY DiscountAssumption
    <3> DEFINE L == Len(Discount)
    <3>2. L \in Nat /\ k <= L
      BY <3>1
    <3> HIDE DEF L
    <3>3. H \subseteq 1 .. L
      BY <2>4, <3>2
    <3> QED
      BY <3>1, <3>3 DEF Paid, L
  <2>9. gained <= Gain(1 .. h)
    BY <2>8, FirstGainsMost DEF h
  <2>10. gained \in Nat
    BY <2>8, GainOff
  <2>11. Gain(1 .. h) <= best /\ best \in Nat /\ best > 0
    BY <2>4, <2>6, <2>7, MoreGainsMore
  <2>12. Gain(1 .. h) \in Nat
    <3>1. h <= Len(Discount)
      <4> DEFINE L == Len(Discount)
      <4>1. L \in Nat /\ m <= L
        BY <2>7, DiscountAssumption
      <4> HIDE DEF L
      <4>2. h <= L
        BY <2>4, <2>6, <2>7, <4>1
      <4> QED
        BY <4>2 DEF L
    <3> QED
      BY <2>4, <3>1, MoreGainsMore
  <2> DEFINE e == Gain(1 .. h)
  <2>13. gained <= best
    <3>1. gained <= e /\ e <= best /\ e \in Nat
      BY <2>9, <2>11, <2>12
    <3> HIDE DEF e, gained, best
    <3> QED
      BY <2>10, <2>11, <3>1
  <2>14. H = 1 .. m => gained = best
    OBVIOUS
  <2>15. H = 1 .. m /\ c <= k => h = c
    <3>1. H = 1 .. m => h = m
      BY <2>6, FS_Interval DEF h
    <3> QED
      BY <2>1, <2>6, <3>1
  <2> HIDE DEF gained, best
  <2>16. (1000 * h) \div c \in 0 .. 1000 /\ (h = c => (1000 * h) \div c = 1000)
    BY <2>1, <2>4, Thousandths
  <2>17. (1000 * gained) \div best \in 0 .. 1000 /\ (gained = best => (1000 * gained) \div best = 1000)
    BY <2>10, <2>11, <2>13, Thousandths
  <2>18. Recall(ranked, golds, k) \in 0 .. 1000 /\ Ndcg(ranked, golds, k) \in 0 .. 1000
    BY <2>2, <2>16, <2>17
  <2>19. ASSUME golds \subseteq Range(ranked), {ranked[j] : j \in 1 .. c} = golds
         PROVE  /\ Ndcg(ranked, golds, k) = 1000
                /\ c <= k => Recall(ranked, golds, k) = 1000
    BY <2>2, <2>5, <2>14, <2>15, <2>16, <2>17, <2>19
  <2> QED
    BY <2>18, <2>19 DEF c
<1> QED
  BY <1>1, <1>2

\* What the metrics of a ranking of documents with some golds are to be.
Fair(recall, ndcg, ranked, golds, k) ==
  /\ recall \in 0 .. 1000 /\ ndcg \in 0 .. 1000
  /\ (golds # {} /\ {ranked[j] : j \in 1 .. Cardinality(golds)} = golds) =>
       ndcg = 1000 /\ (Cardinality(golds) <= k => recall = 1000)

LEMMA ScoresFair ==
  ASSUME NEW ranked, Listed(ranked), IsInjective(ranked), NEW golds, IsFiniteSet(golds),
         golds \subseteq Range(ranked),
         NEW k \in Nat, k > 0, k <= Len(Discount), NEW n \in Nat, n <= k
  PROVE  Fair(Recall(ranked, golds, k), Ndcg(ranked, golds, k), ranked, golds, n)
<1> DEFINE recall == Recall(ranked, golds, k)
           ndcg == Ndcg(ranked, golds, k)
           c == Cardinality(golds)
<1>1. /\ recall \in 0 .. 1000 /\ ndcg \in 0 .. 1000
      /\ (golds # {} /\ golds \subseteq Range(ranked) /\ {ranked[j] : j \in 1 .. c} = golds) =>
           ndcg = 1000 /\ (c <= k => recall = 1000)
  BY MetricsFair
<1>2. c \in Nat
  BY FS_CardinalityType
<1> HIDE DEF recall, ndcg, c
<1>3. c <= n => c <= k
  BY <1>2
<1> QED
  BY <1>1, <1>3 DEF Fair, recall, ndcg, c

FairRow(row, a, golds, k) == row.golds = golds /\ Fair(row.recall, row.ndcg, a.ranked, golds, k)

\* A ranking of the whole pool.
Whole(a, q, cands) ==
  /\ a.kind = "ranking" /\ a.id = q /\ a.ranked \in Seq(Range(cands))
  /\ IsInjective(a.ranked) /\ Range(a.ranked) = Range(cands)

\* Its row counts the golds of the pool.
LEMMA RowFair ==
  ASSUME NEW in, ObliqInput(in), NEW q, q \in in.queries, NEW cands, IsFiniteSet(Range(cands)),
         NEW a, Whole(a, q, cands)
  PROVE  FairRow(ObliqRow(in, a), a, Range(cands) \cap in.golds[q], in.k)
<1> DEFINE ranked == a.ranked
           golds == Range(cands) \cap in.golds[q]
           row == ObliqRow(in, a)
           k == Max({1, in.k})
           G == Golds(in, a)
<1>0. /\ a.kind = "ranking" /\ a.id = q /\ Listed(ranked) /\ IsInjective(ranked)
      /\ Range(ranked) = Range(cands)
  BY DEF Whole, Listed
<1>1. Ranked(a) = ranked
  BY <1>0 DEF Ranked
<1>2. G = golds
  <2>1. G = in.golds[a.id] \cap Range(Ranked(a))
    <3>1. ~(a.kind = "echo" /\ a.job.golds # {})
      BY <1>0
    <3>2. ~(a.kind = "lost" \/ (a.kind = "ranking" /\ a.id \notin in.queries))
      BY <1>0
    <3> QED
      BY <3>1, <3>2 DEF Golds
  <2> QED
    BY <1>0, <1>1, <2>1
<1>3. row.golds = G /\ row.recall = Recall(ranked, G, k) /\ row.ndcg = Ndcg(ranked, G, k)
  <2>1. a.kind # "lost"
    BY <1>0
  <2> QED
    BY <1>1, <2>1 DEF ObliqRow
<1>4. k \in Nat /\ k > 0 /\ in.k <= k /\ k <= Len(Discount) /\ in.k \in Nat
  <2> DEFINE L == Len(Discount)
             n == in.k
  <2>1. L \in Nat /\ L > 0
    BY DiscountAssumption
  <2>2. n \in Nat /\ n <= L
    BY DEF ObliqInput
  <2>3. k = Max({1, n})
    OBVIOUS
  <2> HIDE DEF L, n, k
  <2>4. Max({1, n}) = IF 1 <= n THEN n ELSE 1
    BY <2>2, MaxOfTwo
  <2>5. k \in Nat /\ k > 0 /\ n <= k /\ k <= L
    BY <2>1, <2>2, <2>3, <2>4
  <2> QED
    BY <2>2, <2>5 DEF L, n
<1>5. IsFiniteSet(golds) /\ golds \subseteq Range(ranked)
  <2>1. golds \in SUBSET Range(cands)
    OBVIOUS
  <2> QED
    BY <1>0, <2>1, FS_Subset
<1> HIDE DEF ranked, golds, row, k, G
<1>6. Fair(Recall(ranked, golds, k), Ndcg(ranked, golds, k), ranked, golds, in.k)
  BY <1>0, <1>4, <1>5, ScoresFair
<1>7. row.golds = golds /\ Fair(row.recall, row.ndcg, ranked, golds, in.k)
  BY <1>2, <1>3, <1>6
<1> QED
  BY <1>7 DEF FairRow, ranked, golds, row

LEMMA ReportScored ==
  ASSUME Audited, report \in Reports, scan.workload = "obliq", NEW i \in DOMAIN jobs,
         Whole(audits[i], jobs[i].id, jobs[i].cands)
  PROVE  FairRow(report.rows[i], audits[i], Range(jobs[i].cands) \cap scan.in.golds[jobs[i].id], scan.in.k)
<1> DEFINE in == scan.in
           q == jobs[i].id
           cands == jobs[i].cands
           a == audits[i]
<1>1. Listed(jobs) /\ Listed(audits) /\ Len(audits) = Len(jobs) /\ scan \in Scans
  BY DEF Audited
<1>2. ObliqInput(in)
  BY <1>1, ScanAssumption
<1>3. jobs # <<>>
  BY DEF Listed
<1>4. jobs \in ObliqExpansions(in)
  BY <1>3 DEF Audited, Expansions
<1>5. i \in DOMAIN audits
  <2>1. DOMAIN jobs = 1 .. Len(jobs) /\ DOMAIN audits = 1 .. Len(audits)
    BY <1>1, ListedShape
  <2> QED
    BY <1>1, <2>1
<1>6. report.rows[i] = ObliqRow(in, a)
  <2>1. report \in ObliqReports(in, audits)
    BY DEF Reports
  <2>2. \A j \in DOMAIN audits : report.rows[j] = ObliqRow(in, audits[j])
    BY <1>1, <2>1, ObliqReportTells
  <2> QED
    BY <1>5, <2>2
<1>7. q \in in.queries /\ IsFiniteSet(Range(cands))
  BY <1>2, <1>4, ObliqJobsHonest
<1>8. Whole(a, q, cands)
  OBVIOUS
<1> HIDE DEF in, q, cands, a
<1>9. FairRow(ObliqRow(in, a), a, Range(cands) \cap in.golds[q], in.k)
  BY <1>2, <1>7, <1>8, RowFair
<1> QED
  BY <1>6, <1>9 DEF in, q, cands, a

\* A ranking of the whole pool is scored against the golds of the pool, its
\* metrics are within their range and the best ranking has full marks, for every
\* discount that does not grow and every k it covers (obliq.rs: aggregate).
THEOREM RankingFair == Spec => []RankingFairlyScored
<1>1. Audited /\ Written /\ Caused => RankingFairlyScored
  <2> SUFFICES ASSUME Audited, Written, Reported, scan.workload = "obliq", Scope(scan.in) # "full"
               PROVE  RankingFairlyScored
    BY DEF RankingFairlyScored
  <2>1. report \in Reports
    BY DEF Written, Reported
  <2>2. ASSUME NEW i \in DOMAIN jobs, Whole(audits[i], jobs[i].id, jobs[i].cands)
        PROVE  FairRow(report.rows[i], audits[i], Range(jobs[i].cands) \cap scan.in.golds[jobs[i].id], scan.in.k)
    BY <2>1, <2>2, ReportScored
  <2>3. ASSUME NEW i \in DOMAIN jobs
        PROVE  LET a == audits[i]
                   row == report.rows[i]
                   golds == Range(jobs[i].cands) \cap scan.in.golds[jobs[i].id]
                   whole == a.kind = "ranking" /\ a.id = jobs[i].id /\ a.ranked \in Seq(Range(jobs[i].cands))
                            /\ IsInjective(a.ranked) /\ Range(a.ranked) = Range(jobs[i].cands)
               IN whole =>
                    /\ row.golds = golds
                    /\ row.recall \in 0 .. 1000 /\ row.ndcg \in 0 .. 1000
                    /\ (golds # {} /\ {a.ranked[j] : j \in 1 .. Cardinality(golds)} = golds) =>
                         row.ndcg = 1000 /\ (Cardinality(golds) <= scan.in.k => row.recall = 1000)
    <3> DEFINE a == audits[i]
               row == report.rows[i]
               golds == Range(jobs[i].cands) \cap scan.in.golds[jobs[i].id]
    <3> SUFFICES ASSUME Whole(a, jobs[i].id, jobs[i].cands)
                 PROVE  /\ row.golds = golds
                        /\ row.recall \in 0 .. 1000 /\ row.ndcg \in 0 .. 1000
                        /\ (golds # {} /\ {a.ranked[j] : j \in 1 .. Cardinality(golds)} = golds) =>
                             row.ndcg = 1000 /\ (Cardinality(golds) <= scan.in.k => row.recall = 1000)
      BY Zenon DEF Whole
    <3>1. FairRow(row, a, golds, scan.in.k)
      BY <2>2
    <3> HIDE DEF a, row, golds
    <3>2. row.golds = golds
      BY <3>1 DEF FairRow
    <3>3. Fair(row.recall, row.ndcg, a.ranked, golds, scan.in.k)
      BY <3>1 DEF FairRow
    <3>4. row.recall \in 0 .. 1000 /\ row.ndcg \in 0 .. 1000
      BY <3>3 DEF Fair
    <3>5. ASSUME golds # {}, {a.ranked[j] : j \in 1 .. Cardinality(golds)} = golds
          PROVE  row.ndcg = 1000 /\ (Cardinality(golds) <= scan.in.k => row.recall = 1000)
      BY <3>3, <3>5 DEF Fair
    <3> QED
      BY <3>2, <3>4, <3>5
  <2> QED
    BY <2>3 DEF RankingFairlyScored
<1> QED
  BY <1>1, ScanInvariant, PTL
=============================================================================
