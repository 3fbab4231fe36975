---------------------------- MODULE FoldTheorems ----------------------------
(***************************************************************************)
(* MapThenFoldSet of the module Folds takes the elements of a finite set   *)
(* one after the other, as its definition suggests.  The definition goes   *)
(* through a recursive function on all subsets, which is shown here to     *)
(* exist and to be the only one.                                           *)
(*                                                                         *)
(* The operators that are folded are constants of this module; it is used  *)
(* by INSTANCE with those of a specification.                              *)
(***************************************************************************)
EXTENDS Integers, Folds, FiniteSetTheorems, WellFoundedInduction, TLAPS

CONSTANTS op(_, _), base,
          f(_, _),      \* the mapping with a parameter, and the element mapped
          choose(_),
          Good(_, _)    \* what an induction shows of a result

Fold(e, S) == MapThenFoldSet(op, base, LAMBDA x : f(e, x), choose, S)

\* What the recursive function has at s when it has i at smaller sets.
Body(e, i, s) == IF s = {} THEN base ELSE op(f(e, choose(s)), i[s \ {choose(s)}])
IsFold(e, i, S) == i = [s \in SUBSET S |-> Body(e, i, s)]

\* The sets that may be folded: finite, and choose takes an element.
Foldable(S) == IsFiniteSet(S) /\ \A s \in SUBSET S : s # {} => choose(s) \in s

\* A set with 0 and the successor of each of its members is Nat.
LEMMA Induction ==
    ASSUME NEW S \in SUBSET Nat, 0 \in S, \A n \in S : n + 1 \in S
    PROVE  S = Nat
<1>. DEFINE R == {ss \in Nat \X Nat : ss[1] < ss[2]}
<1>1. IsWellFoundedOn(R, Nat)
  BY NatLessThanWellFounded DEF OpToRel
<1>. SUFFICES ASSUME Nat \ S # {} PROVE FALSE
  OBVIOUS
<1>. HIDE DEF R
<1>2. PICK x \in Nat \ S : \A y \in Nat \ S : ~(<<y, x>> \in R)
  BY <1>1, WFMin
<1>3. x # 0 /\ x - 1 \in Nat /\ x - 1 < x
  BY <1>2
<1>4. x - 1 \in S
  BY <1>2, <1>3 DEF R
<1>. QED
  BY <1>2, <1>3, <1>4

\* Taking its chosen element from a set makes it smaller, and leaves a set that
\* may be folded.
LEMMA Rest ==
    ASSUME NEW S, Foldable(S), NEW s \in SUBSET S, s # {}
    PROVE  /\ choose(s) \in s /\ s \ {choose(s)} \in SUBSET S
           /\ Cardinality(s) \in Nat \ {0} /\ Cardinality(s \ {choose(s)}) = Cardinality(s) - 1
<1>1. choose(s) \in s /\ IsFiniteSet(s)
  BY FS_Subset DEF Foldable
<1>. QED
  BY <1>1, FS_RemoveElement, FS_CardinalityType, FS_EmptySet

\* The recursive function exists.
LEMMA FoldExists ==
    ASSUME NEW e, NEW S, Foldable(S)
    PROVE  \E i : IsFold(e, i, S)
<1>. DEFINE Small(n) == {s \in SUBSET S : Cardinality(s) <= n}
            Upto(i, n) == i = [s \in Small(n) |-> Body(e, i, s)]
            N == {n \in Nat : \E i : Upto(i, n)}
<1>1. \A s \in SUBSET S : IsFiniteSet(s) /\ Cardinality(s) \in Nat /\ Cardinality(s) <= Cardinality(S)
  BY FS_Subset, FS_CardinalityType DEF Foldable
<1>2. 0 \in N
  <2>1. \A s \in Small(0) : s = {}
    BY <1>1, FS_EmptySet
  <2>2. Upto([s \in Small(0) |-> base], 0)
    BY <2>1 DEF Body
  <2>. QED
    BY <2>2
<1>3. ASSUME NEW n \in N PROVE n + 1 \in N
  <2>1. PICK i : Upto(i, n)
    BY <1>3
  <2>. DEFINE h == [s \in Small(n + 1) |-> Body(e, i, s)]
  <2>2. ASSUME NEW s \in Small(n + 1) PROVE h[s] = Body(e, h, s)
    <3>1. CASE s = {}
      BY <3>1 DEF Body
    <3>2. CASE s # {}
      <4>1. /\ s \ {choose(s)} \in SUBSET S /\ Cardinality(s \ {choose(s)}) <= n
        BY <3>2, <1>1, Rest
      <4>. DEFINE r == s \ {choose(s)}
      <4>2. r \in Small(n) /\ r \in Small(n + 1)
        BY <4>1, <1>1
      <4>3. h[r] = Body(e, i, r) /\ i[r] = Body(e, i, r)
        BY <4>2, <2>1
      <4>. QED
        BY <3>2, <4>3 DEF Body
    <3>. QED
      BY <3>1, <3>2
  <2>3. Upto(h, n + 1)
    BY <2>2
  <2>4. \E u : Upto(u, n + 1)
    <3>. HIDE DEF h, Upto
    <3>. QED
      BY <2>3
  <2>5. n + 1 \in Nat
    OBVIOUS
  <2>. HIDE DEF Upto
  <2>. QED
    BY <2>4, <2>5
<1>4. Cardinality(S) \in N
  <2>. HIDE DEF N
  <2>1. N = Nat
    <3>1. N \in SUBSET Nat
      BY DEF N
    <3>. QED
      BY <1>2, <1>3, <3>1, Induction
  <2>. QED
    BY <2>1, <1>1
<1>5. Small(Cardinality(S)) = SUBSET S
  BY <1>1
<1>6. PICK i : i = [s \in Small(Cardinality(S)) |-> Body(e, i, s)]
  BY <1>4
<1>. QED
  BY <1>5, <1>6 DEF IsFold

\* Two such functions agree where both are defined.
LEMMA FoldUnique ==
    ASSUME NEW e, NEW S, Foldable(S), NEW T, Foldable(T), NEW i, IsFold(e, i, S), NEW h, IsFold(e, h, T)
    PROVE  \A s \in (SUBSET S) \cap (SUBSET T) : i[s] = h[s]
<1>. DEFINE N == {n \in Nat : \A s \in (SUBSET S) \cap (SUBSET T) : Cardinality(s) <= n => i[s] = h[s]}
<1>1. \A s \in SUBSET S : IsFiniteSet(s) /\ Cardinality(s) \in Nat
  BY FS_Subset, FS_CardinalityType DEF Foldable
<1>2. /\ \A s \in SUBSET S : i[s] = Body(e, i, s)
      /\ \A s \in SUBSET T : h[s] = Body(e, h, s)
  <2>1. DOMAIN i = SUBSET S /\ DOMAIN h = SUBSET T
    BY DEF IsFold
  <2>. QED
    BY <2>1 DEF IsFold
<1>3. 0 \in N
  <2>1. ASSUME NEW s \in (SUBSET S) \cap (SUBSET T), Cardinality(s) <= 0 PROVE i[s] = h[s]
    <3>1. s = {}
      BY <2>1, <1>1, FS_EmptySet
    <3>. QED
      BY <3>1, <1>2 DEF Body
  <2>. QED
    BY <2>1
<1>4. ASSUME NEW n \in N PROVE n + 1 \in N
  <2>1. ASSUME NEW s \in (SUBSET S) \cap (SUBSET T), Cardinality(s) <= n + 1 PROVE i[s] = h[s]
    <3>1. CASE s = {}
      BY <3>1, <1>2 DEF Body
    <3>2. CASE s # {}
      <4>. DEFINE r == s \ {choose(s)}
      <4>1. r \in (SUBSET S) \cap (SUBSET T) /\ Cardinality(r) <= n
        BY <3>2, <2>1, <1>1, Rest
      <4>2. i[r] = h[r]
        BY <4>1
      <4>. QED
        BY <3>2, <4>2, <1>2 DEF Body
    <3>. QED
      BY <3>1, <3>2
  <2>. QED
    BY <2>1
<1>5. N = Nat
  <2>1. N \in SUBSET Nat
    OBVIOUS
  <2>. HIDE DEF N
  <2>. QED
    BY <1>3, <1>4, <2>1, Induction
<1>. QED
  BY <1>1, <1>5

\* Folding nothing gives the base; folding a set is folding the rest of it, and
\* then the chosen element.
LEMMA FoldSteps ==
    ASSUME NEW e, NEW S, Foldable(S)
    PROVE  /\ S = {} => Fold(e, S) = base
           /\ S # {} => Fold(e, S) = op(f(e, choose(S)), Fold(e, S \ {choose(S)}))
<1>. DEFINE The(T) == CHOOSE i : IsFold(e, i, T)
<1>1. ASSUME NEW T, Foldable(T) PROVE IsFold(e, The(T), T) /\ Fold(e, T) = The(T)[T]
  <2>1. Fold(e, T) = The(T)[T]
    BY DEF Fold, MapThenFoldSet, IsFold, Body
  <2>. QED
    BY <2>1, <1>1, FoldExists
<1>2. The(S)[S] = Body(e, The(S), S)
  <2>1. ASSUME NEW i, IsFold(e, i, S) PROVE i[S] = Body(e, i, S)
    <3>1. S \in SUBSET S /\ i = [s \in SUBSET S |-> Body(e, i, s)]
      BY <2>1 DEF IsFold
    <3>. QED
      BY <3>1
  <2>2. IsFold(e, The(S), S)
    BY <1>1
  <2>. QED
    BY <2>1, <2>2
<1>3. CASE S = {}
  BY <1>1, <1>2, <1>3 DEF Body
<1>4. CASE S # {}
  <2>. DEFINE r == S \ {choose(S)}
  <2>1. r \in SUBSET S
    OBVIOUS
  <2>2. Foldable(r)
    BY <2>1, FS_Subset DEF Foldable
  <2>3. The(S)[r] = The(r)[r]
    <3>1. IsFold(e, The(S), S) /\ IsFold(e, The(r), r)
      BY <2>2, <1>1
    <3>. HIDE DEF The, r
    <3>2. \A s \in (SUBSET S) \cap (SUBSET r) : The(S)[s] = The(r)[s]
      BY <2>2, <3>1, FoldUnique
    <3>. QED
      BY <2>1, <3>2
  <2>. QED
    BY <1>1, <1>2, <1>4, <2>2, <2>3 DEF Body
<1>. QED
  BY <1>3, <1>4

\* What holds of the base, and of every result when an element has been folded
\* in after it held of the result before, holds of the fold: for the positions
\* of a sequence, folded from the first to the last.
LEMMA FoldInduction ==
    ASSUME NEW e, NEW n \in Nat,
           \A s \in SUBSET (1 .. n) : s # {} => choose(s) \in s /\ \A x \in s : x <= choose(s),
           Good(0, base), \A k \in 1 .. n : \A acc : Good(k - 1, acc) => Good(k, op(f(e, k), acc))
    PROVE  Good(n, Fold(e, 1 .. n))
<1>. DEFINE N == {k \in Nat : k <= n => Good(k, Fold(e, 1 .. k))}
<1>1. ASSUME NEW k \in 0 .. n PROVE Foldable(1 .. k)
  <2>1. IsFiniteSet(1 .. k) /\ \A s \in SUBSET (1 .. k) : s \in SUBSET (1 .. n)
    BY FS_Interval
  <2>. QED
    BY <2>1 DEF Foldable
<1>2. 0 \in N
  <2>1. 1 .. 0 = {} /\ 0 \in 0 .. n
    OBVIOUS
  <2>2. Fold(e, 1 .. 0) = base
    BY <1>1, <2>1, FoldSteps
  <2>. QED
    BY <2>2
<1>3. ASSUME NEW k \in N PROVE k + 1 \in N
  <2>. SUFFICES ASSUME k + 1 <= n PROVE Good(k + 1, Fold(e, 1 .. k + 1))
    OBVIOUS
  <2>1. k + 1 \in 1 .. n /\ k + 1 \in 0 .. n /\ Good(k, Fold(e, 1 .. k))
    OBVIOUS
  <2>2. choose(1 .. k + 1) = k + 1
    <3>. DEFINE K == 1 .. k + 1
                c == choose(K)
    <3>0. k \in Nat /\ k + 1 <= n /\ n \in Nat
      BY <2>1
    <3>1. K \in SUBSET (1 .. n) /\ K # {} /\ k + 1 \in K
      <4>1. \A x \in K : x \in 1 .. n
        BY <3>0
      <4>2. k + 1 \in K
        BY <3>0
      <4>. HIDE DEF K
      <4>. QED
        BY <4>1, <4>2
    <3>. HIDE DEF K
    <3>2. c \in K /\ \A x \in K : x <= c
      BY <3>1
    <3>. HIDE DEF c
    <3>3. k \in Nat /\ c \in 1 .. k + 1 /\ k + 1 <= c
      BY <3>1, <3>2 DEF K
    <3>4. c = k + 1
      BY <3>3
    <3>. QED
      BY <3>4 DEF c, K
  <2>3. (1 .. k + 1) \ {k + 1} = 1 .. k /\ 1 .. k + 1 # {}
    <3>1. k \in Nat
      OBVIOUS
    <3>2. \A j \in Nat : (1 .. j + 1) \ {j + 1} = 1 .. j /\ j + 1 \in 1 .. j + 1
      OBVIOUS
    <3>. QED
      BY <3>1, <3>2
  <2>4. Fold(e, 1 .. k + 1) = op(f(e, k + 1), Fold(e, 1 .. k))
    <3>1. Foldable(1 .. k + 1)
      BY <1>1, <2>1
    <3>2. Fold(e, 1 .. k + 1) = op(f(e, choose(1 .. k + 1)), Fold(e, (1 .. k + 1) \ {choose(1 .. k + 1)}))
      BY <2>3, <3>1, FoldSteps
    <3>. QED
      BY <2>2, <2>3, <3>2
  <2>. QED
    BY <2>1, <2>4
<1>4. N = Nat
  <2>1. N \in SUBSET Nat
    OBVIOUS
  <2>. HIDE DEF N
  <2>. QED
    BY <1>2, <1>3, <2>1, Induction
<1>. QED
  BY <1>4

\* Two parameters under which the mapping agrees on a set fold it to the same.
LEMMA FoldSame ==
    ASSUME NEW e, NEW d, NEW S, Foldable(S), \A x \in S : f(d, x) = f(e, x)
    PROVE  Fold(d, S) = Fold(e, S)
<1>. DEFINE that == CHOOSE i : IsFold(d, i, S)
            this == CHOOSE i : IsFold(e, i, S)
<1>1. \A i : \A s \in SUBSET S : Body(d, i, s) = Body(e, i, s)
  <2>1. \A s \in SUBSET S : s # {} => f(d, choose(s)) = f(e, choose(s))
    BY DEF Foldable
  <2>. QED
    BY <2>1 DEF Body
<1>2. \A i : IsFold(d, i, S) <=> IsFold(e, i, S)
  <2>1. \A i : [s \in SUBSET S |-> Body(d, i, s)] = [s \in SUBSET S |-> Body(e, i, s)]
    BY <1>1
  <2>. QED
    BY <2>1 DEF IsFold
<1>3. Fold(d, S) = that[S] /\ Fold(e, S) = this[S]
  BY DEF Fold, MapThenFoldSet, IsFold, Body
<1>4. IsFold(e, this, S) /\ IsFold(e, that, S)
  <2>1. (\E i : IsFold(e, i, S)) /\ (\E i : IsFold(d, i, S))
    BY FoldExists
  <2>. QED
    BY <1>2, <2>1
<1>. HIDE DEF this, that
<1>. QED
  BY <1>3, <1>4, FoldUnique

\* Folding elements of U stays in A, in whatever order.
Closed(e, U, A) == base \in A /\ \A x \in U : \A a \in A : op(f(e, x), a) \in A
Commutes(e, U, A) == \A x, y \in U : \A a \in A : op(f(e, x), op(f(e, y), a)) = op(f(e, y), op(f(e, x), a))

\* Where the order does not matter, folding in one element more adds it to the
\* result.
LEMMA FoldAdd ==
    ASSUME NEW e, NEW U, Foldable(U), NEW A, Closed(e, U, A), Commutes(e, U, A), NEW S \in SUBSET U
    PROVE  Fold(e, S) \in A /\ \A x \in U \ S : Fold(e, S \cup {x}) = op(f(e, x), Fold(e, S))
<1>. DEFINE Adds(s) == Fold(e, s) \in A /\ \A x \in U \ s : Fold(e, s \cup {x}) = op(f(e, x), Fold(e, s))
            N == {n \in Nat : \A s \in SUBSET U : Cardinality(s) <= n => Adds(s)}
<1>0. /\ base \in A /\ \A x \in U : \A a \in A : op(f(e, x), a) \in A
      /\ \A x, y \in U : \A a \in A : op(f(e, x), op(f(e, y), a)) = op(f(e, y), op(f(e, x), a))
  BY DEF Closed, Commutes
<1>1. \A s \in SUBSET U : IsFiniteSet(s) /\ Cardinality(s) \in Nat /\ Foldable(s)
  BY FS_Subset, FS_CardinalityType DEF Foldable
<1>2. ASSUME NEW s \in SUBSET U, s # {}
      PROVE  choose(s) \in s /\ Fold(e, s) = op(f(e, choose(s)), Fold(e, s \ {choose(s)}))
  BY <1>1, <1>2, FoldSteps DEF Foldable
<1>3. 0 \in N
  <2>1. ASSUME NEW s \in SUBSET U, Cardinality(s) <= 0 PROVE Adds(s)
    <3>1. s = {}
      BY <1>1, <2>1, FS_EmptySet
    <3>2. Fold(e, {}) = base
      BY <1>1, <3>1, FoldSteps
    <3>3. ASSUME NEW x \in U PROVE Fold(e, {x}) = op(f(e, x), base)
      <4>1. choose({x}) \in {x} /\ Fold(e, {x}) = op(f(e, choose({x})), Fold(e, {x} \ {choose({x})}))
        BY <1>2
      <4>2. choose({x}) = x /\ {x} \ {x} = {}
        BY <4>1
      <4>. QED
        BY <3>2, <4>1, <4>2
    <3>4. \A x : {} \cup {x} = {x}
      OBVIOUS
    <3>. QED
      BY <1>0, <3>1, <3>2, <3>3, <3>4
  <2>. QED
    BY <2>1
<1>4. ASSUME NEW n \in N PROVE n + 1 \in N
  <2>1. ASSUME NEW s \in SUBSET U, Cardinality(s) <= n + 1 PROVE Adds(s)
    <3>1. CASE s = {}
      <4>1. Cardinality(s) <= n
        BY <3>1, FS_EmptySet
      <4>. QED
        BY <4>1
    <3>2. CASE s # {}
      <4>1. ASSUME NEW c \in s
            PROVE  Adds(s \ {c}) /\ Fold(e, s) = op(f(e, c), Fold(e, s \ {c}))
        <5>1. Cardinality(s \ {c}) <= n
          BY <1>1, <2>1, <4>1, FS_RemoveElement
        <5>2. Adds(s \ {c}) /\ s \ {c} \in SUBSET U
          BY <5>1
        <5>3. c \in U \ (s \ {c}) /\ (s \ {c}) \cup {c} = s
          OBVIOUS
        <5>. QED
          BY <5>2, <5>3
      <4>2. Fold(e, s) \in A
        <5>1. PICK c \in s : TRUE
          BY <3>2
        <5>. DEFINE q == s \ {c}
        <5>2. c \in U /\ Fold(e, q) \in A /\ Fold(e, s) = op(f(e, c), Fold(e, q))
          BY <4>1
        <5>. HIDE DEF q
        <5>. QED
          BY <1>0, <5>2
      <4>3. ASSUME NEW x \in U \ s PROVE Fold(e, s \cup {x}) = op(f(e, x), Fold(e, s))
        <5>. DEFINE u == s \cup {x}
                    d == choose(u)
        <5>1. d \in u /\ Fold(e, u) = op(f(e, d), Fold(e, u \ {d}))
          BY <1>2
        <5>. HIDE DEF d
        <5>2. CASE d = x
          <6>1. u \ {x} = s
            BY <4>3
          <6>. QED
            BY <5>1, <5>2, <6>1
        <5>3. CASE d \in s
          <6>. DEFINE q == s \ {d}
          <6>1. u \ {d} = q \cup {x} /\ x \in U \ q
            BY <4>3, <5>3
          <6>2. /\ Fold(e, q) \in A /\ Fold(e, q \cup {x}) = op(f(e, x), Fold(e, q))
                /\ Fold(e, s) = op(f(e, d), Fold(e, q))
            BY <4>1, <5>3, <6>1
          <6>3. op(f(e, d), op(f(e, x), Fold(e, q))) = op(f(e, x), op(f(e, d), Fold(e, q)))
            BY <1>0, <5>3, <6>2
          <6>. HIDE DEF q, u
          <6>4. Fold(e, u) = op(f(e, x), Fold(e, s))
            BY <5>1, <6>1, <6>2, <6>3
          <6>. QED
            BY <6>4 DEF u
        <5>. QED
          BY <5>1, <5>2, <5>3
      <4>. QED
        BY <4>2, <4>3
    <3>. QED
      BY <3>1, <3>2
  <2>. HIDE DEF Adds
  <2>. QED
    BY <2>1
<1>5. N = Nat
  <2>1. N \in SUBSET Nat
    OBVIOUS
  <2>. HIDE DEF N
  <2>. QED
    BY <1>3, <1>4, <2>1, Induction
<1>6. Adds(S)
  <2>. HIDE DEF Adds
  <2>. QED
    BY <1>1, <1>5
<1>. QED
  BY <1>6
=============================================================================
