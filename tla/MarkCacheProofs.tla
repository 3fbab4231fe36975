-------------------------- MODULE MarkCacheProofs ---------------------------
(***************************************************************************)
(* Proofs about MarkCache for every set of accounts and every block length.*)
(*                                                                         *)
(* The safety invariants of MarkCache are proved from one inductive        *)
(* invariant, Inv.  Beside the invariants themselves it says that nothing  *)
(* has been placed above maxLevel, that an item is a position of the block,*)
(* and that the accounts with a mark are those of the block's transactions.*)
(***************************************************************************)
EXTENDS MarkCache, TLAPS

\* Levels above maxLevel are empty: an item is placed at maxLevel.
TailEmpty == ~panicked => \A k \in DOMAIN items : k > maxLevel + 1 => items[k] = <<>>

\* An item is a position of the block.
ItemsInBlock ==
    \A k \in DOMAIN items : \A i \in DOMAIN items[k] : items[k][i] \in DOMAIN block

\* A block of no transactions has left maxLevel at 0.
EmptyBlock == block = <<>> => maxLevel = 0

\* An account has a mark exactly if a transaction of the block names it.
MarkedAreTouched ==
    ~panicked => \A a \in Account : marks[a] # NoMark <=> \E t \in Scheduled : a \in Touched(t)

Inv == /\ TypeOK /\ MarksBounded /\ LevelsInRange /\ NoEmptyLevel
       /\ OrderPreserved /\ AllScheduled /\ FirstLevelDisjoint /\ LevelsJustified
       /\ TailEmpty /\ ItemsInBlock /\ EmptyBlock /\ MarkedAreTouched
-----------------------------------------------------------------------------
(* Lemmas about the operators.                                               *)

\* The mark SetMarkCache computes for a transfer is at most one above maxLevel;
\* it is 0 only for two accounts without a mark, and above 0 only if one has one
\* (transactionMark.go:57-81).
LEMMA MarkLemma ==
    ASSUME TypeOK, MarksBounded, NEW from \in Account, NEW to \in Account
    PROVE  LET mark == JointMark(marks, from, to)
           IN  /\ mark \in Nat /\ mark <= maxLevel + 1
               /\ mark = 0 => marks[from] = NoMark /\ marks[to] = NoMark
               /\ mark > 0 => \E a \in {from, to} : marks[a] # NoMark
<1>1. /\ marks[from] \in Nat \cup {NoMark} /\ marks[to] \in Nat \cup {NoMark}
      /\ maxLevel \in Nat /\ NoMark \notin Nat /\ to # NoTo
  BY NoMarkAssumption, ScheduleAssumption DEF TypeOK
<1>2. \A a \in {from, to} : marks[a] # NoMark => marks[a] <= maxLevel
  BY DEF MarksBounded
<1>. QED
  BY <1>1, <1>2 DEF JointMark, NextMark, Larger

\* p is its with one more item, last in level m: every item of its is where it
\* was.  Stated with positions, so that no later proof looks at the padding.
HasLast(p, its, m, x) ==
    /\ p \in Seq(Seq(Nat))
    /\ DOMAIN p = 1 .. Len(p) /\ Len(p) \in Nat
    /\ Len(p) = Larger(Len(its), m + 1)
    /\ m + 1 \in DOMAIN p
    /\ Len(p[m + 1]) >= 1 /\ p[m + 1][Len(p[m + 1])] = x
Keeps(p, its, m) ==
    \A k \in DOMAIN its :
       /\ k \in DOMAIN p
       /\ k # m + 1 => p[k] = its[k]
       /\ \A i \in DOMAIN its[k] : i \in DOMAIN p[k] /\ p[k][i] = its[k][i]
AddsOnly(p, its, m, x) ==
    \A k \in DOMAIN p : \A i \in DOMAIN p[k] :
       \/ k \in DOMAIN its /\ i \in DOMAIN its[k] /\ p[k][i] = its[k][i]
       \/ k = m + 1 /\ i = Len(p[k]) /\ p[k][i] = x
SameAbove(p, its, m) ==
    \A k \in DOMAIN p : k > m + 1 => k \in DOMAIN its /\ p[k] = its[k]
Extends(p, its, m, x) ==
    HasLast(p, its, m, x) /\ Keeps(p, its, m) /\ AddsOnly(p, its, m, x) /\ SameAbove(p, its, m)

\* g is its padded to level m, p is g with a new level m that ends in x.
Padded(g, its, m) ==
    /\ Len(g) \in Nat /\ Len(its) \in Nat /\ Len(its) <= Len(g)
    /\ Len(g) > m + 1 => Len(g) = Len(its)
    /\ DOMAIN its = 1 .. Len(its)
    /\ \A k \in 1 .. Len(g) : g[k] = IF k <= Len(its) THEN its[k] ELSE <<>>
AllBut(p, g, m) ==
    DOMAIN p = 1 .. Len(g) /\ \A k \in 1 .. Len(g) : k # m + 1 => p[k] = g[k]
Appended(q, r, x) ==
    /\ Len(r) \in Nat /\ Len(q) = Len(r) + 1
    /\ DOMAIN r = 1 .. Len(r) /\ DOMAIN q = 1 .. Len(q)
    /\ q[Len(q)] = x /\ \A i \in 1 .. Len(r) : q[i] = r[i]

\* Padding keeps the levels there were and adds empty ones; appending to one of
\* the padded levels keeps the others (transactionMark.go:96-109).
LEMMA PaddedLemma ==
    ASSUME NEW its, NEW g, NEW p, NEW m \in Nat, NEW x,
           Padded(g, its, m), AllBut(p, g, m), m + 1 \in 1 .. Len(g),
           Appended(p[m + 1], g[m + 1], x), DOMAIN <<>> = {}
    PROVE  Keeps(p, its, m) /\ AddsOnly(p, its, m, x) /\ SameAbove(p, its, m)
<1>1. \A k \in DOMAIN its : k \in 1 .. Len(g) /\ g[k] = its[k]
  BY DEF Padded
<1>2. \A k \in 1 .. Len(g) : k \notin DOMAIN its => g[k] = <<>>
  BY DEF Padded
<1>3. Keeps(p, its, m)
  <2> SUFFICES ASSUME NEW k \in DOMAIN its
               PROVE  /\ k \in DOMAIN p
                      /\ k # m + 1 => p[k] = its[k]
                      /\ \A i \in DOMAIN its[k] : i \in DOMAIN p[k] /\ p[k][i] = its[k][i]
    BY DEF Keeps
  <2>1. CASE k = m + 1
    <3>1. \A i \in DOMAIN g[k] : i \in DOMAIN p[k] /\ p[k][i] = g[k][i]
      BY <2>1 DEF Appended
    <3>. QED
      BY <1>1, <2>1, <3>1 DEF AllBut
  <2>2. CASE k # m + 1
    BY <1>1, <2>2 DEF AllBut
  <2>. QED
    BY <2>1, <2>2
<1>4. AddsOnly(p, its, m, x)
  <2> SUFFICES ASSUME NEW k \in DOMAIN p, NEW i \in DOMAIN p[k]
               PROVE  \/ k \in DOMAIN its /\ i \in DOMAIN its[k] /\ p[k][i] = its[k][i]
                      \/ k = m + 1 /\ i = Len(p[k]) /\ p[k][i] = x
    BY DEF AddsOnly
  <2>1. k \in 1 .. Len(g)
    BY DEF AllBut
  <2>2. i \in DOMAIN g[k] => k \in DOMAIN its /\ i \in DOMAIN its[k] /\ g[k] = its[k]
    BY <1>1, <1>2, <2>1
  <2>3. CASE k = m + 1
    <3>1. \/ i \in DOMAIN g[k] /\ p[k][i] = g[k][i]
          \/ i = Len(p[k]) /\ p[k][i] = x
      BY <2>3 DEF Appended
    <3>. QED
      BY <2>2, <2>3, <3>1
  <2>4. CASE k # m + 1
    BY <2>1, <2>2, <2>4 DEF AllBut
  <2>. QED
    BY <2>3, <2>4
<1>5. SameAbove(p, its, m)
  <2> SUFFICES ASSUME NEW k \in DOMAIN p, k > m + 1
               PROVE  k \in DOMAIN its /\ p[k] = its[k]
    BY DEF SameAbove
  <2>1. k \in 1 .. Len(g) /\ k # m + 1 /\ p[k] = g[k]
    BY DEF AllBut
  <2>2. k \in DOMAIN its
    BY <2>1 DEF Padded
  <2>. QED
    BY <1>1, <2>1, <2>2
<1>. QED
  BY <1>3, <1>4, <1>5

\* What Placed does to the levels (transactionMark.go:92-109).
LEMMA PlacedLemma ==
    ASSUME NEW its \in Seq(Seq(Nat)), NEW m \in Nat, NEW x \in Nat,
           NEW p, p = Placed(its, m, x)
    PROVE  Extends(p, its, m, x)
<1> DEFINE g == Grown(its, m)
<1>1. Larger(Len(its), m + 1) \in Nat /\ Larger(Len(its), m + 1) >= Len(its)
      /\ Larger(Len(its), m + 1) >= m + 1
      /\ \A k \in Nat : k > m + 1 /\ k <= Larger(Len(its), m + 1) => k <= Len(its)
  BY DEF Larger
<1>2. <<>> \in Seq(Nat) /\ Len(<<>>) = 0
  OBVIOUS
<1>3. /\ g \in Seq(Seq(Nat)) /\ Len(g) = Larger(Len(its), m + 1)
      /\ \A k \in 1 .. Len(g) : g[k] = IF k <= Len(its) THEN its[k] ELSE <<>>
  <2> DEFINE L == Larger(Len(its), m + 1)
  <2>1. \A k \in 1 .. L : (IF k <= Len(its) THEN its[k] ELSE <<>>) \in Seq(Nat)
    BY <1>1, <1>2
  <2>2. g = [k \in 1 .. L |-> IF k <= Len(its) THEN its[k] ELSE <<>>]
    BY DEF Grown
  <2>3. g \in [1 .. L -> Seq(Nat)]
    BY <2>1, <2>2
  <2>4. L \in Nat
    BY <1>1
  <2>5. g \in Seq(Seq(Nat)) /\ Len(g) = L
    <3> HIDE DEF g, L
    <3>. QED
      BY <2>3, <2>4
  <2>. QED
    BY <2>2, <2>5
<1>4. m + 1 \in 1 .. Len(g) /\ g[m + 1] \in Seq(Nat)
  BY <1>1, <1>3
<1>5. Append(g[m + 1], x) \in Seq(Nat)
  BY <1>4
<1>6. p = [g EXCEPT ![m + 1] = Append(g[m + 1], x)]
  BY <1>3, <1>4 DEF Placed
<1> HIDE DEF g
<1>7. /\ p \in Seq(Seq(Nat)) /\ Len(p) = Len(g) /\ DOMAIN p = 1 .. Len(g)
      /\ p[m + 1] = Append(g[m + 1], x)
      /\ \A k \in 1 .. Len(g) : k # m + 1 => p[k] = g[k]
  BY <1>3, <1>4, <1>5, <1>6
<1>8. /\ Len(p[m + 1]) = Len(g[m + 1]) + 1
      /\ DOMAIN p[m + 1] = 1 .. Len(g[m + 1]) + 1 /\ Len(g[m + 1]) \in Nat
      /\ p[m + 1][Len(p[m + 1])] = x
      /\ \A i \in 1 .. Len(g[m + 1]) : p[m + 1][i] = g[m + 1][i]
  BY <1>4, <1>7
<1>9. Padded(g, its, m)
  <2>1. /\ Len(g) \in Nat /\ Len(its) \in Nat /\ Len(its) <= Len(g)
        /\ Len(g) > m + 1 => Len(g) = Len(its)
        /\ DOMAIN its = 1 .. Len(its)
    BY <1>1, <1>3 DEF Larger
  <2>2. \A k \in 1 .. Len(g) : g[k] = IF k <= Len(its) THEN its[k] ELSE <<>>
    BY <1>3, Zenon
  <2>. QED
    BY <2>1, <2>2, Zenon DEF Padded
<1>10. AllBut(p, g, m)
  BY <1>7, Zenon DEF AllBut
<1>11. Appended(p[m + 1], g[m + 1], x)
  BY <1>4, <1>8 DEF Appended
<1>12. Keeps(p, its, m) /\ AddsOnly(p, its, m, x) /\ SameAbove(p, its, m)
  <2>1. DOMAIN <<>> = {}
    OBVIOUS
  <2>. QED
    BY <2>1, <1>4, <1>9, <1>10, <1>11, PaddedLemma
<1>13. HasLast(p, its, m, x)
  <2>1. Len(p[m + 1]) >= 1
    BY <1>8
  <2>2. m + 1 \in DOMAIN p /\ Len(g) \in Nat
    BY <1>4, <1>7, <1>9 DEF Padded
  <2>. QED
    BY <2>1, <2>2, <1>3, <1>7, <1>8, Zenon DEF HasLast
<1>. QED
  BY <1>12, <1>13 DEF Extends
-----------------------------------------------------------------------------
(* The steps.                                                                *)

\* The new marking cache starts with no marks and two empty levels
\* (transactionMark.go:44-54).
LEMMA InitInv == Init => Inv
<1> SUFFICES ASSUME Init PROVE Inv
  OBVIOUS
<1>1. /\ items \in Seq(Seq(Nat)) /\ DOMAIN items = 1 .. 2 /\ Len(items) = 2
      /\ \A k \in 1 .. 2 : items[k] = <<>>
  BY DEF Init, NewItems
<1>2. /\ marks \in [Account -> Nat \cup {NoMark}] /\ \A a \in Account : marks[a] = NoMark
      /\ maxLevel = 0 /\ block = <<>> /\ panicked = FALSE /\ DOMAIN block = {}
      /\ block \in Seq(Account \X (Account \cup {NoTo}))
  BY DEF Init
<1>3. TypeOK /\ MarksBounded /\ LevelsInRange /\ NoEmptyLevel
  <2>1. TypeOK
    BY <1>1, <1>2 DEF TypeOK
  <2>2. MarksBounded /\ LevelsInRange
    BY <1>1, <1>2 DEF MarksBounded, LevelsInRange
  <2>3. NoEmptyLevel
    BY <1>2 DEF NoEmptyLevel
  <2>. QED
    BY <2>1, <2>2, <2>3
<1>4. OrderPreserved /\ TailEmpty /\ ItemsInBlock
  BY <1>1, <1>2 DEF OrderPreserved, TailEmpty, ItemsInBlock
<1>5. AllScheduled /\ EmptyBlock /\ MarkedAreTouched
  BY <1>2 DEF AllScheduled, EmptyBlock, MarkedAreTouched, Scheduled
<1>6. FirstLevelDisjoint /\ LevelsJustified
  BY <1>1, <1>2 DEF FirstLevelDisjoint, LevelsJustified, LevelOf, Levels, GetMaxLevel,
                    GetLevelItemWithMark
<1>. QED
  BY <1>3, <1>4, <1>5, <1>6 DEF Inv

\* What one transfer does to the block and to panicked.
LEMMA BlockLemma ==
    ASSUME Inv, NEW from \in Account, NEW to \in Account, Transfer(from, to)
    PROVE  /\ ~panicked /\ panicked' = FALSE
           /\ Len(block) \in Nat /\ DOMAIN block = 1 .. Len(block)
           /\ block' \in Seq(Account \X (Account \cup {NoTo}))
           /\ Len(block') = Len(block) + 1 /\ DOMAIN block' = 1 .. Len(block')
           /\ block'[Len(block')] = <<from, to>>
           /\ \A t \in 1 .. Len(block) : block'[t] = block[t]
<1>1. block \in Seq(Account \X (Account \cup {NoTo})) /\ panicked \in BOOLEAN
  BY DEF Inv, TypeOK
<1>2. ~panicked /\ panicked' = panicked /\ block' = Append(block, <<from, to>>)
  BY DEF Transfer
<1>. QED
  BY <1>1, <1>2

\* What one transfer does to the marks and to maxLevel.
LEMMA MarksLemma ==
    ASSUME Inv, NEW from \in Account, NEW to \in Account, Transfer(from, to)
    PROVE  /\ maxLevel \in Nat /\ maxLevel' \in Nat
           /\ maxLevel' \in {maxLevel, maxLevel + 1}
           /\ maxLevel' = 0 => marks[from] = NoMark /\ marks[to] = NoMark
           /\ maxLevel' # maxLevel => \E a \in {from, to} : marks[a] # NoMark
           /\ marks' \in [Account -> Nat \cup {NoMark}]
           /\ \A a \in {from, to} : marks'[a] \in 0 .. maxLevel'
           /\ \A a \in Account \ {from, to} : marks'[a] = marks[a]
<1> DEFINE mark == JointMark(marks, from, to)
<1>1. TypeOK /\ MarksBounded /\ maxLevel \in Nat /\ marks \in [Account -> Nat \cup {NoMark}]
  BY DEF Inv, TypeOK
<1>2. /\ maxLevel' = Larger(mark, maxLevel)
      /\ marks' = MarkedBoth(marks, from, to, mark)
  BY DEF Transfer
<1>3. /\ mark \in Nat /\ mark <= maxLevel + 1
      /\ mark = 0 => marks[from] = NoMark /\ marks[to] = NoMark
      /\ mark > 0 => \E a \in {from, to} : marks[a] # NoMark
  BY <1>1, MarkLemma
<1> HIDE DEF mark
<1>4. /\ maxLevel' \in Nat /\ mark <= maxLevel'
      /\ maxLevel' \in {maxLevel, maxLevel + 1}
      /\ maxLevel' # maxLevel => mark > 0
      /\ maxLevel' = 0 => mark = 0
  BY <1>1, <1>2, <1>3 DEF Larger
<1>5. /\ marks' \in [Account -> Nat \cup {NoMark}]
      /\ \A a \in {from, to} : marks'[a] \in {mark, 0}
      /\ \A a \in Account \ {from, to} : marks'[a] = marks[a]
  BY <1>1, <1>2, <1>3 DEF MarkedBoth, MarkedFrom
<1>6. mark \in 0 .. maxLevel' /\ 0 \in 0 .. maxLevel'
  BY <1>3, <1>4
<1>. QED
  BY <1>1, <1>3, <1>4, <1>5, <1>6

\* SetMarkCache keeps the schedule intact (transactionMark.go:56-111).
LEMMA TransferInv ==
    ASSUME Inv, NEW from \in Account, NEW to \in Account, Transfer(from, to)
    PROVE  Inv'
<1>0. PICK n \in Nat : n = Len(block')
  BY BlockLemma
<1>1. /\ ~panicked /\ panicked' = FALSE
      /\ Len(block) \in Nat /\ DOMAIN block = 1 .. Len(block)
      /\ block' \in Seq(Account \X (Account \cup {NoTo}))
      /\ n = Len(block) + 1 /\ n = Len(block') /\ DOMAIN block' = 1 .. n
      /\ block'[n] = <<from, to>>
      /\ \A t \in 1 .. Len(block) : block'[t] = block[t]
  BY <1>0, BlockLemma
<1>2. maxLevel \in Nat /\ maxLevel' \in Nat /\ maxLevel' \in {maxLevel, maxLevel + 1}
  BY MarksLemma
<1>3. /\ marks' \in [Account -> Nat \cup {NoMark}]
      /\ \A a \in {from, to} : marks'[a] \in 0 .. maxLevel'
      /\ \A a \in Account \ {from, to} : marks'[a] = marks[a]
  BY MarksLemma
<1>4. /\ maxLevel' = 0 => marks[from] = NoMark /\ marks[to] = NoMark
      /\ maxLevel' # maxLevel => \E a \in {from, to} : marks[a] # NoMark
      /\ NoMark \notin Nat
  BY MarksLemma, NoMarkAssumption
<1>5. PICK max \in Nat : max = maxLevel' /\ max \in {maxLevel, maxLevel + 1}
  BY <1>2
<1>6. /\ items' \in Seq(Seq(Nat)) /\ DOMAIN items' = 1 .. Len(items') /\ Len(items') \in Nat
      /\ Len(items') = Larger(Len(items), max + 1)
      /\ max + 1 \in DOMAIN items'
      /\ Len(items'[max + 1]) >= 1 /\ items'[max + 1][Len(items'[max + 1])] = n
      /\ \A k \in DOMAIN items :
            /\ k \in DOMAIN items'
            /\ k # max + 1 => items'[k] = items[k]
            /\ \A i \in DOMAIN items[k] : i \in DOMAIN items'[k] /\ items'[k][i] = items[k][i]
      /\ \A k \in DOMAIN items' : \A i \in DOMAIN items'[k] :
            \/ k \in DOMAIN items /\ i \in DOMAIN items[k] /\ items'[k][i] = items[k][i]
            \/ k = max + 1 /\ i = Len(items'[k]) /\ items'[k][i] = n
      /\ \A k \in DOMAIN items' : k > max + 1 => k \in DOMAIN items /\ items'[k] = items[k]
  <2>1. items' = Placed(items, max, n)
    BY <1>0, <1>5 DEF Transfer
  <2>2. items \in Seq(Seq(Nat))
    BY DEF Inv, TypeOK
  <2>3. Extends(items', items, max, n)
    BY <2>1, <2>2, PlacedLemma
  <2>. QED
    BY <2>3 DEF Extends, HasLast, Keeps, AddsOnly, SameAbove
<1>7. Levels = 0 .. maxLevel /\ Levels' = 0 .. max
  <2>1. Levels = 0 .. (maxLevel + 1) - 1 /\ Levels' = 0 .. (max + 1) - 1
    BY <1>5 DEF Levels, GetMaxLevel
  <2>2. (maxLevel + 1) - 1 = maxLevel /\ (max + 1) - 1 = max
    BY <1>2
  <2>. QED
    BY <2>1, <2>2
<1>8. TypeOK' /\ EmptyBlock'
  <2>1. TypeOK'
    BY <1>1, <1>2, <1>3, <1>6 DEF TypeOK
  <2>2. block' # <<>>
    BY <1>1
  <2>. QED
    BY <2>1, <2>2 DEF EmptyBlock
<1>9. MarksBounded'
  <2>1. MarksBounded
    BY DEF Inv
  <2>. QED
    BY <2>1, <1>2, <1>3, <1>4 DEF MarksBounded
<1>10. LevelsInRange'
  BY <1>2, <1>6, <1>5 DEF LevelsInRange
<1>11. TailEmpty'
  <2>1. TailEmpty
    BY DEF Inv
  <2>. QED
    BY <2>1, <1>1, <1>2, <1>6, <1>5 DEF TailEmpty
<1>12. ItemsInBlock'
  <2>1. ItemsInBlock
    BY DEF Inv
  <2>. QED
    <3>1. \A k \in DOMAIN items : \A i \in DOMAIN items[k] : items[k][i] \in DOMAIN block'
      BY <2>1, <1>1 DEF ItemsInBlock
    <3>2. n \in DOMAIN block'
      BY <1>1
    <3>3. ASSUME NEW k \in DOMAIN items', NEW i \in DOMAIN items'[k]
          PROVE  items'[k][i] \in DOMAIN block'
      <4>1. \/ k \in DOMAIN items /\ i \in DOMAIN items[k] /\ items'[k][i] = items[k][i]
            \/ items'[k][i] = n
        BY <1>6
      <4>. QED
        BY <3>1, <3>2, <4>1
    <3>. QED
      BY <3>3 DEF ItemsInBlock
\* The new transaction is the largest position, so it is the last of its level
\* and no later level holds anything.
<1>13. OrderPreserved'
  <2>1. OrderPreserved /\ ItemsInBlock /\ TailEmpty
    BY DEF Inv
  <2>2. \A k \in DOMAIN items : \A i \in DOMAIN items[k] : items[k][i] < n /\ items[k][i] \in Nat
    BY <2>1, <1>1 DEF ItemsInBlock
  <2>3. \A k \in DOMAIN items' : k > max + 1 => items'[k] = <<>>
    BY <2>1, <1>1, <1>2, <1>6, <1>5 DEF TailEmpty
  <2>4. ASSUME NEW k \in DOMAIN items', NEW i \in DOMAIN items'[k], NEW j \in DOMAIN items'[k], i < j
        PROVE  items'[k][i] < items'[k][j]
    <3>1. i \in 1 .. Len(items'[k]) /\ j \in 1 .. Len(items'[k]) /\ i # Len(items'[k])
      <4>1. \A q \in Seq(Nat) : \A a, b \in DOMAIN q :
               a < b => a \in 1 .. Len(q) /\ b \in 1 .. Len(q) /\ a # Len(q)
        OBVIOUS
      <4>2. items'[k] \in Seq(Nat)
        BY <1>6
      <4>. QED
        BY <4>1, <4>2, <2>4, Zenon
    <3>2. k \in DOMAIN items /\ i \in DOMAIN items[k] /\ items'[k][i] = items[k][i]
      BY <3>1, <1>6
    <3>3. \/ j \in DOMAIN items[k] /\ items'[k][j] = items[k][j]
          \/ items'[k][j] = n
      BY <1>6
    <3>. QED
      BY <2>1, <2>2, <2>4, <3>2, <3>3 DEF OrderPreserved
  <2>5. ASSUME NEW k \in DOMAIN items', NEW m \in DOMAIN items', k < m,
               NEW i \in DOMAIN items'[k], NEW j \in DOMAIN items'[m]
        PROVE  items'[k][i] < items'[m][j]
    <3>1. k \in Nat /\ m \in Nat
      <4>1. DOMAIN items' = 1 .. Len(items') /\ Len(items') \in Nat
        BY <1>6
      <4>. QED
        BY <4>1
    <3>2. k # max + 1 /\ ~(m > max + 1)
      BY <2>3, <2>5, <3>1
    <3>3. k \in DOMAIN items /\ i \in DOMAIN items[k] /\ items'[k][i] = items[k][i]
      BY <3>2, <1>6
    <3>4. \/ m \in DOMAIN items /\ j \in DOMAIN items[m] /\ items'[m][j] = items[m][j]
          \/ items'[m][j] = n
      BY <1>6
    <3>. QED
      BY <2>1, <2>2, <2>5, <3>3, <3>4 DEF OrderPreserved
  <2>. QED
    BY <2>4, <2>5 DEF OrderPreserved
<1>14. block = <<>> => maxLevel' = 0
  <2>1. EmptyBlock /\ MarkedAreTouched
    BY DEF Inv
  <2>2. ASSUME block = <<>> PROVE maxLevel = 0 /\ maxLevel' = maxLevel
    <3>1. DOMAIN block = {}
      BY <2>2
    <3>2. \A a \in Account : marks[a] = NoMark
      BY <2>1, <3>1, <1>1 DEF MarkedAreTouched, Scheduled
    <3>. QED
      BY <2>1, <2>2, <3>2, <1>4 DEF EmptyBlock
  <2>. QED
    BY <2>2
<1>15. NoEmptyLevel'
  <2>1. NoEmptyLevel /\ LevelsInRange
    BY DEF Inv
  <2>2. ASSUME NEW l \in 0 .. max PROVE items'[l + 1] # <<>>
    <3>1. CASE l = max
      BY <3>1, <1>6, <1>5
    <3>2. CASE l # max
      <4>0. max # 0 /\ l \in 0 .. maxLevel /\ l + 1 # max + 1
        <5>1. l \in Nat /\ l < max
          BY <3>2
        <5>2. max \in Nat /\ maxLevel \in Nat /\ max <= maxLevel + 1
          BY <1>2, <1>5
        <5>. QED
          BY <5>1, <5>2
      <4>1. block # <<>> /\ l \in 0 .. maxLevel /\ l + 1 # max + 1
        BY <4>0, <1>5, <1>14
      <4>2. items[l + 1] # <<>>
        BY <4>1, <2>1, <1>1, <1>7 DEF NoEmptyLevel, LevelOf, GetLevelItemWithMark
      <4>3. l + 1 \in DOMAIN items
        BY <4>1, <2>1, <1>1, <1>2, <1>5 DEF LevelsInRange
      <4>. QED
        BY <4>1, <4>2, <4>3, <1>6
    <3>. QED
      BY <3>1, <3>2
  <2>. QED
    BY <2>2, <1>7 DEF NoEmptyLevel, LevelOf, GetLevelItemWithMark
<1>16. AllScheduled'
  <2>1. AllScheduled /\ LevelsInRange
    BY DEF Inv
  <2>2. ASSUME NEW t \in 1 .. n
        PROVE  \E l \in 0 .. max : \E i \in DOMAIN items'[l + 1] : items'[l + 1][i] = t
    <3>1. CASE t = n
      <4>1. Len(items'[max + 1]) \in DOMAIN items'[max + 1] /\ max \in 0 .. max
        BY <1>2, <1>6
      <4>. QED
        BY <3>1, <4>1, <1>6, <1>5
    <3>2. CASE t # n
      <4>1. PICK l \in 0 .. maxLevel : \E i \in DOMAIN items[l + 1] : items[l + 1][i] = t
        <5>1. t \in Scheduled
          BY <3>2, <1>1 DEF Scheduled
        <5>. QED
          BY <5>1, <2>1, <1>7, <1>1 DEF AllScheduled, LevelOf, GetLevelItemWithMark
      <4>2. l + 1 \in DOMAIN items /\ l \in 0 .. max
        BY <2>1, <1>1, <1>2, <1>5 DEF LevelsInRange
      <4>. QED
        BY <4>1, <4>2, <1>6
    <3>. QED
      BY <3>1, <3>2
  <2>. QED
    BY <2>2, <1>7, <1>1 DEF AllScheduled, Scheduled, LevelOf, GetLevelItemWithMark
\* The new transaction names only accounts it gives a mark.
<1> DEFINE Names(t) == {block'[t][1], block'[t][2]}
<1>17. \A t \in 1 .. Len(block) : Names(t) = Touched(t)
  BY <1>1 DEF Touched
<1>18. Names(n) = {from, to}
  BY <1>1
<1> HIDE DEF Names
<1>19. MarkedAreTouched'
  <2>1. MarkedAreTouched
    BY DEF Inv
  <2>2. ASSUME NEW a \in {from, to}
        PROVE  marks'[a] # NoMark /\ \E t \in DOMAIN block' : a \in Names(t)
    <3>1. marks'[a] # NoMark
      BY <1>2, <1>3, <1>4
    <3>2. n \in DOMAIN block' /\ a \in Names(n)
      BY <1>1, <1>18
    <3>. QED
      BY <3>1, <3>2
  <2>3. ASSUME NEW a \in Account \ {from, to}
        PROVE  marks'[a] # NoMark <=> \E t \in DOMAIN block' : a \in Names(t)
    <3>1. marks'[a] # NoMark <=> \E t \in DOMAIN block : a \in Touched(t)
      BY <2>1, <1>1, <1>3 DEF MarkedAreTouched, Scheduled
    <3>2. a \notin Names(n)
      BY <1>18
    <3>3. \A t \in DOMAIN block' : t \in DOMAIN block \/ t = n
      BY <1>1
    <3>4. \A t \in DOMAIN block : t \in DOMAIN block' /\ Names(t) = Touched(t)
      BY <1>1, <1>17
    <3>. QED
      BY <3>1, <3>2, <3>3, <3>4
  <2>. QED
    BY <2>2, <2>3 DEF MarkedAreTouched, Scheduled, Touched, Names
\* A transaction reaches level 0 only if its accounts have no mark, and then
\* no transaction before it names them.
<1>20. FirstLevelDisjoint'
  <2>1. FirstLevelDisjoint /\ ItemsInBlock /\ MarkedAreTouched
    BY DEF Inv
  <2>2. ASSUME NEW i \in DOMAIN items'[1], NEW j \in DOMAIN items'[1],
               i \in DOMAIN items[1], 1 \in DOMAIN items, items'[1][i] = items[1][i], i # j
        PROVE  Names(items'[1][i]) \cap Names(items'[1][j]) = {}
    <3>1. 1 \in DOMAIN items' /\ items[1][i] \in 1 .. Len(block)
      BY <2>1, <2>2, <1>1, <1>6 DEF ItemsInBlock
    <3>2. \/ j \in DOMAIN items[1] /\ items'[1][j] = items[1][j]
          \/ 1 = max + 1 /\ items'[1][j] = n
      BY <3>1, <1>6
    <3>3. CASE j \in DOMAIN items[1] /\ items'[1][j] = items[1][j]
      <4>1. items[1][j] \in 1 .. Len(block)
        BY <2>1, <2>2, <3>3, <1>1 DEF ItemsInBlock
      <4>2. Touched(items[1][i]) \cap Touched(items[1][j]) = {}
        BY <2>1, <2>2, <3>3 DEF FirstLevelDisjoint, Shares, LevelOf, GetLevelItemWithMark
      <4>. QED
        BY <2>2, <3>1, <3>3, <4>1, <4>2, <1>17
    <3>4. CASE 1 = max + 1 /\ items'[1][j] = n
      <4>1. max = 0
        BY <3>4
      <4>2. marks[from] = NoMark /\ marks[to] = NoMark
        BY <4>1, <1>4, <1>5
      <4>3. \A t \in 1 .. Len(block) : from \notin Touched(t) /\ to \notin Touched(t)
        BY <2>1, <4>2, <1>1 DEF MarkedAreTouched, Scheduled
      <4>. QED
        BY <2>2, <3>1, <3>4, <4>3, <1>17, <1>18
    <3>. QED
      BY <3>2, <3>3, <3>4
  <2>3. ASSUME NEW i \in DOMAIN items'[1], NEW j \in DOMAIN items'[1], i # j
        PROVE  Names(items'[1][i]) \cap Names(items'[1][j]) = {}
    <3>1. 1 \in DOMAIN items'
      BY <1>6
    <3>2. \A h \in DOMAIN items'[1] :
             \/ h \in DOMAIN items[1] /\ 1 \in DOMAIN items /\ items'[1][h] = items[1][h]
             \/ h = Len(items'[1])
      BY <3>1, <1>6
    <3>3. \E h \in {i, j} : h \in DOMAIN items[1] /\ 1 \in DOMAIN items /\ items'[1][h] = items[1][h]
      BY <2>3, <3>2
    <3>. QED
      BY <2>2, <2>3, <3>3
  <2>. QED
    BY <2>3 DEF FirstLevelDisjoint, Shares, LevelOf, GetLevelItemWithMark, Touched, Names
\* A level is opened only for a transaction that names an account with a mark.
<1>21. LevelsJustified'
  <2>1. LevelsJustified /\ AllScheduled /\ TailEmpty /\ LevelsInRange /\ NoEmptyLevel
        /\ ItemsInBlock /\ MarkedAreTouched
    BY DEF Inv
  <2>2. ASSUME NEW l \in (0 .. max) \ {0}, items'[l + 1] # <<>>
        PROVE  \E k \in 0 .. l - 1 : \E i \in DOMAIN items'[k + 1] :
                   Names(items'[l + 1][1]) \cap Names(items'[k + 1][i]) # {}
    <3> DEFINE Goal == \E k \in 0 .. l - 1 : \E i \in DOMAIN items'[k + 1] :
                           Names(items'[l + 1][1]) \cap Names(items'[k + 1][i]) # {}
    <3>1. l \in Nat \ {0} /\ l <= max
      OBVIOUS
    <3>2. l + 1 \in DOMAIN items'
      BY <3>1, <1>6
    <3>3. 1 \in DOMAIN items'[l + 1]
      BY <2>2, <3>2, <1>6
    <3>4. \/ l + 1 \in DOMAIN items /\ 1 \in DOMAIN items[l + 1] /\ items'[l + 1][1] = items[l + 1][1]
          \/ l + 1 = max + 1 /\ items'[l + 1][1] = n
      BY <3>2, <3>3, <1>6
    <3>5. LevelsInRange' /\ maxLevel < Len(items) /\ Len(items) \in Nat /\ DOMAIN items = 1 .. Len(items)
      BY <2>1, <1>1, <1>10 DEF LevelsInRange, Inv, TypeOK
    \* The level was open before.
    <3>6. ASSUME l + 1 \in DOMAIN items, 1 \in DOMAIN items[l + 1],
                 items'[l + 1][1] = items[l + 1][1]
          PROVE  Goal
      <4>1. items[l + 1] # <<>>
        BY <3>6
      <4>2. l \in 1 .. maxLevel
        BY <2>1, <3>1, <3>6, <4>1, <1>1, <1>2 DEF TailEmpty
      <4>3. PICK k \in 0 .. l - 1 : \E i \in DOMAIN items[k + 1] :
                Touched(items[l + 1][1]) \cap Touched(items[k + 1][i]) # {}
        <5>1. l \in Levels \ {0}
          BY <4>2, <1>2, <1>7
        <5>. QED
          BY <2>1, <4>1, <5>1, <1>1 DEF LevelsJustified, Shares, LevelOf, GetLevelItemWithMark
      <4>4. PICK i \in DOMAIN items[k + 1] :
                Touched(items[l + 1][1]) \cap Touched(items[k + 1][i]) # {}
        BY <4>3
      <4>5. k + 1 \in DOMAIN items
        BY <4>2, <3>5, <1>2
      <4>6. items[l + 1][1] \in 1 .. Len(block) /\ items[k + 1][i] \in 1 .. Len(block)
        BY <2>1, <3>6, <4>5, <1>1 DEF ItemsInBlock
      <4>7. i \in DOMAIN items'[k + 1] /\ items'[k + 1][i] = items[k + 1][i]
        BY <4>5, <1>6
      <4>8. Names(items'[l + 1][1]) \cap Names(items'[k + 1][i]) # {}
        BY <3>6, <4>4, <4>6, <4>7, <1>17
      <4>. QED
        BY <4>7, <4>8
    \* The new transaction opens the level.
    <3>7. ASSUME l + 1 = max + 1, items'[l + 1][1] = n
          PROVE  Goal
      <4>1. l = max /\ max # 0 /\ block # <<>>
        <5>1. l = max
          BY <3>1, <3>7
        <5>. QED
          BY <3>1, <5>1, <1>5, <1>14
      <4>2. max # maxLevel
        <5>1. ASSUME max = maxLevel PROVE FALSE
          <6>1. l \in Levels /\ l + 1 \in DOMAIN items
            BY <4>1, <5>1, <3>1, <3>5, <1>2, <1>7
          <6>2. items[l + 1] # <<>> /\ items[l + 1] \in Seq(Nat)
            BY <2>1, <4>1, <6>1, <1>1 DEF NoEmptyLevel, LevelOf, GetLevelItemWithMark, Inv, TypeOK
          <6>3. 1 \in DOMAIN items[l + 1]
            BY <6>2
          <6>4. items'[l + 1][1] = items[l + 1][1]
            BY <6>1, <6>3, <1>6
          <6>5. items[l + 1][1] \in 1 .. Len(block)
            BY <2>1, <6>1, <6>3, <1>1 DEF ItemsInBlock
          <6>. QED
            BY <3>7, <6>4, <6>5, <1>1
        <5>. QED
          BY <5>1
      <4>3. PICK a \in {from, to} : marks[a] # NoMark
        BY <4>2, <1>4, <1>5
      <4>4. PICK t \in DOMAIN block : a \in Touched(t)
        BY <2>1, <4>3, <1>1 DEF MarkedAreTouched, Scheduled
      <4>5. PICK k \in Levels : \E i \in DOMAIN items[k + 1] : items[k + 1][i] = t
        BY <2>1, <1>1 DEF AllScheduled, Scheduled, LevelOf, GetLevelItemWithMark
      <4>6. PICK i \in DOMAIN items[k + 1] : items[k + 1][i] = t
        BY <4>5
      <4>7. k \in 0 .. maxLevel /\ k + 1 \in DOMAIN items
        BY <3>5, <1>2, <1>7
      <4>8. i \in DOMAIN items'[k + 1] /\ items'[k + 1][i] = t
        BY <4>6, <4>7, <1>6
      <4>9. k \in 0 .. l - 1
        <5>1. l = maxLevel + 1
          BY <4>1, <4>2, <1>5
        <5>. QED
          BY <4>7, <5>1, <1>2
      <4>10. a \in Names(items'[l + 1][1]) /\ a \in Names(items'[k + 1][i])
        BY <3>7, <4>3, <4>4, <4>8, <1>1, <1>17, <1>18
      <4>. QED
        BY <4>8, <4>9, <4>10
    <3>. QED
      BY <3>4, <3>6, <3>7
  <2>. QED
    BY <2>2, <1>1, <1>7
       DEF LevelsJustified, Shares, LevelOf, GetLevelItemWithMark, Touched, Names
<1>. QED
  BY <1>8, <1>9, <1>10, <1>11, <1>12, <1>13, <1>14, <1>15, <1>16, <1>19, <1>20, <1>21 DEF Inv
\* A creation that panics leaves the levels as they were
\* (transactionMark.go:73-89).
LEMMA CreationInv ==
    ASSUME Inv, NEW from \in Account, Creation(from)
    PROVE  Inv'
<1>1. TypeOK /\ MarksBounded /\ OrderPreserved /\ ItemsInBlock /\ FirstLevelDisjoint
  BY DEF Inv
<1> DEFINE mark == NextMark(marks, from)
<1>2. /\ ~panicked /\ panicked' = TRUE /\ items' = items
      /\ maxLevel' = Larger(mark, maxLevel)
      /\ marks' = [marks EXCEPT ![from] = mark]
      /\ block' = Append(block, <<from, NoTo>>)
  BY DEF Creation, JointMark, MarkedFrom
<1>3. maxLevel \in Nat /\ mark \in Nat /\ NoMark \notin Nat
  BY <1>1, NoMarkAssumption DEF TypeOK, NextMark
<1> HIDE DEF mark
<1>4. maxLevel' \in Nat /\ mark <= maxLevel' /\ maxLevel <= maxLevel'
  BY <1>2, <1>3 DEF Larger
<1>5. /\ block \in Seq(Account \X (Account \cup {NoTo}))
      /\ block' \in Seq(Account \X (Account \cup {NoTo})) /\ block' # <<>>
      /\ DOMAIN block \subseteq DOMAIN block'
      /\ \A t \in DOMAIN block : block'[t] = block[t]
  BY <1>1, <1>2 DEF TypeOK
<1>6. TypeOK'
  BY <1>1, <1>2, <1>3, <1>4, <1>5 DEF TypeOK
<1>7. MarksBounded'
  <2>1. \A a \in Account \ {from} : marks'[a] = marks[a]
    BY <1>1, <1>2 DEF TypeOK
  <2>2. marks'[from] = mark
    BY <1>1, <1>2 DEF TypeOK
  <2>3. \A a \in Account : marks[a] # NoMark => marks[a] \in Nat /\ marks[a] <= maxLevel
    BY <1>1 DEF TypeOK, MarksBounded
  <2>. QED
    BY <2>1, <2>2, <2>3, <1>3, <1>4 DEF MarksBounded
<1>8. OrderPreserved'
  BY <1>1, <1>2 DEF OrderPreserved
<1>9. ItemsInBlock'
  BY <1>1, <1>2, <1>5 DEF ItemsInBlock
<1>10. FirstLevelDisjoint'
  <2> DEFINE Names(t) == {block'[t][1], block'[t][2]}
  <2>1. \A t \in DOMAIN block : Names(t) = Touched(t)
    BY <1>5 DEF Touched
  <2>2. 1 \in DOMAIN items
    BY <1>1, <1>2, <1>3 DEF Inv, TypeOK, LevelsInRange
  <2>. QED
    BY <2>1, <2>2, <1>1, <1>2
       DEF FirstLevelDisjoint, ItemsInBlock, Shares, Touched, LevelOf, GetLevelItemWithMark
<1>11. EmptyBlock'
  BY <1>5 DEF EmptyBlock
<1>. QED
  BY <1>2, <1>6, <1>7, <1>8, <1>9, <1>10, <1>11
     DEF Inv, LevelsInRange, NoEmptyLevel, AllScheduled, LevelsJustified, TailEmpty,
         MarkedAreTouched
-----------------------------------------------------------------------------
(* The theorems.                                                             *)

\* Inv holds in every reachable state.
THEOREM Invariance == Spec => []Inv
<1>1. Init => Inv
  BY InitInv
<1>2. Inv /\ [Next]_vars => Inv'
  <2> SUFFICES ASSUME Inv, [Next]_vars
               PROVE  Inv'
    OBVIOUS
  <2>1. ASSUME NEW from \in Account, NEW to \in Account, Transfer(from, to)
        PROVE  Inv'
    BY <2>1, TransferInv
  <2>2. ASSUME NEW from \in Account, Creation(from)
        PROVE  Inv'
    BY <2>2, CreationInv
  <2>3. CASE UNCHANGED vars
    BY <2>3 DEF vars, Inv, TypeOK, MarksBounded, LevelsInRange, NoEmptyLevel, OrderPreserved,
                AllScheduled, FirstLevelDisjoint, LevelsJustified, TailEmpty, ItemsInBlock,
                EmptyBlock, MarkedAreTouched, Levels, LevelOf, Scheduled,
                Touched, Shares, GetMaxLevel, GetLevelItemWithMark
  <2>. QED
    BY <2>1, <2>2, <2>3 DEF Next
<1>. QED
  BY <1>1, <1>2, PTL DEF Spec

\* The marks, the levels and the block keep their types, whatever the block.
THEOREM TypeCorrect == Spec => []TypeOK
<1>1. Inv => TypeOK
  BY DEF Inv
<1>. QED
  BY <1>1, Invariance, PTL

\* SetMarkCache never raises maxLevel past the next level, so no account can be
\* sent to a level that does not exist yet (transactionMark.go:79-86).
THEOREM MarksNeverAhead == Spec => []MarksBounded
<1>1. Inv => MarksBounded
  BY DEF Inv
<1>. QED
  BY <1>1, Invariance, PTL

\* The loop of ExecBenchTxs over the levels stays inside Items, and no level it
\* visits is empty: a level without items would block it for ever
\* (process.go:157-202).
THEOREM LevelsVisitable == Spec => [](LevelsInRange /\ NoEmptyLevel)
<1>1. Inv => LevelsInRange /\ NoEmptyLevel
  BY DEF Inv
<1>. QED
  BY <1>1, Invariance, PTL

\* Every transaction of the block is in a level that will be executed: none is
\* lost between filling the levels and executing them (transactionMark.go:88-109).
THEOREM ScheduleComplete == Spec => []AllScheduled
<1>1. Inv => AllScheduled
  BY DEF Inv
<1>. QED
  BY <1>1, Invariance, PTL

\* The levels read one after the other are the block in its order, so a
\* transaction is never executed before one that precedes it and shares an
\* account with it (transactionMark.go:102-109).
THEOREM BlockOrderKept == Spec => []OrderPreserved
<1>1. Inv => OrderPreserved
  BY DEF Inv
<1>. QED
  BY <1>1, Invariance, PTL

\* No two transactions of level 0 share an account, also after marks have been
\* set back to 0 (transactionMark.go:57-71).
THEOREM LevelsSeparate == Spec => []FirstLevelDisjoint
<1>1. Inv => FirstLevelDisjoint
  BY DEF Inv
<1>. QED
  BY <1>1, Invariance, PTL

\* A later level is opened only by a transaction that shares an account with one
\* of an earlier level (transactionMark.go:79-86).
THEOREM LevelsNeeded == Spec => []LevelsJustified
<1>1. Inv => LevelsJustified
  BY DEF Inv
<1>. QED
  BY <1>1, Invariance, PTL
=============================================================================
