------------------------------ MODULE MarkOps ------------------------------
(***************************************************************************)
(* The marking rule of transcut/transactionMark.go as operators on values. *)
(* A mark table gives every account the mark MarkCache.fromAndToMark holds *)
(* for it, or NoMark when the Go map has no entry.                         *)
(***************************************************************************)
EXTENDS Integers, Sequences

CONSTANTS NoMark,  \* the account has no entry in fromAndToMark
          NoTo     \* tx.To() == nil: a contract creation

ASSUME NoMarkAssumption == NoMark \notin Int

\* The larger of two marks.
Larger(a, b) == IF a >= b THEN a ELSE b

\* Variants of NextMark with a plausible mistake: a fresh account one too low,
\* one too high, and the map's zero value taken for a missing entry.
FreshBelowZero(marks, a) == IF marks[a] = NoMark THEN -1 ELSE marks[a] + 1
FreshAtOne(marks, a) == IF marks[a] = NoMark THEN 1 ELSE marks[a] + 1
ZeroIsMissing(marks, a) == IF marks[a] \in {NoMark, 0} THEN 0 ELSE marks[a] + 1

\* The mark an account would be given next: 0 if it has none, one more than
\* the one it has otherwise.
NextMark(marks, a) == IF marks[a] = NoMark THEN 0 ELSE marks[a] + 1

\* fromMark when SetMarkCache reaches its map writes: both marks have been
\* raised to the larger one.  A creation looks at the sender only.
JointMark(marks, from, to) ==
    IF to = NoTo THEN NextMark(marks, from)
    ELSE Larger(NextMark(marks, from), NextMark(marks, to))

\* The two map writes.  The inner `toMark, ok :=' shadows the outer toMark, so
\* the recipient is stored with the outer variable's zero value; a transfer to
\* oneself ends with that zero too.  A creation only gets as far as the first.
MarkedFrom(marks, from, mark) == [marks EXCEPT ![from] = mark]
MarkedBoth(marks, from, to, mark) ==
    [MarkedFrom(marks, from, mark) EXCEPT ![to] = 0]

\* Items padded with empty levels until maxLevel is a valid index.
Grown(items, maxLevel) ==
    [l \in 1 .. Larger(Len(items), maxLevel + 1) |->
        IF l <= Len(items) THEN items[l] ELSE <<>>]

\* The item goes to the level maxLevel names, whatever its own mark is.
\* (Level l is items[l + 1].)
Placed(items, maxLevel, item) ==
    [Grown(items, maxLevel) EXCEPT ![maxLevel + 1] = Append(@, item)]

\* Items as NewMarkCache makes it.
NewItems == << <<>>, <<>> >>

\* Variants: the highest level instead of the number of levels, and one more.
LastLevel(maxLevel) == maxLevel
OneTooMany(maxLevel) == maxLevel + 2

\* GetMaxLevel and GetLevelItemWithMark.
GetMaxLevel(maxLevel) == maxLevel + 1
GetLevelItemWithMark(items, l) == items[l + 1]
=============================================================================
