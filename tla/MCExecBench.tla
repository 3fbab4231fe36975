---------------------------- MODULE MCExecBench ----------------------------
(* Instances of ExecBench for TLC.  The amounts are small and keep the       *)
(* relations of the code's: the gas a transfer ends with exceeds its gas     *)
(* limit, so gasUsed() wraps.                                                *)
EXTENDS ExecBench

CONSTANTS A, B, C, D, E, CB

Tx(from, to, value) == [from |-> from, to |-> to, value |-> value]

\* Disjoint transfers in one level.
Disjoint == <<Tx(A, B, 1), Tx(C, D, 2)>>
\* One recipient for every transfer: the last two share level 1 and conflict.
HotRecipient == <<Tx(A, B, 1), Tx(C, B, 2), Tx(D, B, 1)>>
\* Two transactions of one sender in level 1 whose costs differ.
SameSender == <<Tx(A, A, 1), Tx(A, A, 5), Tx(A, B, 0)>>
\* The same with the dear one last: when it fails it is still checked first.
FailsFirst == <<Tx(A, A, 1), Tx(A, A, 0), Tx(A, A, 5)>>
\* A credit and a debit of one account in level 1.
Chain == <<Tx(A, B, 1), Tx(A, D, 1), Tx(C, A, 2)>>
\* Three transactions in level 1: two have one sender and different costs, and the
\* third pays the recipient of the cheap one.  When that is in conflict and the
\* dear one fails, the sender is left with the debit of a failed transaction.
Debt == <<Tx(A, A, 1), Tx(A, A, 5), Tx(A, B, 1), Tx(C, B, 1)>>
\* Level 1 shares nothing, but uses an account level 0 has changed.
TwoLevels == <<Tx(A, B, 1), Tx(A, C, 1), Tx(D, E, 2)>>
\* The account that is paid the tips is also a recipient.
ToCoinbase == <<Tx(A, B, 1), Tx(C, CB, 1)>>

Ample == {Disjoint, HotRecipient, SameSender, FailsFirst, Chain, TwoLevels, ToCoinbase}
Untipped == {Debt, HotRecipient, SameSender, Chain, TwoLevels}
=============================================================================
