---------------------------- MODULE MCMarkCache ----------------------------
(* Instance of MarkCache for TLC: every block of up to MaxTxs transactions   *)
(* over the accounts, creations included.  Accounts are interchangeable.     *)
EXTENDS MarkCache, TLC

Symmetry == Permutations(Account)
=============================================================================
