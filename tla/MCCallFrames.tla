---------------------------- MODULE MCCallFrames ----------------------------
(* Instances of CallFrames for TLC: a contract C that can pay once.          *)
EXTENDS CallFrames

CONSTANT C

OnceFunds == [a \in {User, C, Precompile, Fresh} |-> IF a \in {User, C} THEN 1 ELSE 0]
=============================================================================
