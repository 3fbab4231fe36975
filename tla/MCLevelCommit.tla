--------------------------- MODULE MCLevelCommit ---------------------------
(* Instances of LevelCommit for TLC: an account A that may send, and an      *)
(* account P that is paid, executed or created.  A result that does not use  *)
(* A was sent by an account of its own.                                      *)
EXTENDS LevelCommit

CONSTANTS A, P

Result(x, y, f) == [use |-> (A :> x) @@ (P :> y), failed |-> f]

Successes == {Result(x, y, FALSE) : x \in {"untouched", "sender"},
                                    y \in DOMAIN Uses \ {"sender", "updates"}}
Failures == {Result("sender", y, TRUE) : y \in {"untouched", "payee", "stores", "creates"}}
Erred == Result("untouched", "untouched", TRUE)

AllResults == Successes \cup Failures \cup {Erred}
=============================================================================
