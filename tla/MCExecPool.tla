----------------------------- MODULE MCExecPool -----------------------------
(* Instances of ExecPool for TLC.                                            *)
EXTENDS ExecPool
=============================================================================
