---------------------------- MODULE MCAuditQueue ----------------------------
(* Instances of AuditQueue for TLC: the sentinel makes of the code of t1     *)
(* what is stored for it, and of that of t2 something else.                  *)
EXTENDS AuditQueue, TLC
CONSTANTS t1, t2, f1, f2
Finals == (t1 :> f1) @@ (t2 :> f2)
=============================================================================
