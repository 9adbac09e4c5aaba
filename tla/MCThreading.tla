----------------------------- MODULE MCThreading -----------------------------
(* The kernel as it is deployed: the boot thread execs one process, which and  *)
(* whose descendants exec others, read keys and sleep.                         *)
EXTENDS Threading
=============================================================================
