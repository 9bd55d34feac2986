-------------------------- MODULE MCRunqueuesRecovery --------------------------
(* A small instance of RunqueuesRecovery.                                     *)
EXTENDS RunqueuesRecovery
===============================================================================
