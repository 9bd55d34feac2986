------------------------------ MODULE MCRunqueues ------------------------------
(* A small instance of Runqueues.                                             *)
EXTENDS Runqueues
===============================================================================
