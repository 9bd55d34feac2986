----------------------------- MODULE MCQueueRuntime -----------------------------
(* A small instance of QueueRuntime.                                            *)
EXTENDS QueueRuntime

===============================================================================
