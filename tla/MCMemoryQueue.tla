---------------------------- MODULE MCMemoryQueue ----------------------------
(* Small instances of MemoryQueue: entry 2 outranks entry 1, and entry 2 may  *)
(* also be marked as failed by hand.                                          *)
EXTENDS MemoryQueue

Ranks == [e \in Entries |-> e]

===============================================================================
