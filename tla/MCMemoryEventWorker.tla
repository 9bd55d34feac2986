-------------------------- MODULE MCMemoryEventWorker --------------------------
(* Small instances of MemoryEventWorker.                                       *)
EXTENDS MemoryEventWorker

\* The first listener may do anything with an event, the second always takes it.
AnyThenTaker == [l \in Listeners |-> IF l = 0 THEN {"pass", "take", "raise"} ELSE {"take"}]

===============================================================================
