----------------------------- MODULE RedisProvider -----------------------------
(***************************************************************************)
(* The parts of QueueProviderRedis (backends/redis/provider.py) around the *)
(* entries: the clock it keeps per event loop, the Function library it     *)
(* calls, and the raw values of Queue and PriorityQueue, which have a form *)
(* in process as well.  The three have no state in common, so a behaviour  *)
(* is about one of them, and the others rest.                              *)
(***************************************************************************)
EXTENDS RedisClock, LibraryDeployment, RawValues

VARIABLE part

vars == <<part, clockvars, libraryvars, rawvars>>

Init ==
    /\ part \in {"clock", "library", "values"}
    /\ ClockInit
    /\ LibraryInit /\ (part # "library" => installed = Absent)
    /\ RawInit /\ (part # "values" => form = [store |-> "redis", kind |-> "queue"])

Next ==
    \/ part = "clock" /\ ClockNext /\ UNCHANGED <<part, libraryvars, rawvars>>
    \/ part = "library" /\ LibraryNext /\ UNCHANGED <<part, clockvars, rawvars>>
    \/ part = "values" /\ RawNext /\ UNCHANGED <<part, clockvars, libraryvars>>

Spec == Init /\ [][Next]_vars

===============================================================================
