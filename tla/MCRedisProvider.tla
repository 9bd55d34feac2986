---------------------------- MODULE MCRedisProvider ----------------------------
(***************************************************************************)
(* Three readers of two clocks, one after the other; a deployment of an    *)
(* old library, one of a new library and one of the old with --rollback,   *)
(* beside two applications; two clients of a queue of four values.        *)
(***************************************************************************)
EXTENDS RedisProvider

CONSTANTS old, new, back

Libraries ==
    [d \in {old, new, back} |->
        IF d = new THEN [library |-> 2, api |-> 2] ELSE [library |-> 1, api |-> 1]]

===============================================================================
