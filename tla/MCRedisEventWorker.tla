-------------------------- MODULE MCRedisEventWorker --------------------------
(* Small instances of RedisEventWorker.                                        *)
EXTENDS RedisEventWorker

\* The first listener may do anything with an event, the second always takes it.
AnyThenTaker == [l \in Listeners |->
    IF l = 0 THEN {"skip", "pass", "accept", "reject", "raise"} ELSE {"accept"}]

===============================================================================
