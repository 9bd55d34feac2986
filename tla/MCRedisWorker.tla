---------------------------- MODULE MCRedisWorker ----------------------------
(* Small instances of RedisWorker.                                            *)
EXTENDS RedisWorker

===============================================================================
