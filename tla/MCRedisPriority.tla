---------------------------- MODULE MCRedisPriority ----------------------------
(* Instances of RedisPriority.                                                 *)
EXTENDS RedisPriority
===============================================================================
