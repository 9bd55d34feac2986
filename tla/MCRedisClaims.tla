---------------------------- MODULE MCRedisClaims ----------------------------
(* Small instances of RedisClaims.  Workers are interchangeable; entry IDs   *)
(* are ordered, so they are not.                                              *)
EXTENDS RedisClaims, TLC

WorkerSymmetry == Permutations(Workers)

===============================================================================
