------------------------------ MODULE RedisValues ------------------------------
(***************************************************************************)
(* The Redis values that the Functions of backends/redis/library.lua work  *)
(* on.  A ZSET, or the keys that share a prefix, is a function on the      *)
(* members it holds; a list is a sequence.                                 *)
(***************************************************************************)
EXTENDS Integers, Sequences, FiniteSets, Functions

Zadd(z, e, score) == [x \in DOMAIN z \cup {e} |-> IF x = e THEN score ELSE z[x]]
Without(z, S) == [x \in DOMAIN z \ S |-> z[x]]

\* The elements of a list at the places K, in their order.
Nth(K, n) == CHOOSE k \in K : Cardinality({i \in K : i <= k}) = n
Sublist(list, K) == [n \in 1 .. Cardinality(K) |-> list[Nth(K, n)]]

\* LREM key 0 e.
Lrem(list, e) ==
    IF e \in Range(list) THEN Sublist(list, {i \in DOMAIN list : list[i] # e}) ELSE list

\* The elements of a list that are in T.
Keep(list, T) == Sublist(list, {i \in DOMAIN list : list[i] \in T})

\* The members of z that are due at time t (ZRANGEBYSCORE key -inf t).
DueAt(z, t) == {e \in DOMAIN z : z[e] <= t}

\* The order of a ZSET: by score, then by ID.
Before(z, e, f) == z[e] < z[f] \/ (z[e] = z[f] /\ e < f)

\* The members S of z as ZRANGEBYSCORE lists them.
Ranged(z, S) ==
    {list \in [1 .. Cardinality(S) -> S] :
        /\ \A e \in S : \E i \in DOMAIN list : list[i] = e
        /\ \A i, j \in DOMAIN list : i < j => Before(z, list[i], list[j])}

\* pop_pending: a stack pops the end that pushes append to, a queue the other.
Popped(list, stack) == IF stack THEN list[Len(list)] ELSE Head(list)
PopRest(list, stack) == IF stack THEN SubSeq(list, 1, Len(list) - 1) ELSE Tail(list)

\* No element is listed twice.
Injective(list) == \A i, j \in DOMAIN list : list[i] = list[j] => i = j

===============================================================================
