-------------------------- MODULE RedisValues_proofs --------------------------
(***************************************************************************)
(* What the list operations of the Redis Functions preserve.               *)
(***************************************************************************)
EXTENDS RedisValues, FiniteSetTheorems, TLAPS

\* A push (RPUSH) adds one element, and keeps a list without duplicates so.
LEMMA AppendList ==
    ASSUME NEW S, NEW list \in Seq(S), NEW e
    PROVE  /\ Range(Append(list, e)) = Range(list) \cup {e}
           /\ Injective(list) /\ e \notin Range(list) => Injective(Append(list, e))
<1> DEFINE new == Append(list, e)
<1>1. /\ DOMAIN new = 1 .. (Len(list) + 1)
      /\ DOMAIN list = 1 .. Len(list)
      /\ Len(list) \in Nat
      /\ \A i \in 1 .. Len(list) : new[i] = list[i]
      /\ new[Len(list) + 1] = e
  OBVIOUS
<1> HIDE DEF new
<1>2. Range(new) = Range(list) \cup {e}
  BY <1>1 DEF Range
<1>3. ASSUME Injective(list), e \notin Range(list) PROVE Injective(new)
  BY <1>1, <1>3 DEF Injective, Range
<1> QED
  BY <1>2, <1>3 DEF new

\* Pushing a list without duplicates behind a disjoint one.
LEMMA ConcatLists ==
    ASSUME NEW S, NEW T, NEW a \in Seq(S), NEW b \in Seq(T)
    PROVE  /\ a \o b \in Seq(S \cup T)
           /\ Range(a \o b) = Range(a) \cup Range(b)
           /\ Injective(a) /\ Injective(b) /\ Range(a) \cap Range(b) = {} => Injective(a \o b)
<1> DEFINE new == a \o b
<1>0. a \in Seq(S \cup T) /\ b \in Seq(S \cup T)
  OBVIOUS
<1>1. /\ DOMAIN new = 1 .. (Len(a) + Len(b))
      /\ DOMAIN a = 1 .. Len(a) /\ DOMAIN b = 1 .. Len(b)
      /\ Len(a) \in Nat /\ Len(b) \in Nat
      /\ \A i \in 1 .. Len(a) : new[i] = a[i]
      /\ \A i \in 1 .. Len(b) : new[Len(a) + i] = b[i]
      /\ new \in Seq(S \cup T)
  BY <1>0
<1> HIDE DEF new
<1>2. \A k \in DOMAIN new : k \in 1 .. Len(a) \/ (k - Len(a) \in 1 .. Len(b) /\ k = Len(a) + (k - Len(a)))
  BY <1>1
<1>3. Range(new) = Range(a) \cup Range(b)
  <2>1. Range(new) \subseteq Range(a) \cup Range(b)
    BY <1>1, <1>2 DEF Range
  <2>2. Range(a) \subseteq Range(new)
    <3>1. \A i \in 1 .. Len(a) : i \in DOMAIN new
      BY <1>1
    <3> QED
      BY <1>1, <3>1 DEF Range
  <2>3. Range(b) \subseteq Range(new)
    <3>1. \A i \in 1 .. Len(b) : Len(a) + i \in DOMAIN new
      BY <1>1
    <3> QED
      BY <1>1, <3>1, Zenon DEF Range
  <2> QED
    BY <2>1, <2>2, <2>3
<1>4. ASSUME Injective(a), Injective(b), Range(a) \cap Range(b) = {} PROVE Injective(new)
  <2> SUFFICES ASSUME NEW i \in DOMAIN new, NEW j \in DOMAIN new, new[i] = new[j] PROVE i = j
    BY DEF Injective
  <2>1. CASE i \in 1 .. Len(a) /\ j \in 1 .. Len(a)
    BY <2>1, <1>1, <1>4 DEF Injective
  <2>2. CASE i \notin 1 .. Len(a) /\ j \notin 1 .. Len(a)
    <3>1. /\ i - Len(a) \in 1 .. Len(b) /\ new[i] = b[i - Len(a)]
          /\ j - Len(a) \in 1 .. Len(b) /\ new[j] = b[j - Len(a)]
      BY <2>2, <1>1, <1>2
    <3>2. i - Len(a) = j - Len(a)
      BY <3>1, <1>1, <1>4, Zenon DEF Injective
    <3> QED
      BY <3>2, <1>1
  <2>3. \A k \in DOMAIN new : k \in 1 .. Len(a) => new[k] \in Range(a)
    BY <1>1 DEF Range
  <2>4. \A k \in DOMAIN new : k \notin 1 .. Len(a) => new[k] \in Range(b)
    BY <1>1, <1>2 DEF Range
  <2> QED
    BY <2>1, <2>2, <2>3, <2>4, <1>4
<1> QED
  BY <1>1, <1>3, <1>4 DEF new

\* pop_pending takes one element away, from either end.
LEMMA PopList ==
    ASSUME NEW S, NEW list \in Seq(S), list # <<>>, NEW stack \in BOOLEAN
    PROVE  /\ Popped(list, stack) \in S
           /\ PopRest(list, stack) \in Seq(S)
           /\ Range(list) = Range(PopRest(list, stack)) \cup {Popped(list, stack)}
           /\ Injective(list) => /\ Injective(PopRest(list, stack))
                                 /\ Popped(list, stack) \notin Range(PopRest(list, stack))
<1>1. /\ Len(list) \in Nat \ {0} /\ DOMAIN list = 1 .. Len(list)
      /\ \A i \in 1 .. Len(list) : list[i] \in S
  OBVIOUS
<1>2. CASE stack
  <2> DEFINE rest == SubSeq(list, 1, Len(list) - 1)
  <2>1. /\ rest \in Seq(S) /\ DOMAIN rest = 1 .. (Len(list) - 1)
        /\ \A i \in 1 .. (Len(list) - 1) : rest[i] = list[i]
    BY <1>1
  <2>2. PopRest(list, stack) = rest /\ Popped(list, stack) = list[Len(list)]
    BY <1>2 DEF PopRest, Popped
  <2> HIDE DEF rest
  <2>3. Range(list) = Range(rest) \cup {list[Len(list)]}
    BY <2>1, <1>1 DEF Range
  <2>4. Injective(list) => Injective(rest) /\ list[Len(list)] \notin Range(rest)
    BY <2>1, <1>1 DEF Range, Injective
  <2> QED
    BY <1>1, <2>1, <2>2, <2>3, <2>4
<1>3. CASE ~stack
  <2> DEFINE rest == Tail(list)
  <2>1. /\ rest \in Seq(S) /\ DOMAIN rest = 1 .. (Len(list) - 1)
        /\ \A i \in 1 .. (Len(list) - 1) : rest[i] = list[i + 1]
        /\ Head(list) = list[1]
    BY <1>1
  <2>2. PopRest(list, stack) = rest /\ Popped(list, stack) = Head(list)
    BY <1>3 DEF PopRest, Popped
  <2> HIDE DEF rest
  <2>3. Range(list) = Range(rest) \cup {list[1]}
    <3>1. \A i \in 1 .. Len(list) : i = 1 \/ (i - 1 \in 1 .. (Len(list) - 1) /\ list[i] = rest[i - 1])
      BY <2>1, <1>1
    <3>2. Range(list) \subseteq Range(rest) \cup {list[1]}
      <4>1. \A i \in DOMAIN list : i = 1 \/ \E k \in DOMAIN rest : list[i] = rest[k]
        BY <3>1, <2>1, <1>1
      <4> QED
        BY <4>1 DEF Range
    <3>3. \A i \in 1 .. (Len(list) - 1) : i + 1 \in DOMAIN list /\ rest[i] = list[i + 1]
      BY <2>1, <1>1
    <3>4. Range(rest) \cup {list[1]} \subseteq Range(list)
      <4>1. \A k \in DOMAIN rest : \E i \in DOMAIN list : rest[k] = list[i]
        BY <3>3, <2>1
      <4>2. 1 \in DOMAIN list
        BY <1>1
      <4> QED
        BY <4>1, <4>2 DEF Range
    <3> QED
      BY <3>2, <3>4
  <2>4. ASSUME Injective(list) PROVE Injective(rest) /\ list[1] \notin Range(rest)
    <3>1. \A i, j \in 1 .. (Len(list) - 1) : i + 1 = j + 1 => i = j
      BY <1>1
    <3>2. \A i \in 1 .. (Len(list) - 1) : i + 1 \in DOMAIN list /\ rest[i] = list[i + 1] /\ i + 1 # 1
      BY <2>1, <1>1
    <3>3. Injective(rest)
      BY <3>1, <3>2, <2>1, <2>4 DEF Injective
    <3>4. list[1] \notin Range(rest)
      <4>1. ASSUME NEW k \in DOMAIN rest PROVE rest[k] # list[1]
        <5>1. k + 1 \in DOMAIN list /\ 1 \in DOMAIN list /\ k + 1 # 1 /\ rest[k] = list[k + 1]
          BY <3>2, <2>1, <1>1
        <5> QED
          BY <5>1, <2>4 DEF Injective
      <4> QED
        BY <4>1 DEF Range
    <3> QED
      BY <3>3, <3>4
  <2> QED
    BY <1>1, <2>1, <2>2, <2>3, <2>4
<1> QED
  BY <1>2, <1>3

\* What ZRANGEBYSCORE returns lists each member of the set once.
LEMMA RangedList ==
    ASSUME NEW z, NEW S, IsFiniteSet(S), S \subseteq Nat,
           \A e \in S : z[e] \in Nat,
           NEW list \in Ranged(z, S)
    PROVE  list \in Seq(S) /\ Range(list) = S /\ Injective(list)
<1>1. Cardinality(S) \in Nat
  BY FS_CardinalityType
<1>2. /\ list \in [1 .. Cardinality(S) -> S]
      /\ \A e \in S : \E i \in DOMAIN list : list[i] = e
      /\ \A i, j \in DOMAIN list : i < j => Before(z, list[i], list[j])
  BY DEF Ranged
<1>3. list \in Seq(S)
  BY <1>1, <1>2
<1>4. Range(list) = S
  BY <1>2, Zenon DEF Range
<1>5. \A e \in S : ~Before(z, e, e)
  BY DEF Before
<1>6. Injective(list)
  <2> SUFFICES ASSUME NEW i \in DOMAIN list, NEW j \in DOMAIN list, list[i] = list[j] PROVE i = j
    BY DEF Injective
  <2>1. i \in Int /\ j \in Int /\ list[i] \in S
    BY <1>1, <1>2
  <2>2. ~(i < j) /\ ~(j < i)
    BY <2>1, <1>2, <1>5, Zenon
  <2> QED
    BY <2>1, <2>2
<1> QED
  BY <1>3, <1>4, <1>6

\* The places that are kept are numbered without gaps, in their order.
LEMMA NthPlace ==
    ASSUME NEW m \in Nat, NEW K \in SUBSET (1 .. m)
    PROVE  /\ Cardinality(K) \in Nat
           /\ \A n \in 1 .. Cardinality(K) : Nth(K, n) \in K
           /\ \A k \in K : \E n \in 1 .. Cardinality(K) : Nth(K, n) = k
           /\ \A n, p \in 1 .. Cardinality(K) : Nth(K, n) = Nth(K, p) => n = p
<1> DEFINE upto(k) == {i \in K : i <= k}
           rank == [k \in K |-> Cardinality(upto(k))]
           N == Cardinality(K)
<1>0. \A k \in K : k \in Nat
  OBVIOUS
<1>1. IsFiniteSet(K) /\ N \in Nat
  <2>1. IsFiniteSet(1 .. m)
    BY FS_Interval
  <2>2. IsFiniteSet(K)
    BY <2>1, FS_Subset, Zenon
  <2> QED
    BY <2>2, FS_CardinalityType
<1>2. \A k \in K : /\ IsFiniteSet(upto(k)) /\ Cardinality(upto(k)) \in Nat
                   /\ Cardinality(upto(k)) <= N
                   /\ Cardinality(upto(k)) # 0
  <2> SUFFICES ASSUME NEW k \in K
               PROVE  /\ IsFiniteSet(upto(k)) /\ Cardinality(upto(k)) \in Nat
                      /\ Cardinality(upto(k)) <= N
                      /\ Cardinality(upto(k)) # 0
    OBVIOUS
  <2>1. upto(k) \in SUBSET K /\ k \in upto(k)
    OBVIOUS
  <2> HIDE DEF upto
  <2>2. IsFiniteSet(upto(k)) /\ Cardinality(upto(k)) <= N
    BY <2>1, <1>1, FS_Subset
  <2>3. Cardinality(upto(k)) \in Nat
    BY <2>2, FS_CardinalityType
  <2>4. Cardinality(upto(k)) # 0
    BY <2>1, <2>2, FS_EmptySet
  <2> QED
    BY <2>2, <2>3, <2>4
<1>3. \A j, k \in K : j < k => Cardinality(upto(j)) # Cardinality(upto(k))
  <2> SUFFICES ASSUME NEW j \in K, NEW k \in K, j < k
               PROVE  Cardinality(upto(j)) # Cardinality(upto(k))
    OBVIOUS
  <2>1. j \in Nat /\ k \in Nat
    BY <1>0
  <2>2. \A i \in K : i <= j => i <= k
    BY <2>1, <1>0
  <2>3. upto(j) \in SUBSET upto(k) /\ k \in upto(k) /\ k \notin upto(j)
    <3>1. \A i \in upto(j) : i \in upto(k)
      BY <2>2
    <3>2. k <= k /\ ~(k <= j)
      BY <2>1
    <3> QED
      BY <3>1, <3>2, Zenon
  <2> QED
    BY <2>3, <1>2, FS_Subset
<1>4. \A j, k \in K : rank[j] = rank[k] => j = k
  BY <1>3
<1>5. rank \in [K -> 1 .. N]
  BY <1>1, <1>2
<1>6. rank \in Surjection(K, 1 .. N)
  <2>1. rank \in Injection(K, 1 .. N)
    BY <1>4, <1>5, Zenon DEF Injection, IsInjective
  <2>2. IsFiniteSet(1 .. N) /\ Cardinality(1 .. N) = N
    BY <1>1, FS_Interval
  <2> QED
    BY <2>1, <2>2, FS_Injection
<1>7. \A n \in 1 .. N : \E k \in K : Cardinality(upto(k)) = n
  BY <1>6, Zenon DEF Surjection
<1>8. \A n \in 1 .. N : Nth(K, n) \in K /\ rank[Nth(K, n)] = n
  BY <1>7 DEF Nth
<1>9. \A k \in K : Nth(K, rank[k]) = k
  BY <1>4, <1>5, <1>8, Zenon
<1> QED
  BY <1>1, <1>5, <1>8, <1>9, Zenon

\* A part of a list: its elements are the ones at the places kept, and it has no
\* duplicates if the list has none.
LEMMA SublistFacts ==
    ASSUME NEW S, NEW list \in Seq(S), NEW K, K \subseteq DOMAIN list
    PROVE  /\ Sublist(list, K) \in Seq(S)
           /\ \A x : x \in Range(Sublist(list, K)) <=> \E k \in K : x = list[k]
           /\ Injective(list) => Injective(Sublist(list, K))
<1> DEFINE N == Cardinality(K)
           sub == Sublist(list, K)
<1>1. Len(list) \in Nat /\ DOMAIN list = 1 .. Len(list) /\ \A k \in K : list[k] \in S
  OBVIOUS
<1>2. /\ N \in Nat
      /\ \A n \in 1 .. N : Nth(K, n) \in K
      /\ \A k \in K : \E n \in 1 .. N : Nth(K, n) = k
      /\ \A n, p \in 1 .. N : Nth(K, n) = Nth(K, p) => n = p
  BY <1>1, NthPlace, Zenon
<1>3. DOMAIN sub = 1 .. N /\ \A n \in 1 .. N : sub[n] = list[Nth(K, n)]
  BY DEF Sublist
<1>4. sub \in Seq(S)
  <2>1. sub \in [1 .. N -> S]
    BY <1>1, <1>2 DEF Sublist
  <2> QED
    BY <2>1, <1>2
<1> HIDE DEF sub, N
<1>5. ASSUME NEW x PROVE x \in Range(sub) <=> \E k \in K : x = list[k]
  <2>1. x \in Range(sub) <=> \E n \in 1 .. N : x = sub[n]
    BY <1>3 DEF Range
  <2> QED
    BY <2>1, <1>2, <1>3
<1>6. Injective(list) => Injective(sub)
  BY <1>2, <1>3 DEF Injective
<1> QED
  BY <1>4, <1>5, <1>6 DEF sub

\* LREM takes one ID away.
LEMMA LremList ==
    ASSUME NEW S, NEW list \in Seq(S), NEW e
    PROVE  /\ Lrem(list, e) \in Seq(S)
           /\ Range(Lrem(list, e)) = Range(list) \ {e}
           /\ Injective(list) => Injective(Lrem(list, e))
<1> DEFINE K == {i \in DOMAIN list : list[i] # e}
<1>1. CASE e \in Range(list)
  <2>1. Lrem(list, e) = Sublist(list, K)
    BY <1>1 DEF Lrem
  <2>2. \A x : (\E k \in K : x = list[k]) <=> x \in Range(list) \ {e}
    BY DEF Range
  <2>3. K \subseteq DOMAIN list
    OBVIOUS
  <2> HIDE DEF K
  <2>4. /\ Sublist(list, K) \in Seq(S)
        /\ \A x : x \in Range(Sublist(list, K)) <=> \E k \in K : x = list[k]
        /\ Injective(list) => Injective(Sublist(list, K))
    BY <2>3, SublistFacts
  <2> QED
    BY <2>1, <2>2, <2>4
<1>2. CASE e \notin Range(list)
  BY <1>2 DEF Lrem
<1> QED
  BY <1>1, <1>2

\* LREM of an ID that is not listed changes nothing.
LEMMA LremAbsent == ASSUME NEW list, NEW e, e \notin Range(list) PROVE Lrem(list, e) = list
  BY DEF Lrem

\* Two disjoint lists, one behind the other.
LEMMA ConcatSame ==
    ASSUME NEW S, NEW a \in Seq(S), NEW b \in Seq(S), Injective(a), Injective(b),
           Range(a) \cap Range(b) = {}
    PROVE  a \o b \in Seq(S) /\ Injective(a \o b) /\ Range(a \o b) = Range(a) \cup Range(b)
<1>1. a \o b \in Seq(S \cup S) /\ Injective(a \o b) /\ Range(a \o b) = Range(a) \cup Range(b)
  BY ConcatLists
<1>2. S \cup S = S
  OBVIOUS
<1> QED
  BY <1>1, <1>2

\* The elements before a place, the one there and those behind it.
LEMMA SplitList ==
    ASSUME NEW S, NEW list \in Seq(S), NEW n \in 1 .. Len(list) + 1
    PROVE  LET a == SubSeq(list, 1, n - 1)
               b == SubSeq(list, n + 1, Len(list))
               it == IF n > Len(list) THEN {} ELSE {list[n]}
           IN  /\ a \in Seq(S) /\ b \in Seq(S) /\ it \subseteq S
               /\ Range(list) = Range(a) \cup it \cup Range(b)
               /\ Injective(list) => /\ Injective(a) /\ Injective(b)
                                     /\ Range(a) \cap (it \cup Range(b)) = {} /\ it \cap Range(b) = {}
<1> DEFINE N == Len(list)
           a == SubSeq(list, 1, n - 1)
           b == SubSeq(list, n + 1, N)
           it == IF n > N THEN {} ELSE {list[n]}
<1>1. N \in Nat /\ DOMAIN list = 1 .. N /\ n \in Nat /\ 1 <= n /\ n <= N + 1
  OBVIOUS
<1>2. /\ a \in Seq(S) /\ DOMAIN a = 1 .. (n - 1)
      /\ \A i \in 1 .. (n - 1) : a[i] = list[i] /\ i \in 1 .. N
  BY <1>1
<1>3. /\ b \in Seq(S) /\ DOMAIN b = 1 .. (N - n)
      /\ \A i \in 1 .. (N - n) : b[i] = list[n + i] /\ n + i \in 1 .. N
  BY <1>1
<1>4. \A k \in 1 .. N : k \in 1 .. (n - 1) \/ k = n \/ (k - n \in 1 .. (N - n) /\ k = n + (k - n))
  BY <1>1
<1>5. it \subseteq S /\ \A x : x \in it <=> (n \in 1 .. N /\ x = list[n])
  BY <1>1
<1> HIDE DEF a, b, it, N
<1>6. Range(list) = Range(a) \cup it \cup Range(b)
  <2>1. ASSUME NEW k \in 1 .. N PROVE list[k] \in Range(a) \cup it \cup Range(b)
    <3>1. CASE k \in 1 .. (n - 1)
      BY <3>1, <1>2 DEF Range
    <3>2. CASE k = n
      BY <3>2, <1>5
    <3>3. CASE k - n \in 1 .. (N - n) /\ k = n + (k - n)
      BY <3>3, <1>3 DEF Range
    <3> QED
      BY <3>1, <3>2, <3>3, <1>4
  <2>2. Range(a) \subseteq Range(list) /\ Range(b) \subseteq Range(list) /\ it \subseteq Range(list)
    BY <1>1, <1>2, <1>3, <1>5, ZenonT(30) DEF Range
  <2> QED
    BY <2>1, <2>2, <1>1, Zenon DEF Range
<1>7. ASSUME Injective(list)
      PROVE  /\ Injective(a) /\ Injective(b)
             /\ Range(a) \cap (it \cup Range(b)) = {} /\ it \cap Range(b) = {}
  <2>1. Injective(a)
    BY <1>1, <1>2, <1>7 DEF Injective
  <2>2. Injective(b)
    <3> SUFFICES ASSUME NEW i \in 1 .. (N - n), NEW j \in 1 .. (N - n), b[i] = b[j] PROVE i = j
      BY <1>3 DEF Injective
    <3>1. n + i = n + j
      BY <1>1, <1>3, <1>7, Zenon DEF Injective
    <3> QED
      BY <3>1, <1>1
  <2>3. \A i \in 1 .. (n - 1), j \in 1 .. (N - n) : a[i] # b[j]
    <3>1. \A i \in 1 .. (n - 1), j \in 1 .. (N - n) : i # n + j
      BY <1>1
    <3> QED
      BY <3>1, <1>1, <1>2, <1>3, <1>7, Zenon DEF Injective
  <2>4. \A i \in 1 .. (n - 1) : a[i] \notin it
    <3>1. \A i \in 1 .. (n - 1) : i # n
      BY <1>1
    <3> QED
      BY <3>1, <1>1, <1>2, <1>5, <1>7 DEF Injective
  <2>5. \A j \in 1 .. (N - n) : b[j] \notin it
    <3>1. \A j \in 1 .. (N - n) : n + j # n
      BY <1>1
    <3> QED
      BY <3>1, <1>1, <1>3, <1>5, <1>7, Zenon DEF Injective
  <2> QED
    BY <2>1, <2>2, <2>3, <2>4, <2>5, <1>2, <1>3 DEF Range
<1> QED
  BY <1>2, <1>3, <1>5, <1>6, <1>7 DEF a, b, it, N

\* What is kept of a list.
LEMMA KeepList ==
    ASSUME NEW S, NEW list \in Seq(S), NEW T
    PROVE  /\ Keep(list, T) \in Seq(S)
           /\ Range(Keep(list, T)) = Range(list) \cap T
           /\ Injective(list) => Injective(Keep(list, T))
<1> DEFINE K == {i \in DOMAIN list : list[i] \in T}
<1>1. Keep(list, T) = Sublist(list, K)
  BY DEF Keep
<1>2. \A x : (\E k \in K : x = list[k]) <=> x \in Range(list) \cap T
  BY DEF Range
<1>3. K \subseteq DOMAIN list
  OBVIOUS
<1> HIDE DEF K
<1>4. /\ Sublist(list, K) \in Seq(S)
      /\ \A x : x \in Range(Sublist(list, K)) <=> \E k \in K : x = list[k]
      /\ Injective(list) => Injective(Sublist(list, K))
  BY <1>3, SublistFacts
<1> QED
  BY <1>1, <1>2, <1>4

\* The order of points in time.
LEMMA Ordering ==
    /\ \A a, b, c \in Nat : a > c /\ b <= c => a > b
    /\ \A a, b, c \in Nat : a >= b /\ b > c => a > c
    /\ \A a, b, c \in Nat : a >= b /\ b >= c => a >= c
    /\ \A n \in Nat : ~(0 > n) /\ n >= n
OBVIOUS

===============================================================================
