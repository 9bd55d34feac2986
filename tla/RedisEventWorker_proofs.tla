------------------------ MODULE RedisEventWorker_proofs ------------------------
(***************************************************************************)
(* The Redis store of RedisEvents.tla, for every set of events and         *)
(* workers, every lifetime, lease, delay and batch size, FIFO and stack,   *)
(* and every bound of the clock: the inductive invariant is                *)
(* NoEventStranded itself.  And the event workers of RedisEventWorker.tla  *)
(* on it, for every number of workers, events, listeners and faults: what  *)
(* a worker may conclude from its lease while the others move, and,        *)
(* resting on that, who may hold an event that nobody lost.                *)
(***************************************************************************)
EXTENDS RedisEventWorker, RedisValues_proofs

-------------------------------------------------------------------------------
\* The store.

\* What the invariant says of the keys, in the form the proofs use.
LEMMA StoreFacts ==
    ASSUME NoEventStranded
    PROVE  /\ issued \subseteq Nat /\ IsFiniteSet(issued) /\ NoEvent \notin issued
           /\ pending \in Seq(issued) /\ Injective(pending) /\ Range(pending) \subseteq stored
           /\ DOMAIN claims \subseteq stored /\ DOMAIN delayed \subseteq stored /\ stored \subseteq issued
           /\ now \in Nat
  BY EventConstantsOK, Zenon DEF NoEventStranded, TypeOK, EventInOnePlace

\* Due delayed events behind the pending ones: no event is listed twice.
LEMMA RedeliveredList ==
    ASSUME NoEventStranded, NEW redelivered \in Ranged(delayed, Due(delayed))
    PROVE  /\ pending \o redelivered \in Seq(issued) /\ Injective(pending \o redelivered)
           /\ Range(pending \o redelivered) = Range(pending) \cup Due(delayed)
           /\ Due(delayed) \subseteq DOMAIN delayed
           /\ Range(pending \o redelivered) \subseteq stored
           /\ Range(pending \o redelivered) \cap DOMAIN claims = {}
<1>1. Due(delayed) \subseteq DOMAIN delayed
  BY Zenon DEF Due, DueAt
<1>2. redelivered \in Seq(Due(delayed)) /\ Range(redelivered) = Due(delayed) /\ Injective(redelivered)
  <2>1. IsFiniteSet(Due(delayed)) /\ Due(delayed) \subseteq Nat
    BY <1>1, StoreFacts, FS_Subset, Zenon
  <2>2. \A e \in Due(delayed) : delayed[e] \in Nat
    BY <1>1, Zenon DEF NoEventStranded, TypeOK
  <2> QED
    BY <2>1, <2>2, RangedList, Zenon
<1>3. issued \cup Due(delayed) = issued /\ Range(pending) \cap Due(delayed) = {}
  BY <1>1, StoreFacts, Zenon DEF NoEventStranded, EventInOnePlace
<1>4. /\ pending \o redelivered \in Seq(issued) /\ Injective(pending \o redelivered)
      /\ Range(pending \o redelivered) = Range(pending) \cup Due(delayed)
  BY <1>2, <1>3, StoreFacts, ConcatLists
<1> QED
  BY <1>1, <1>4, Zenon DEF NoEventStranded, EventInOnePlace

\* A list turned round has the same elements.
LEMMA PopOrderList ==
    ASSUME NEW S, NEW list \in Seq(S)
    PROVE  /\ PopOrder(list) \in Seq(S)
           /\ Range(PopOrder(list)) = Range(list)
           /\ Injective(list) => Injective(PopOrder(list))
<1> DEFINE N == Len(list)
           new == [i \in 1 .. N |-> list[N + 1 - i]]
<1>1. N \in Nat /\ DOMAIN list = 1 .. N /\ \A i \in 1 .. N : list[i] \in S
  OBVIOUS
<1>2. \A i \in 1 .. N : N + 1 - i \in 1 .. N /\ N + 1 - (N + 1 - i) = i
  BY <1>1
<1>3. new \in Seq(S)
  <2>1. new \in [1 .. N -> S]
    BY <1>1, <1>2, Zenon
  <2> QED
    BY <2>1, <1>1
<1>4. Range(new) = Range(list)
  <2>1. DOMAIN new = 1 .. N /\ \A i \in 1 .. N : new[i] = list[N + 1 - i] /\ list[i] = new[N + 1 - i]
    BY <1>2, Zenon
  <2> HIDE DEF new, N
  <2>2. \A i \in DOMAIN new : \E j \in DOMAIN list : new[i] = list[j]
    BY <1>1, <1>2, <2>1, Zenon
  <2>3. \A i \in DOMAIN list : \E j \in DOMAIN new : list[i] = new[j]
    BY <1>1, <1>2, <2>1, Zenon
  <2> QED
    BY <2>2, <2>3 DEF Range
<1>5. ASSUME Injective(list) PROVE Injective(new)
  <2> SUFFICES ASSUME NEW i \in 1 .. N, NEW j \in 1 .. N, new[i] = new[j] PROVE i = j
    BY Zenon DEF Injective
  <2>1. N + 1 - i = N + 1 - j
    BY <1>1, <1>2, <1>5, Zenon DEF Injective
  <2> QED
    BY <2>1, <1>1
<1> QED
  BY <1>3, <1>4, <1>5, Zenon DEF PopOrder

-------------------------------------------------------------------------------
\* django_queue_store_event_and_push: a new ID is in no other place.
LEMMA StoreEventAndPushInv ==
    ASSUME NoEventStranded, NEW e \in Events, NEW life \in Lifetimes, StoreEventAndPush(e, life)
    PROVE  NoEventStranded'
<1>1. /\ e \notin issued /\ issued' = issued \cup {e} /\ pending' = Append(pending, e)
      /\ stored' = stored \cup {e} /\ now + life \in Nat
      /\ UNCHANGED <<delayed, claims, claim_deadlines, now, ended>>
  BY StoreFacts, EventConstantsOK DEF StoreEventAndPush
<1>2. Range(pending') = Range(pending) \cup {e} /\ Injective(pending') /\ pending' \in Seq(issued')
  <2>1. e \notin Range(pending)
    BY <1>1, StoreFacts, Zenon
  <2> QED
    BY <2>1, <1>1, StoreFacts, AppendList
<1>3. DOMAIN unclaimed' = DOMAIN unclaimed \cup {e} /\ unclaimed' \in [DOMAIN unclaimed' -> Nat]
  BY <1>1, Zenon DEF StoreEventAndPush, Zadd, NoEventStranded, TypeOK
<1>4. IsFiniteSet(issued') /\ issued' \ stored' = issued \ stored
  BY <1>1, StoreFacts, FS_AddElement
<1>5. TypeOK'
  BY <1>1, <1>2, <1>3, <1>4, Zenon DEF NoEventStranded, TypeOK
<1>6. EventInOnePlace' /\ EventClaimsIndexed' /\ LifetimeIndexed'
  BY <1>1, <1>2, <1>3, StoreFacts
  DEF NoEventStranded, EventInOnePlace, EventClaimsIndexed, LifetimeIndexed
<1> QED
  BY <1>5, <1>6, Zenon DEF NoEventStranded

\* django_queue_dequeue_event: what it passes over without a claim is forgotten
\* altogether, and so is what it hands out.
LEMMA DequeueEventInv ==
    ASSUME NoEventStranded, NEW got, DequeueEvent(got)
    PROVE  NoEventStranded'
<1>a. PICK redelivered \in Ranged(delayed, Due(delayed)) :
        \E first \in 1 .. Len(PopOrder(pending \o redelivered)) + 1 :
            PopUpTo(PopOrder(pending \o redelivered), first, got)
  BY Zenon DEF DequeueEvent
<1> DEFINE list == pending \o redelivered
           order == PopOrder(list)
<1>b. PICK first \in 1 .. Len(order) + 1 : PopUpTo(order, first, got)
  BY <1>a, Zenon
<1> DEFINE passed == SubSeq(order, 1, first - 1)
           behind == SubSeq(order, first + 1, Len(order))
           dead == Range(passed) \ DOMAIN claims
           taken == IF first > Len(order) THEN {} ELSE {order[first]}
           out == dead \cup taken
           left_over == Keep(behind, Events \ out)
           back == Keep(passed, DOMAIN claims)
<1>1. /\ pending' = PopOrder(left_over \o back)
      /\ stored' = stored \ out
      /\ delayed' = Without(delayed, Due(delayed) \cup out)
      /\ claim_deadlines' = Without(claim_deadlines, out)
      /\ unclaimed' = Without(unclaimed, out)
      /\ ended' = [e \in DOMAIN ended \cup (out \cap stored) |->
             IF e \in taken THEN "consumed" ELSE IF e \in dead THEN "expired" ELSE ended[e]]
      /\ UNCHANGED <<claims, now, issued>>
      /\ first \in 1 .. Len(order) + 1
  BY <1>b, Zenon DEF PopUpTo
<1> HIDE DEF list
<1>2. /\ list \in Seq(issued) /\ Injective(list)
      /\ Range(list) = Range(pending) \cup Due(delayed)
      /\ Due(delayed) \subseteq DOMAIN delayed
      /\ Range(list) \subseteq stored /\ Range(list) \cap DOMAIN claims = {}
  BY <1>a, RedeliveredList, Zenon DEF list
<1>3. order \in Seq(issued) /\ Range(order) = Range(list) /\ Injective(order)
  BY <1>2, PopOrderList, Zenon
<1> HIDE DEF order
<1>4. /\ passed \in Seq(issued) /\ behind \in Seq(issued)
      /\ Range(order) = Range(passed) \cup taken \cup Range(behind)
      /\ Injective(passed) /\ Injective(behind)
      /\ Range(passed) \cap (taken \cup Range(behind)) = {} /\ taken \cap Range(behind) = {}
  BY <1>1, <1>3, SplitList, Zenon
<1>5. out = Range(passed) \cup taken /\ out \subseteq Range(list)
  BY <1>2, <1>3, <1>4, Zenon
<1> HIDE DEF passed, behind, taken, dead, out
<1>6. /\ left_over \in Seq(issued) /\ Range(left_over) = Range(behind) /\ Injective(left_over)
      /\ back \in Seq(issued) /\ Range(back) = {} /\ Injective(back)
  <2>1. /\ left_over \in Seq(issued) /\ Range(left_over) = Range(behind) \cap (Events \ out)
        /\ Injective(left_over)
        /\ back \in Seq(issued) /\ Range(back) = Range(passed) \cap DOMAIN claims /\ Injective(back)
    BY <1>4, KeepList
  <2>2. Range(behind) \subseteq Events \ out
    BY <1>2, <1>3, <1>4, <1>5, StoreFacts, Zenon DEF NoEventStranded, TypeOK
  <2>3. Range(passed) \cap DOMAIN claims = {}
    BY <1>2, <1>3, <1>4, Zenon
  <2> QED
    BY <2>1, <2>2, <2>3, Zenon
<1> HIDE DEF left_over, back
<1>7. pending' \in Seq(issued) /\ Injective(pending') /\ Range(pending') = Range(list) \ out
  <2>1. /\ left_over \o back \in Seq(issued) /\ Injective(left_over \o back)
        /\ Range(left_over \o back) = Range(behind)
    <3>1. Range(left_over) \cap Range(back) = {} /\ Range(left_over) \cup Range(back) = Range(behind)
      BY <1>6, Zenon
    <3>2. left_over \in Seq(issued) /\ back \in Seq(issued) /\ Injective(left_over) /\ Injective(back)
      BY <1>6, Zenon
    <3>3. \A a, b \in Seq(issued) :
             Injective(a) /\ Injective(b) /\ Range(a) \cap Range(b) = {}
                => /\ a \o b \in Seq(issued) /\ Injective(a \o b)
                   /\ Range(a \o b) = Range(a) \cup Range(b)
      BY ConcatSame
    <3> QED
      BY <3>1, <3>2, <3>3, Zenon
  <2>2. Range(behind) = Range(list) \ out
    BY <1>3, <1>4, <1>5, Zenon
  <2> QED
    BY <2>1, <2>2, <1>1, PopOrderList, Zenon
<1>8. /\ DOMAIN delayed' = DOMAIN delayed \ (Due(delayed) \cup out)
      /\ delayed' \in [DOMAIN delayed' -> Nat]
      /\ DOMAIN unclaimed' = DOMAIN unclaimed \ out /\ unclaimed' \in [DOMAIN unclaimed' -> Nat]
      /\ claim_deadlines' = claim_deadlines
  <2>1. DOMAIN claim_deadlines \ out = DOMAIN claim_deadlines
    BY <1>2, <1>5, Zenon DEF NoEventStranded, EventClaimsIndexed
  <2> QED
    BY <2>1, <1>1, Zenon DEF Without, NoEventStranded, TypeOK
<1>9. ended' \in [issued' \ stored' -> {"consumed", "expired", "cleared"}]
  <2>1. DOMAIN ended \cup (out \cap stored) = issued \ (stored \ out)
    BY <1>2, <1>5, StoreFacts, Zenon DEF NoEventStranded, TypeOK
  <2>2. \A e \in issued \ (stored \ out) : e \in DOMAIN ended \/ e \in taken \/ e \in dead
    BY <2>1, Zenon DEF out
  <2>3. \A e \in DOMAIN ended : ended[e] \in {"consumed", "expired", "cleared"}
    BY Zenon DEF NoEventStranded, TypeOK
  <2> QED
    BY <2>1, <2>2, <2>3, <1>1, Zenon
<1>10. TypeOK'
  BY <1>1, <1>7, <1>8, <1>9, StoreFacts, Zenon DEF NoEventStranded, TypeOK
<1>11. EventInOnePlace'
  BY <1>1, <1>2, <1>5, <1>7, <1>8, Zenon DEF NoEventStranded, EventInOnePlace
<1>12. EventClaimsIndexed' /\ LifetimeIndexed'
  BY <1>1, <1>2, <1>5, <1>8, Zenon DEF NoEventStranded, EventClaimsIndexed, LifetimeIndexed
<1> QED
  BY <1>10, <1>11, <1>12, Zenon DEF NoEventStranded

\* django_queue_claim: an event popped is claimed, or forgotten if its time is up.
LEMMA ClaimInv ==
    ASSUME NoEventStranded, NEW w \in Workers, NEW lease \in Leases, NEW got, Claim(w, lease, got)
    PROVE  NoEventStranded'
<1>a. PICK redelivered \in Ranged(delayed, Due(delayed)) :
        LET list == pending \o redelivered
            e == Popped(list, Stack)
        IN
        /\ IF list = <<>>
           THEN /\ delayed' = Without(delayed, Due(delayed))
                /\ UNCHANGED <<stored, pending, unclaimed, claims, claim_deadlines, ended>>
           ELSE IF e \notin DOMAIN unclaimed \/ unclaimed[e] <= now
           THEN /\ stored' = stored \ {e}
                /\ pending' = PopRest(list, Stack)
                /\ delayed' = Without(delayed, Due(delayed) \cup {e})
                /\ unclaimed' = Without(unclaimed, {e})
                /\ claim_deadlines' = Without(claim_deadlines, {e})
                /\ End({e} \cap stored, "expired")
                /\ UNCHANGED claims
           ELSE IF e \in DOMAIN claims
           THEN TRUE
           ELSE /\ pending' = PopRest(list, Stack)
                /\ delayed' = Without(delayed, Due(delayed))
                /\ unclaimed' = Without(unclaimed, {e})
                /\ claims' = Zadd(claims, e, [owner |-> w, deadline |-> now + lease,
                                              remaining |-> unclaimed[e] - now])
                /\ claim_deadlines' = Zadd(claim_deadlines, e, now + lease)
                /\ UNCHANGED <<stored, ended>>
        /\ UNCHANGED <<now, issued>>
  BY Zenon DEF Claim
<1> DEFINE list == pending \o redelivered
           e == Popped(list, Stack)
<1>1. /\ list \in Seq(issued) /\ Injective(list)
      /\ Range(list) = Range(pending) \cup Due(delayed)
      /\ Due(delayed) \subseteq DOMAIN delayed
      /\ Range(list) \subseteq stored /\ Range(list) \cap DOMAIN claims = {}
  BY <1>a, RedeliveredList, Zenon
<1>2. CASE list = <<>>
  <2>1. /\ delayed' = Without(delayed, Due(delayed))
        /\ UNCHANGED <<stored, pending, unclaimed, claims, claim_deadlines, ended, now, issued>>
    BY <1>2, <1>a, Zenon
  <2>2. Range(list) = {}
    BY <1>2 DEF Range
  <2>3. DOMAIN delayed' = DOMAIN delayed /\ delayed' \in [DOMAIN delayed' -> Nat]
    <3>1. Due(delayed) = {}
      BY <2>2, <1>1, Zenon
    <3>2. DOMAIN delayed \ Due(delayed) = DOMAIN delayed
      BY <3>1, Zenon
    <3> QED
      BY <2>1, <3>2, Zenon DEF Without, NoEventStranded, TypeOK
  <2> QED
    BY <2>1, <2>3, Zenon
    DEF NoEventStranded, TypeOK, EventInOnePlace, EventClaimsIndexed, LifetimeIndexed
<1>3. CASE list # <<>>
  <2> HIDE DEF list
  <2>1. /\ e \in issued /\ e \in Range(list) /\ PopRest(list, Stack) \in Seq(issued)
        /\ Injective(PopRest(list, Stack)) /\ Range(PopRest(list, Stack)) = Range(list) \ {e}
    BY <1>1, <1>3, PopList, EventConstantsOK, SMT, SMTT(30)
  <2>2. e \in stored /\ e \notin DOMAIN claims /\ e \in DOMAIN unclaimed /\ unclaimed[e] \in Nat
    BY <2>1, <1>1, Zenon DEF NoEventStranded, LifetimeIndexed, TypeOK
  <2>3. CASE unclaimed[e] <= now
    <3>1. /\ stored' = stored \ {e}
          /\ pending' = PopRest(list, Stack)
          /\ delayed' = Without(delayed, Due(delayed) \cup {e})
          /\ unclaimed' = Without(unclaimed, {e})
          /\ claim_deadlines' = Without(claim_deadlines, {e})
          /\ End({e} \cap stored, "expired")
          /\ UNCHANGED <<claims, now, issued>>
      BY <1>a, <1>3, <2>3, Zenon DEF list
    <3> HIDE DEF e
    <3>2. /\ DOMAIN delayed' = DOMAIN delayed \ (Due(delayed) \cup {e})
          /\ delayed' \in [DOMAIN delayed' -> Nat]
          /\ DOMAIN unclaimed' = DOMAIN unclaimed \ {e} /\ unclaimed' \in [DOMAIN unclaimed' -> Nat]
          /\ claim_deadlines' = claim_deadlines
      <4>1. DOMAIN claim_deadlines \ {e} = DOMAIN claim_deadlines
        BY <2>2, Zenon DEF NoEventStranded, EventClaimsIndexed
      <4> QED
        BY <4>1, <3>1, Zenon DEF Without, NoEventStranded, TypeOK
    <3>3. ended' \in [issued' \ stored' -> {"consumed", "expired", "cleared"}]
      BY <3>1, <2>1, <2>2, Zenon DEF End, NoEventStranded, TypeOK
    <3>4. TypeOK'
      BY <3>1, <3>2, <3>3, <2>1, ZenonT(30) DEF NoEventStranded, TypeOK
    <3>5. EventInOnePlace'
      <4>1. Range(pending') = (Range(pending) \cup Due(delayed)) \ {e} /\ Injective(pending')
        BY <3>1, <2>1, <1>1, Zenon
      <4>2. DOMAIN claims' = DOMAIN claims /\ DOMAIN delayed' = DOMAIN delayed \ (Due(delayed) \cup {e})
        BY <3>1, <3>2, Zenon
      <4> QED
        BY <4>1, <4>2, <3>1, <2>2, <1>1, SMT, SMTT(30) DEF NoEventStranded, EventInOnePlace
    <3>6. EventClaimsIndexed' /\ LifetimeIndexed'
      BY <3>1, <3>2, <2>2, Zenon DEF NoEventStranded, EventClaimsIndexed, LifetimeIndexed
    <3> QED
      BY <3>4, <3>5, <3>6, Zenon DEF NoEventStranded
  <2>4. CASE ~(unclaimed[e] <= now)
    <3> DEFINE claim == [owner |-> w, deadline |-> now + lease, remaining |-> unclaimed[e] - now]
    <3>1. /\ pending' = PopRest(list, Stack)
          /\ delayed' = Without(delayed, Due(delayed))
          /\ unclaimed' = Without(unclaimed, {e})
          /\ claims' = Zadd(claims, e, claim)
          /\ claim_deadlines' = Zadd(claim_deadlines, e, now + lease)
          /\ UNCHANGED <<stored, ended, now, issued>>
      BY <1>a, <1>3, <2>2, <2>4, Zenon DEF list
    <3>2. claim \in [owner : Workers, deadline : Nat, remaining : Nat \ {0}] /\ now + lease \in Nat
      BY <2>2, <2>4, StoreFacts, EventConstantsOK
    <3>3. claim.deadline = now + lease
      BY Zenon
    <3> HIDE DEF e, claim
    <3>4. /\ DOMAIN delayed' = DOMAIN delayed \ Due(delayed)
          /\ delayed' \in [DOMAIN delayed' -> Nat]
          /\ DOMAIN unclaimed' = DOMAIN unclaimed \ {e} /\ unclaimed' \in [DOMAIN unclaimed' -> Nat]
      BY <3>1, Zenon DEF Without, NoEventStranded, TypeOK
    <3>5. /\ DOMAIN claims' = DOMAIN claims \cup {e}
          /\ DOMAIN claim_deadlines' = DOMAIN claim_deadlines \cup {e}
          /\ \A f \in DOMAIN claims' :
                 /\ claims'[f] = IF f = e THEN claim ELSE claims[f]
                 /\ claim_deadlines'[f] = IF f = e THEN now + lease ELSE claim_deadlines[f]
      BY <3>1, Zenon DEF Zadd, NoEventStranded, EventClaimsIndexed
    <3>6. /\ claims' \in [DOMAIN claims' -> [owner : Workers, deadline : Nat, remaining : Nat \ {0}]]
          /\ claim_deadlines' \in [DOMAIN claim_deadlines' -> Nat]
      BY <3>1, <3>2, Zenon DEF Zadd, NoEventStranded, TypeOK
    <3>7. TypeOK'
      BY <3>1, <3>4, <3>6, <2>1, Zenon DEF NoEventStranded, TypeOK
    <3>8. EventInOnePlace'
      BY <3>1, <3>4, <3>5, <2>1, <2>2, <1>1, SMT, SMTT(30) DEF NoEventStranded, EventInOnePlace
    <3>9. EventClaimsIndexed' /\ LifetimeIndexed'
      BY <3>1, <3>3, <3>4, <3>5, <2>2, Zenon DEF NoEventStranded, EventClaimsIndexed, LifetimeIndexed
    <3> QED
      BY <3>7, <3>8, <3>9, Zenon DEF NoEventStranded
  <2> QED
    BY <2>3, <2>4, Zenon
<1> QED
  BY <1>2, <1>3, Zenon

\* django_queue_renew: the key and the ZSET move together.
LEMMA RenewInv ==
    ASSUME NoEventStranded, NEW w, NEW e, NEW lease \in Leases, Renew(w, e, lease)
    PROVE  NoEventStranded'
<1>1. now + lease \in Nat /\ e \in DOMAIN claims /\ e \in DOMAIN claim_deadlines
  BY StoreFacts, EventConstantsOK
  DEF Renew, CanRenew, Owns, NoEventStranded, EventClaimsIndexed
<1>2. /\ claims' = [claims EXCEPT ![e].deadline = now + lease]
      /\ claim_deadlines' = Zadd(claim_deadlines, e, now + lease)
      /\ UNCHANGED <<stored, pending, delayed, unclaimed, now, issued, ended>>
  BY Zenon DEF Renew
<1>3. DOMAIN claims' = DOMAIN claims /\ DOMAIN claim_deadlines' = DOMAIN claim_deadlines
  BY <1>1, <1>2, Zenon DEF Zadd
<1>4. TypeOK'
  BY <1>1, <1>2, <1>3, ZenonT(30) DEF Zadd, NoEventStranded, TypeOK
<1>5. EventClaimsIndexed'
  BY <1>1, <1>2, <1>3, Zenon DEF Zadd, NoEventStranded, EventClaimsIndexed, TypeOK
<1>6. EventInOnePlace' /\ LifetimeIndexed'
  BY <1>2, <1>3, Zenon DEF NoEventStranded, EventInOnePlace, LifetimeIndexed
<1> QED
  BY <1>4, <1>5, <1>6, Zenon DEF NoEventStranded

\* django_queue_release: the claim goes, the deadline and the due time come.
LEMMA ReleaseInv ==
    ASSUME NoEventStranded, NEW w, NEW e, NEW delay \in Delays, Release(w, e, delay)
    PROVE  NoEventStranded'
<1>1. e \in DOMAIN claims /\ e \in stored /\ e \notin DOMAIN delayed /\ e \notin Range(pending)
  BY StoreFacts, Zenon DEF Release, ReleaseUntil, Owns, NoEventStranded, EventInOnePlace
<1>2. now + delay \in Nat /\ now + claims[e].remaining \in Nat
  <2>1. now \in Nat /\ delay \in Nat
    BY StoreFacts, EventConstantsOK, Zenon
  <2>2. claims[e].remaining \in Nat
    BY <1>1, Zenon DEF NoEventStranded, TypeOK
  <2> QED BY <2>1, <2>2
<1>3. /\ claims' = Without(claims, {e})
      /\ claim_deadlines' = Without(claim_deadlines, {e})
      /\ delayed' = Zadd(delayed, e, now + delay)
      /\ unclaimed' = Zadd(unclaimed, e, now + claims[e].remaining)
      /\ UNCHANGED <<stored, pending, now, issued, ended>>
  BY Zenon DEF Release, ReleaseUntil
<1>4. /\ DOMAIN claims' = DOMAIN claims \ {e}
      /\ DOMAIN claim_deadlines' = DOMAIN claim_deadlines \ {e}
      /\ DOMAIN delayed' = DOMAIN delayed \cup {e}
      /\ DOMAIN unclaimed' = DOMAIN unclaimed \cup {e}
      /\ \A f \in DOMAIN claims' : claims'[f] = claims[f]
      /\ \A f \in DOMAIN claim_deadlines' : claim_deadlines'[f] = claim_deadlines[f]
  BY <1>3, Zenon DEF Without, Zadd
<1>5. TypeOK'
  <2>1. claims' \in [DOMAIN claims' -> [owner : Workers, deadline : Nat, remaining : Nat \ {0}]]
    BY <1>3, Zenon DEF Without, NoEventStranded, TypeOK
  <2>2. /\ claim_deadlines' \in [DOMAIN claim_deadlines' -> Nat]
        /\ delayed' \in [DOMAIN delayed' -> Nat] /\ unclaimed' \in [DOMAIN unclaimed' -> Nat]
    BY <1>2, <1>3, Zenon DEF Without, Zadd, NoEventStranded, TypeOK
  <2> QED
    BY <2>1, <2>2, <1>1, <1>3, <1>4, StoreFacts, ZenonT(30) DEF NoEventStranded, TypeOK
<1>6. EventInOnePlace'
  BY <1>1, <1>3, <1>4, SMT, SMTT(30) DEF NoEventStranded, EventInOnePlace
<1>7. EventClaimsIndexed'
  BY <1>3, <1>4, Zenon DEF NoEventStranded, EventClaimsIndexed
<1>8. LifetimeIndexed'
  BY <1>1, <1>3, <1>4, Zenon DEF NoEventStranded, LifetimeIndexed
<1> QED
  BY <1>5, <1>6, <1>7, <1>8, Zenon DEF NoEventStranded

\* What remove, expire and delete do to the keys: no key knows the event.
LEMMA ForgetInv ==
    ASSUME NoEventStranded, NEW e, NEW how \in {"consumed", "expired", "cleared"},
           Forget(e, how), claims' = Without(claims, {e})
    PROVE  NoEventStranded'
<1>1. /\ stored' = stored \ {e}
      /\ pending' = Lrem(pending, e)
      /\ delayed' = Without(delayed, {e})
      /\ claim_deadlines' = Without(claim_deadlines, {e})
      /\ unclaimed' = Without(unclaimed, {e})
      /\ End({e} \cap stored, how)
      /\ UNCHANGED <<now, issued>>
  BY Zenon DEF Forget
<1>2. /\ pending' \in Seq(issued) /\ Injective(pending') /\ Range(pending') = Range(pending) \ {e}
  BY <1>1, StoreFacts, LremList, Zenon
<1>3. /\ DOMAIN claims' = DOMAIN claims \ {e}
      /\ DOMAIN claim_deadlines' = DOMAIN claim_deadlines \ {e}
      /\ DOMAIN delayed' = DOMAIN delayed \ {e}
      /\ DOMAIN unclaimed' = DOMAIN unclaimed \ {e}
      /\ \A f \in DOMAIN claims' : claims'[f] = claims[f]
      /\ \A f \in DOMAIN claim_deadlines' : claim_deadlines'[f] = claim_deadlines[f]
  BY <1>1, Zenon DEF Without
<1>4. ended' \in [issued' \ stored' -> {"consumed", "expired", "cleared"}]
  BY <1>1, StoreFacts, Zenon DEF End, NoEventStranded, TypeOK
<1>5. TypeOK'
  <2>1. claims' \in [DOMAIN claims' -> [owner : Workers, deadline : Nat, remaining : Nat \ {0}]]
    BY Zenon DEF Without, NoEventStranded, TypeOK
  <2>2. /\ claim_deadlines' \in [DOMAIN claim_deadlines' -> Nat]
        /\ delayed' \in [DOMAIN delayed' -> Nat] /\ unclaimed' \in [DOMAIN unclaimed' -> Nat]
    BY <1>1, Zenon DEF Without, NoEventStranded, TypeOK
  <2> QED
    BY <2>1, <2>2, <1>1, <1>2, <1>3, <1>4, Zenon DEF NoEventStranded, TypeOK
<1>6. EventInOnePlace'
  BY <1>1, <1>2, <1>3, Zenon DEF NoEventStranded, EventInOnePlace
<1>7. EventClaimsIndexed' /\ LifetimeIndexed'
  BY <1>1, <1>3, Zenon DEF NoEventStranded, EventClaimsIndexed, LifetimeIndexed
<1> QED
  BY <1>5, <1>6, <1>7, Zenon DEF NoEventStranded

\* django_queue_remove
LEMMA RemoveInv ==
    ASSUME NoEventStranded, NEW w, NEW e, Remove(w, e)
    PROVE  NoEventStranded'
  BY ForgetInv, Zenon DEF Remove

\* django_queue_delete
LEMMA DeleteInv ==
    ASSUME NoEventStranded, NEW e, Delete(e)
    PROVE  NoEventStranded'
  BY ForgetInv, Zenon DEF Delete

\* django_queue_expire: there is no claim to end.
LEMMA ExpireInv ==
    ASSUME NoEventStranded, NEW e, Expire(e)
    PROVE  NoEventStranded'
<1>1. claims' = claims /\ DOMAIN claims \ {e} = DOMAIN claims
  BY Zenon DEF Expire
<1>2. claims' = Without(claims, {e})
  BY <1>1, Zenon DEF Without, NoEventStranded, TypeOK
<1> QED
  BY <1>2, ForgetInv, Zenon DEF Expire

\* django_queue_recover: the events of the claims that have run out become
\* pending again, with the lifetime that was left when they were claimed.
LEMMA RecoverInv == ASSUME NoEventStranded, Recover PROVE NoEventStranded'
<1> DEFINE Gone(batch) == {e \in batch : e \notin DOMAIN claims \/ claims[e].deadline <= now}
<1>a. PICK batch \in FirstDue(claim_deadlines, Batch) :
        /\ \E list \in Ranged(claim_deadlines, Gone(batch) \cap stored) : pending' = pending \o list
        /\ unclaimed' = Resumed((Gone(batch) \cap stored) \cap DOMAIN claims)
        /\ claims' = Without(claims, Gone(batch))
        /\ claim_deadlines' = [e \in DOMAIN claim_deadlines \ Gone(batch) |->
               IF e \in batch THEN claims[e].deadline ELSE claim_deadlines[e]]
        /\ UNCHANGED <<stored, delayed, now, issued, ended>>
  BY Zenon DEF Recover
<1> DEFINE gone == Gone(batch)
<1>1. gone \subseteq DOMAIN claims /\ batch \subseteq DOMAIN claims
  BY Zenon DEF FirstDue, Due, DueAt, NoEventStranded, EventClaimsIndexed
<1>2. (gone \cap stored) = gone /\ (gone \cap stored) \cap DOMAIN claims = gone
  BY <1>1, StoreFacts, Zenon
<1> HIDE DEF gone
<1>3. /\ unclaimed' = Resumed(gone)
      /\ claims' = Without(claims, gone)
      /\ claim_deadlines' = [e \in DOMAIN claim_deadlines \ gone |->
             IF e \in batch THEN claims[e].deadline ELSE claim_deadlines[e]]
      /\ UNCHANGED <<stored, delayed, now, issued, ended>>
  BY <1>a, <1>2, Zenon DEF gone
<1>b. PICK list \in Ranged(claim_deadlines, gone) : pending' = pending \o list
  BY <1>a, <1>2, Zenon DEF gone
<1>4. list \in Seq(gone) /\ Range(list) = gone /\ Injective(list)
  <2>1. IsFiniteSet(gone) /\ gone \subseteq Nat
    <3>1. gone \subseteq issued
      BY <1>1, StoreFacts, Zenon
    <3> QED
      BY <3>1, StoreFacts, FS_Subset, Zenon
  <2>2. \A e \in gone : claim_deadlines[e] \in Nat
    BY <1>1, Zenon DEF NoEventStranded, TypeOK, EventClaimsIndexed
  <2> QED
    BY <1>b, <2>1, <2>2, RangedList, Zenon
<1>5. pending' \in Seq(issued) /\ Injective(pending') /\ Range(pending') = Range(pending) \cup gone
  <2>1. issued \cup gone = issued /\ Range(pending) \cap gone = {}
    BY <1>1, StoreFacts, Zenon DEF NoEventStranded, EventInOnePlace
  <2> QED
    BY <1>b, <1>4, <2>1, StoreFacts, ConcatLists, SMT, SMTT(30)
<1>6. /\ DOMAIN claims' = DOMAIN claims \ gone
      /\ DOMAIN claim_deadlines' = DOMAIN claim_deadlines \ gone
      /\ DOMAIN unclaimed' = DOMAIN unclaimed \cup gone
      /\ \A e \in DOMAIN claims' : claims'[e] = claims[e]
  BY <1>3, Zenon DEF Without, Resumed
<1>7. TypeOK'
  <2>1. claims' \in [DOMAIN claims' -> [owner : Workers, deadline : Nat, remaining : Nat \ {0}]]
    BY <1>3, Zenon DEF Without, NoEventStranded, TypeOK
  <2>2. \A e \in DOMAIN claims : claims[e].deadline \in Nat /\ now + claims[e].remaining \in Nat
    BY StoreFacts, SMT, SMTT(30) DEF NoEventStranded, TypeOK
  <2>3. claim_deadlines' \in [DOMAIN claim_deadlines' -> Nat]
    BY <1>1, <1>3, <2>2, Zenon DEF NoEventStranded, TypeOK
  <2>4. unclaimed' \in [DOMAIN unclaimed' -> Nat] /\ DOMAIN unclaimed' \subseteq issued
    BY <1>1, <1>3, <2>2, StoreFacts, Zenon DEF Resumed, NoEventStranded, TypeOK
  <2> QED
    BY <2>1, <2>3, <2>4, <1>3, <1>5, Zenon DEF NoEventStranded, TypeOK
<1>8. EventInOnePlace'
  BY <1>1, <1>3, <1>5, <1>6, Zenon DEF NoEventStranded, EventInOnePlace
<1>9. EventClaimsIndexed'
  BY <1>1, <1>3, <1>6, Zenon DEF NoEventStranded, EventClaimsIndexed
<1>10. LifetimeIndexed'
  BY <1>1, <1>3, <1>6, StoreFacts, Zenon DEF NoEventStranded, LifetimeIndexed
<1> QED
  BY <1>7, <1>8, <1>9, <1>10, Zenon DEF NoEventStranded

-------------------------------------------------------------------------------
\* The invariant holds of an empty store.
LEMMA InitInv == Init => NoEventStranded
<1> SUFFICES ASSUME Init PROVE NoEventStranded
  BY Zenon
<1>1. Range(pending) = {} /\ Injective(pending) /\ IsFiniteSet(issued)
  BY FS_EmptySet DEF Init, Range, Injective
<1> QED
  BY <1>1
  DEF Init, NoEventStranded, TypeOK, EventInOnePlace, EventClaimsIndexed, LifetimeIndexed

\* Every Function preserves it, and so does the passing of time.
LEMMA NextInv == NoEventStranded /\ [Next]_vars => NoEventStranded'
<1> SUFFICES ASSUME NoEventStranded, [Next]_vars PROVE NoEventStranded'
  BY Zenon
<1>1. ASSUME NEW e \in Events, NEW life \in Lifetimes, StoreEventAndPush(e, life)
      PROVE  NoEventStranded'
  BY <1>1, StoreEventAndPushInv, Zenon
<1>2. ASSUME NEW got \in Events \cup {NoEvent}, DequeueEvent(got) PROVE NoEventStranded'
  BY <1>2, DequeueEventInv, Zenon
<1>3. ASSUME NEW w \in Workers, WorkerCall(w) PROVE NoEventStranded'
  <2>1. ASSUME NEW lease \in Leases, NEW got \in Events \cup {NoEvent}, Claim(w, lease, got)
        PROVE  NoEventStranded'
    BY <2>1, ClaimInv, Zenon
  <2>2. ASSUME NEW e \in Events, NEW lease \in Leases, Renew(w, e, lease) PROVE NoEventStranded'
    BY <2>2, RenewInv, Zenon
  <2>3. ASSUME NEW e \in Events, NEW delay \in Delays, Release(w, e, delay) PROVE NoEventStranded'
    BY <2>3, ReleaseInv, Zenon
  <2>4. ASSUME NEW e \in Events, Remove(w, e) PROVE NoEventStranded'
    BY <2>4, RemoveInv, Zenon
  <2> QED
    BY <1>3, <2>1, <2>2, <2>3, <2>4, Zenon DEF WorkerCall
<1>4. ASSUME Recover PROVE NoEventStranded'
  BY <1>4, RecoverInv, Zenon
<1>5. ASSUME NEW e \in Events, Expire(e) PROVE NoEventStranded'
  BY <1>5, ExpireInv, Zenon
<1>6. ASSUME NEW e \in issued, Delete(e) PROVE NoEventStranded'
  BY <1>6, DeleteInv, Zenon
<1>7. ASSUME Tick \/ UNCHANGED vars PROVE NoEventStranded'
  <2>1. UNCHANGED <<stored, pending, delayed, unclaimed, claims, claim_deadlines, issued, ended>>
    BY <1>7, Zenon DEF Tick, vars, store
  <2>2. now' \in Nat
    BY <1>7, StoreFacts DEF Tick, vars
  <2> QED
    BY <2>1, <2>2, Zenon
    DEF NoEventStranded, TypeOK, EventInOnePlace, EventClaimsIndexed, LifetimeIndexed
<1> QED
  BY <1>1, <1>2, <1>3, <1>4, <1>5, <1>6, <1>7, Zenon DEF Next

\* The keys of the store always agree (the event Functions of library.lua called
\* by any number of workers, consumers and producers in any order): every event
\* with a record is in one place, every claim is watched by recovery, and every
\* unclaimed event by expiry.
THEOREM EventsAreNotStranded == Spec => []NoEventStranded
  BY InitInv, NextInv, PTL DEF Spec

\* While a lease runs only its owner, or a clear of the queue, takes the event.
THEOREM EventLeasesAreHonoured == Spec => AlwaysEventLeaseHonoured
<1>1. NoEventStranded /\ NoEventStranded' /\ [Next]_vars => [EventLeaseHonoured]_vars
  <2> SUFFICES ASSUME NoEventStranded, NoEventStranded', Next, NEW e \in DOMAIN claims, claims[e].deadline > now
               PROVE  \/ e \in DOMAIN claims' /\ claims'[e].owner = claims[e].owner /\ e \in stored'
                      \/ \E delay \in Delays : Release(claims[e].owner, e, delay)
                      \/ Remove(claims[e].owner, e)
                      \/ Delete(e)
    BY Zenon DEF EventLeaseHonoured
  <2> DEFINE kept == e \in DOMAIN claims' /\ claims'[e].owner = claims[e].owner
  <2>0. e \in DOMAIN claims' => e \in stored'
    BY Zenon DEF NoEventStranded, EventInOnePlace
  <2>1. claims' = claims => kept
    BY Zenon
  <2>2. ASSUME NEW w \in Workers, NEW lease \in Leases, NEW got \in Events \cup {NoEvent},
               Claim(w, lease, got)
        PROVE  kept
    <3>1. claims' = claims \/ \E c : got \notin DOMAIN claims /\ claims' = Zadd(claims, got, c)
      BY <2>2, Zenon DEF Claim
    <3> QED
      BY <3>1, Zenon DEF Zadd
  <2>3. ASSUME NEW w \in Workers, NEW f \in Events, NEW lease \in Leases, Renew(w, f, lease)
        PROVE  kept
    BY <2>3 DEF Renew, CanRenew, Owns, Zadd
  <2>4. ASSUME NEW w \in Workers, NEW f \in Events, NEW delay \in Delays, Release(w, f, delay)
        PROVE  kept \/ (f = e /\ w = claims[e].owner)
    BY <2>4, Zenon DEF Release, ReleaseUntil, Owns, Without
  <2>5. ASSUME NEW w \in Workers, NEW f \in Events, Remove(w, f)
        PROVE  kept \/ (f = e /\ w = claims[e].owner)
    BY <2>5, Zenon DEF Remove, Owns, Without
  <2>6. ASSUME NEW f, Delete(f) PROVE kept \/ f = e
    BY <2>6, Zenon DEF Delete, Without
  <2>7. ASSUME Recover PROVE kept
    <3>1. PICK gone : claims' = Without(claims, gone) /\ e \notin gone
      <4>1. PICK batch : claims' = Without(claims,
                {f \in batch : f \notin DOMAIN claims \/ claims[f].deadline <= now})
        BY <2>7, Zenon DEF Recover
      <4>2. e \notin {f \in batch : f \notin DOMAIN claims \/ claims[f].deadline <= now}
        BY StoreFacts, SMT, SMTT(30) DEF NoEventStranded, TypeOK
      <4> QED
        BY <4>1, <4>2, Zenon
    <3> QED
      BY <3>1, Zenon DEF Without
  <2>8. ASSUME NEW w \in Workers, WorkerCall(w)
        PROVE  \/ kept
               \/ \E delay \in Delays : Release(claims[e].owner, e, delay)
               \/ Remove(claims[e].owner, e)
    BY <2>8, <2>2, <2>3, <2>4, <2>5, Zenon DEF WorkerCall
  <2>9. ASSUME ~(\E w \in Workers : WorkerCall(w)), ~Recover, ~(\E f \in issued : Delete(f))
        PROVE  claims' = claims
    BY <2>9, ZenonT(30) DEF Next, StoreEventAndPush, DequeueEvent, PopUpTo, Expire, Tick, store
  <2> QED
    BY <2>0, <2>1, <2>6, <2>7, <2>8, <2>9, Zenon
<1> QED
  BY <1>1, EventsAreNotStranded, PTL DEF Spec, AlwaysEventLeaseHonoured

-------------------------------------------------------------------------------
\* The refinement of EventLifetime.

\* Where the refinement mapping puts each event.
Mapped ==
    \A e \in Events :
        /\ e \notin issued => state[e] = "new" /\ left[e] = 0
        /\ e \in issued \ stored => state[e] = ended[e] /\ left[e] = 0
        /\ e \in DOMAIN claims => state[e] = "claimed" /\ left[e] = claims[e].remaining
        /\ e \in stored \ DOMAIN claims => state[e] = "available" /\ left[e] = unclaimed[e] - now

\* The mapping is the one that Mapped spells out.
LEMMA MappedFacts == NoEventStranded => Mapped
<1> SUFFICES ASSUME NoEventStranded, NEW e \in Events
             PROVE  /\ e \notin issued => state[e] = "new" /\ left[e] = 0
                    /\ e \in issued \ stored => state[e] = ended[e] /\ left[e] = 0
                    /\ e \in DOMAIN claims => state[e] = "claimed" /\ left[e] = claims[e].remaining
                    /\ e \in stored \ DOMAIN claims => state[e] = "available" /\ left[e] = unclaimed[e] - now
  BY Zenon DEF Mapped
<1>1. /\ DOMAIN ended = issued \ stored /\ DOMAIN unclaimed = stored \ DOMAIN claims
      /\ DOMAIN claims \subseteq stored /\ stored \subseteq issued
  BY StoreFacts, Zenon DEF NoEventStranded, TypeOK, LifetimeIndexed
<1> QED
  BY <1>1, Zenon DEF state, left

\* The mapped state and lifetime have their types.
LEMMA MappedType ==
    NoEventStranded => state \in [Events -> Lifetime!States] /\ left \in [Events -> Int]
<1> SUFFICES ASSUME NoEventStranded
             PROVE  state \in [Events -> Lifetime!States] /\ left \in [Events -> Int]
  BY Zenon
<1>1. ASSUME NEW e \in Events PROVE state[e] \in Lifetime!States /\ left[e] \in Int
  <2>1. /\ e \in DOMAIN ended => ended[e] \in {"consumed", "expired", "cleared"}
        /\ e \in DOMAIN claims => claims[e].remaining \in Int
        /\ e \in DOMAIN unclaimed => unclaimed[e] - now \in Int
    BY DEF NoEventStranded, TypeOK
  <2> QED
    BY <2>1 DEF state, left, Lifetime!States
<1> QED
  BY <1>1, Zenon DEF state, left

\* What a call may do to one event.
Moves(e) == state'[e] \in Lifetime!Follow(e) /\ left'[e] \in Lifetime!LeftAfter(e, state'[e])

\* A step that changes neither the issue, the claim, the deadline nor the end of
\* an event leaves it where it is.
LEMMA Unmoved ==
    ASSUME Mapped, Mapped', NoEventStranded, NoEventStranded', now' = now, NEW e \in Events,
           e \in issued' <=> e \in issued, e \in stored' <=> e \in stored,
           e \in DOMAIN claims' <=> e \in DOMAIN claims,
           e \in DOMAIN claims => claims'[e].remaining = claims[e].remaining,
           e \in stored \ DOMAIN claims => unclaimed'[e] = unclaimed[e],
           e \in issued \ stored => ended'[e] = ended[e]
    PROVE  Moves(e)
<1>1. e \in DOMAIN claims => e \in stored
  BY StoreFacts, Zenon
<1>2. e \in stored => e \in issued
  BY StoreFacts, Zenon
<1>3. state'[e] = state[e] /\ left'[e] = left[e]
  BY <1>1, <1>2, SMT, SMTT(30) DEF Mapped
<1>4. state[e] \in Lifetime!Ended => left[e] = 0
  BY <1>1, <1>2, Zenon DEF Mapped, Lifetime!Ended
<1> QED
  BY <1>3, <1>4, Zenon DEF Moves, Lifetime!Follow, Lifetime!LeftAfter

\* An event that leaves the store: expired when its lifetime is used up, consumed
\* from a claim or while some of it is left.
LEMMA Ends ==
    ASSUME Mapped, Mapped', NoEventStranded, NoEventStranded', NEW e \in Events,
           e \in stored, e \in issued', e \notin stored',
           \/ ended'[e] = "cleared"
           \/ ended'[e] = "expired" /\ e \notin DOMAIN claims /\ unclaimed[e] <= now
           \/ ended'[e] = "consumed" /\ (e \in DOMAIN claims \/ unclaimed[e] > now)
    PROVE  Moves(e)
<1>1. state'[e] = ended'[e] /\ left'[e] = 0
  BY Zenon DEF Mapped
<1>2. CASE e \in DOMAIN claims
  BY <1>1, <1>2, Zenon DEF Mapped, Moves, Lifetime!Follow, Lifetime!LeftAfter, Lifetime!Ended
<1>3. CASE e \notin DOMAIN claims
  <2>1. state[e] = "available" /\ left[e] = unclaimed[e] - now
    BY <1>3, Zenon DEF Mapped
  <2>2. unclaimed[e] \in Nat /\ now \in Nat
    BY <1>3, Zenon DEF NoEventStranded, TypeOK, LifetimeIndexed
  <2>3. (unclaimed[e] <= now <=> left[e] <= 0) /\ (unclaimed[e] > now <=> left[e] > 0)
    BY <2>1, <2>2
  <2> QED
    BY <1>1, <1>3, <2>1, <2>3, Zenon DEF Moves, Lifetime!Follow, Lifetime!LeftAfter, Lifetime!Ended
<1> QED
  BY <1>2, <1>3, Zenon

\* django_queue_dequeue_event hands out a live event and drops only dead ones.
LEMMA DequeueEventMoves ==
    ASSUME Mapped, Mapped', NoEventStranded, NoEventStranded', NEW got, DequeueEvent(got),
           NEW e \in Events
    PROVE  Moves(e)
<1>a. PICK redelivered \in Ranged(delayed, Due(delayed)) :
        \E first \in 1 .. Len(PopOrder(pending \o redelivered)) + 1 :
            PopUpTo(PopOrder(pending \o redelivered), first, got)
  BY Zenon DEF DequeueEvent
<1> DEFINE list == pending \o redelivered
           order == PopOrder(list)
<1>b. PICK first \in 1 .. Len(order) + 1 : PopUpTo(order, first, got)
  BY <1>a, Zenon
<1> DEFINE passed == SubSeq(order, 1, first - 1)
           dead == Range(passed) \ DOMAIN claims
           taken == IF first > Len(order) THEN {} ELSE {order[first]}
           out == dead \cup taken
<1>1. /\ stored' = stored \ out
      /\ unclaimed' = Without(unclaimed, out)
      /\ ended' = [f \in DOMAIN ended \cup (out \cap stored) |->
             IF f \in taken THEN "consumed" ELSE IF f \in dead THEN "expired" ELSE ended[f]]
      /\ UNCHANGED <<claims, now, issued>>
      /\ first <= Len(order) => Alive(order[first])
      /\ \A i \in 1 .. first - 1 : ~Alive(order[i])
      /\ first \in 1 .. Len(order) + 1
  BY <1>b, ZenonT(30) DEF PopUpTo
<1> HIDE DEF list
<1>2. /\ list \in Seq(issued) /\ Range(list) \subseteq stored /\ Range(list) \cap DOMAIN claims = {}
  BY <1>a, RedeliveredList, Zenon DEF list
<1>3. order \in Seq(issued) /\ Range(order) = Range(list)
  BY <1>2, PopOrderList, Zenon
<1> HIDE DEF order
<1>4. DOMAIN unclaimed = stored \ DOMAIN claims /\ DOMAIN ended = issued \ stored /\ stored \subseteq issued
  BY StoreFacts, Zenon DEF NoEventStranded, LifetimeIndexed, TypeOK
<1>5. \A f \in taken : f \in stored /\ unclaimed[f] > now
  <2> SUFFICES ASSUME NEW f \in taken PROVE f \in stored /\ unclaimed[f] > now
    BY Zenon
  <2>1. first <= Len(order) /\ f = order[first]
    BY <1>1, <1>3, SMT, SMTT(30)
  <2> QED
    BY <2>1, <1>1, Zenon DEF Alive
<1>6. \A f \in dead : f \in stored /\ f \notin DOMAIN claims /\ unclaimed[f] <= now
  <2> SUFFICES ASSUME NEW f \in dead PROVE f \in stored /\ f \notin DOMAIN claims /\ unclaimed[f] <= now
    BY Zenon
  <2>1. PICK i \in 1 .. first - 1 : f = order[i] /\ i \in DOMAIN order
    <3>1. DOMAIN passed = 1 .. first - 1 /\ \A i \in 1 .. first - 1 : passed[i] = order[i] /\ i \in DOMAIN order
      BY <1>1, <1>3
    <3> QED
      BY <3>1, Zenon DEF Range
  <2>2. f \in stored /\ f \notin DOMAIN claims
    BY <2>1, <1>2, <1>3, Zenon DEF Range
  <2>3. ~(unclaimed[f] > now)
    BY <2>1, <2>2, <1>1, <1>4, Zenon DEF Alive
  <2>4. unclaimed[f] \in Nat /\ now \in Nat
    BY <2>2, <1>4, Zenon DEF NoEventStranded, TypeOK
  <2> QED
    BY <2>2, <2>3, <2>4, SMT, SMTT(30)
<1> HIDE DEF taken, dead
<1>7. CASE e \in out
  <2>1. e \in stored /\ e \notin stored' /\ e \in issued' /\ e \in DOMAIN ended \cup (out \cap stored)
    BY <1>1, <1>4, <1>5, <1>6, <1>7, Zenon
  <2>2. CASE e \in taken
    <3>1. ended'[e] = "consumed" /\ unclaimed[e] > now
      BY <2>1, <2>2, <1>1, <1>5, ZenonT(30)
    <3> QED
      BY <2>1, <3>1, Ends, Zenon
  <2>3. CASE e \notin taken
    <3>1. ended'[e] = "expired" /\ unclaimed[e] <= now /\ e \notin DOMAIN claims
      BY <2>1, <2>3, <1>1, <1>6, <1>7, Zenon
    <3> QED
      BY <2>1, <3>1, Ends, Zenon
  <2> QED
    BY <2>2, <2>3, Zenon
<1>8. CASE e \notin out
  <2>1. /\ e \in stored' <=> e \in stored
        /\ e \in stored \ DOMAIN claims => unclaimed'[e] = unclaimed[e]
        /\ e \in issued \ stored => ended'[e] = ended[e]
    BY <1>1, <1>4, <1>8, Zenon DEF Without
  <2> QED
    BY <2>1, <1>1, Unmoved, Zenon
<1> QED
  BY <1>7, <1>8, Zenon

\* django_queue_claim stops the lifetime of a live event and drops a dead one.
LEMMA ClaimMoves ==
    ASSUME Mapped, Mapped', NoEventStranded, NoEventStranded', NEW w, NEW lease, NEW got,
           Claim(w, lease, got), NEW e \in Events
    PROVE  Moves(e)
<1>1. DOMAIN unclaimed = stored \ DOMAIN claims /\ DOMAIN ended = issued \ stored /\ stored \subseteq issued
  BY StoreFacts, Zenon DEF NoEventStranded, LifetimeIndexed, TypeOK
<1>2. \/ UNCHANGED <<stored, unclaimed, claims, ended, now, issued>>
      \/ \E f \in stored \ DOMAIN claims :
            /\ unclaimed[f] <= now /\ stored' = stored \ {f} /\ unclaimed' = Without(unclaimed, {f})
            /\ End({f} \cap stored, "expired") /\ UNCHANGED <<claims, now, issued>>
      \/ \E f \in stored \ DOMAIN claims :
            /\ unclaimed[f] > now /\ unclaimed' = Without(unclaimed, {f})
            /\ claims' = Zadd(claims, f, [owner |-> w, deadline |-> now + lease,
                                          remaining |-> unclaimed[f] - now])
            /\ UNCHANGED <<stored, ended, now, issued>>
  <2>a. PICK redelivered \in Ranged(delayed, Due(delayed)) :
        LET list == pending \o redelivered
            f == Popped(list, Stack)
        IN
        /\ IF list = <<>>
           THEN UNCHANGED <<stored, unclaimed, claims, ended>>
           ELSE IF f \notin DOMAIN unclaimed \/ unclaimed[f] <= now
           THEN /\ stored' = stored \ {f}
                /\ unclaimed' = Without(unclaimed, {f})
                /\ End({f} \cap stored, "expired")
                /\ UNCHANGED claims
           ELSE IF f \in DOMAIN claims
           THEN TRUE
           ELSE /\ unclaimed' = Without(unclaimed, {f})
                /\ claims' = Zadd(claims, f, [owner |-> w, deadline |-> now + lease,
                                              remaining |-> unclaimed[f] - now])
                /\ UNCHANGED <<stored, ended>>
        /\ UNCHANGED <<now, issued>>
    BY ZenonT(30) DEF Claim
  <2> DEFINE list == pending \o redelivered
             f == Popped(list, Stack)
  <2>1. list \in Seq(issued) /\ Range(list) \subseteq stored /\ Range(list) \cap DOMAIN claims = {}
    BY <2>a, RedeliveredList, ZenonT(30)
  <2>2. CASE list = <<>>
    BY <2>2, <2>a, Zenon
  <2>3. CASE list # <<>>
    <3> HIDE DEF list
    <3>1. Range(list) = Range(PopRest(list, Stack)) \cup {f}
      BY <2>1, <2>3, PopList, EventConstantsOK, Zenon
    <3>2. f \in stored \ DOMAIN claims /\ f \in DOMAIN unclaimed
      BY <3>1, <2>1, <1>1, Zenon
    <3>3. unclaimed[f] <= now \/ unclaimed[f] > now
      BY <3>2 DEF NoEventStranded, TypeOK
    <3>4. CASE unclaimed[f] <= now
      <4>1. /\ stored' = stored \ {f} /\ unclaimed' = Without(unclaimed, {f})
            /\ End({f} \cap stored, "expired") /\ UNCHANGED <<claims, now, issued>>
        BY <2>a, <2>3, <3>4, ZenonT(30) DEF list
      <4> HIDE DEF f
      <4> QED
        BY <3>2, <3>4, <4>1, ZenonT(30)
    <3>5. CASE ~(unclaimed[f] <= now)
      <4>1. /\ unclaimed' = Without(unclaimed, {f})
            /\ claims' = Zadd(claims, f, [owner |-> w, deadline |-> now + lease,
                                          remaining |-> unclaimed[f] - now])
            /\ UNCHANGED <<stored, ended, now, issued>>
        BY <2>a, <2>3, <3>2, <3>5, ZenonT(30) DEF list
      <4> HIDE DEF f
      <4> QED
        BY <3>2, <3>3, <3>5, <4>1, ZenonT(30)
    <3> QED
      BY <3>4, <3>5, Zenon
  <2> QED
    BY <2>2, <2>3, Zenon
<1>3. CASE UNCHANGED <<stored, unclaimed, claims, ended, now, issued>>
  BY <1>3, Unmoved, Zenon
<1>4. ASSUME NEW f \in stored \ DOMAIN claims, unclaimed[f] <= now, stored' = stored \ {f},
             unclaimed' = Without(unclaimed, {f}), End({f} \cap stored, "expired"),
             UNCHANGED <<claims, now, issued>>
      PROVE  Moves(e)
  <2>1. CASE e = f
    <3>1. e \in stored /\ e \notin stored' /\ e \in issued' /\ ended'[e] = "expired" /\ e \notin DOMAIN claims
      BY <1>1, <1>4, <2>1, Zenon DEF End
    <3> QED
      BY <3>1, <1>4, <2>1, Ends, Zenon
  <2>2. CASE e # f
    <3>1. /\ e \in stored' <=> e \in stored
          /\ e \in stored \ DOMAIN claims => unclaimed'[e] = unclaimed[e]
          /\ e \in issued \ stored => ended'[e] = ended[e]
      BY <1>1, <1>4, <2>2, Zenon DEF Without, End
    <3> QED
      BY <3>1, <1>4, Unmoved, Zenon
  <2> QED
    BY <2>1, <2>2, Zenon
<1>5. ASSUME NEW f \in stored \ DOMAIN claims, unclaimed[f] > now,
             unclaimed' = Without(unclaimed, {f}),
             claims' = Zadd(claims, f, [owner |-> w, deadline |-> now + lease,
                                        remaining |-> unclaimed[f] - now]),
             UNCHANGED <<stored, ended, now, issued>>
      PROVE  Moves(e)
  <2>1. CASE e = f
    <3>1. e \in DOMAIN claims' /\ claims'[e].remaining = unclaimed[e] - now
      BY <1>5, <2>1, Zenon DEF Zadd
    <3>2. state'[e] = "claimed" /\ left'[e] = unclaimed[e] - now
      BY <3>1, Zenon DEF Mapped
    <3>3. state[e] = "available" /\ left[e] = unclaimed[e] - now
      BY <1>5, <2>1, Zenon DEF Mapped
    <3>4. left[e] > 0
      <4>1. unclaimed[e] \in Nat /\ now \in Nat
        BY <1>1, <2>1, Zenon DEF NoEventStranded, TypeOK
      <4> QED
        BY <4>1, <3>3, <1>5, <2>1, SMT, SMTT(30)
    <3> QED
      BY <3>2, <3>3, <3>4, Zenon DEF Moves, Lifetime!Follow, Lifetime!LeftAfter, Lifetime!Ended
  <2>2. CASE e # f
    <3>1. /\ e \in DOMAIN claims' <=> e \in DOMAIN claims
          /\ e \in DOMAIN claims => claims'[e].remaining = claims[e].remaining
          /\ e \in stored \ DOMAIN claims => unclaimed'[e] = unclaimed[e]
      BY <1>1, <1>5, <2>2, Zenon DEF Without, Zadd
    <3> QED
      BY <3>1, <1>5, Unmoved, ZenonT(30)
  <2> QED
    BY <2>1, <2>2, Zenon
<1> QED
  BY <1>2, <1>3, <1>4, <1>5, ZenonT(30)

\* An event whose claim ends without it: what was left of its lifetime runs on.
LEMMA Resumes ==
    ASSUME Mapped, Mapped', NoEventStranded, NoEventStranded', now' = now, NEW e \in Events,
           e \in DOMAIN claims, e \notin DOMAIN claims', e \in stored',
           unclaimed'[e] = now + claims[e].remaining
    PROVE  Moves(e)
<1>1. state[e] = "claimed" /\ left[e] = claims[e].remaining
  BY Zenon DEF Mapped
<1>2. state'[e] = "available" /\ left'[e] = (now + claims[e].remaining) - now
  BY Zenon DEF Mapped
<1>3. (now + claims[e].remaining) - now = claims[e].remaining
  BY DEF NoEventStranded, TypeOK
<1> QED
  BY <1>1, <1>2, <1>3, Zenon DEF Moves, Lifetime!Follow, Lifetime!LeftAfter, Lifetime!Ended

\* django_queue_remove, _expire and _delete end one event.
LEMMA ForgetMoves ==
    ASSUME Mapped, Mapped', NoEventStranded, NoEventStranded', NEW f, NEW how, Forget(f, how),
           claims' = Without(claims, {f}), NEW e \in Events,
           \/ how = "cleared"
           \/ how = "expired" /\ f \notin DOMAIN claims /\ unclaimed[f] <= now
           \/ how = "consumed" /\ f \in DOMAIN claims
    PROVE  Moves(e)
<1>1. DOMAIN unclaimed = stored \ DOMAIN claims /\ DOMAIN ended = issued \ stored /\ stored \subseteq issued
      /\ DOMAIN claims \subseteq stored
  BY StoreFacts, Zenon DEF NoEventStranded, LifetimeIndexed, TypeOK
<1>2. /\ stored' = stored \ {f} /\ unclaimed' = Without(unclaimed, {f})
      /\ End({f} \cap stored, how) /\ UNCHANGED <<now, issued>>
  BY Zenon DEF Forget
<1>3. CASE e = f /\ e \in stored
  <2>1. e \notin stored' /\ e \in issued' /\ ended'[e] = how
    BY <1>1, <1>2, <1>3, Zenon DEF End
  <2> QED
    BY <2>1, <1>3, Ends, Zenon
<1>4. CASE ~(e = f /\ e \in stored)
  <2>1. /\ e \in stored' <=> e \in stored
        /\ e \in DOMAIN claims' <=> e \in DOMAIN claims
        /\ e \in DOMAIN claims => claims'[e].remaining = claims[e].remaining
        /\ e \in stored \ DOMAIN claims => unclaimed'[e] = unclaimed[e]
        /\ e \in issued \ stored => ended'[e] = ended[e]
    BY <1>1, <1>2, <1>4, Zenon DEF Without, End
  <2> QED
    BY <2>1, <1>2, Unmoved, Zenon
<1> QED
  BY <1>3, <1>4, Zenon

\* django_queue_recover gives the events of lapsed claims their lifetime back.
LEMMA RecoverMoves ==
    ASSUME Mapped, Mapped', NoEventStranded, NoEventStranded', Recover, NEW e \in Events
    PROVE  Moves(e)
<1>1. DOMAIN unclaimed = stored \ DOMAIN claims /\ DOMAIN claims \subseteq stored
  BY StoreFacts, Zenon DEF NoEventStranded, LifetimeIndexed
<1>2. PICK gone : /\ unclaimed' = Resumed((gone \cap stored) \cap DOMAIN claims)
                  /\ claims' = Without(claims, gone)
                  /\ UNCHANGED <<stored, now, issued, ended>>
  BY Zenon DEF Recover
<1>3. CASE e \in gone \cap DOMAIN claims
  <2>1. e \notin DOMAIN claims' /\ e \in stored' /\ unclaimed'[e] = now + claims[e].remaining
    BY <1>1, <1>2, <1>3, Zenon DEF Without, Resumed
  <2> QED
    BY <2>1, <1>2, <1>3, Resumes, Zenon
<1>4. CASE e \notin gone \cap DOMAIN claims
  <2>1. /\ e \in DOMAIN claims' <=> e \in DOMAIN claims
        /\ e \in DOMAIN claims => claims'[e].remaining = claims[e].remaining
        /\ e \in stored \ DOMAIN claims => unclaimed'[e] = unclaimed[e]
    BY <1>1, <1>2, <1>4, Zenon DEF Without, Resumed
  <2> QED
    BY <2>1, <1>2, Unmoved, Zenon
<1> QED
  BY <1>3, <1>4, Zenon

\* The other calls of a worker.
LEMMA HeldMoves ==
    ASSUME Mapped, Mapped', NoEventStranded, NoEventStranded', NEW w, NEW f, NEW e \in Events,
           \/ \E lease \in Leases : Renew(w, f, lease)
           \/ \E delay \in Delays : Release(w, f, delay)
           \/ Remove(w, f)
    PROVE  Moves(e)
<1>0. DOMAIN unclaimed = stored \ DOMAIN claims /\ DOMAIN claims \subseteq stored
  BY StoreFacts, Zenon DEF NoEventStranded, LifetimeIndexed
<1>1. ASSUME NEW lease \in Leases, Renew(w, f, lease) PROVE Moves(e)
  <2>1. /\ f \in DOMAIN claims /\ claims' = [claims EXCEPT ![f].deadline = now + lease]
        /\ UNCHANGED <<stored, unclaimed, now, issued, ended>>
    BY <1>1, Zenon DEF Renew, CanRenew, Owns
  <2>2. /\ DOMAIN claims' = DOMAIN claims
        /\ e \in DOMAIN claims => claims'[e].remaining = claims[e].remaining
    BY <2>1, Zenon DEF NoEventStranded, TypeOK
  <2> QED
    BY <2>1, <2>2, Unmoved, Zenon
<1>2. ASSUME NEW delay \in Delays, Release(w, f, delay) PROVE Moves(e)
  <2>1. /\ f \in DOMAIN claims /\ claims' = Without(claims, {f})
        /\ unclaimed' = Zadd(unclaimed, f, now + claims[f].remaining)
        /\ UNCHANGED <<stored, now, issued, ended>>
    BY <1>2, Zenon DEF Release, ReleaseUntil, Owns
  <2>2. CASE e = f
    <3>1. e \notin DOMAIN claims' /\ e \in stored' /\ unclaimed'[e] = now + claims[e].remaining
      BY <1>0, <2>1, <2>2, Zenon DEF Without, Zadd
    <3> QED
      BY <3>1, <2>1, <2>2, Resumes, Zenon
  <2>3. CASE e # f
    <3>1. /\ e \in DOMAIN claims' <=> e \in DOMAIN claims
          /\ e \in DOMAIN claims => claims'[e].remaining = claims[e].remaining
          /\ e \in stored \ DOMAIN claims => unclaimed'[e] = unclaimed[e]
      BY <1>0, <2>1, <2>3, ZenonT(30) DEF Without, Zadd
    <3> QED
      BY <3>1, <2>1, Unmoved, ZenonT(30)
  <2> QED
    BY <2>2, <2>3, Zenon
<1>3. ASSUME Remove(w, f) PROVE Moves(e)
  BY <1>3, ForgetMoves, Zenon DEF Remove, Owns
<1> QED
  BY <1>1, <1>2, <1>3, Zenon

\* Every call of the store moves each event as EventLifetime allows.
LEMMA CallMoves ==
    ASSUME Mapped, Mapped', NoEventStranded, NoEventStranded', Next, ~Tick, NEW e \in Events
    PROVE  Moves(e)
<1>1. ASSUME NEW f \in Events, NEW life \in Lifetimes, StoreEventAndPush(f, life) PROVE Moves(e)
  <2>1. /\ f \notin issued /\ issued' = issued \cup {f} /\ stored' = stored \cup {f}
        /\ unclaimed' = Zadd(unclaimed, f, now + life)
        /\ UNCHANGED <<claims, now, ended>>
    BY <1>1, Zenon DEF StoreEventAndPush
  <2>2. DOMAIN unclaimed = stored \ DOMAIN claims /\ DOMAIN claims \subseteq stored /\ stored \subseteq issued
    BY StoreFacts, Zenon DEF NoEventStranded, LifetimeIndexed
  <2>3. CASE e = f
    <3>1. state[e] = "new"
      BY <2>1, <2>3, Zenon DEF Mapped
    <3>2. unclaimed'[e] = now + life /\ e \in stored' \ DOMAIN claims'
      BY <2>1, <2>2, <2>3, Zenon DEF Zadd
    <3>3. state'[e] = "available" /\ left'[e] = (now + life) - now
      BY <2>1, <3>2, Zenon DEF Mapped
    <3>4. (now + life) - now = life
      BY StoreFacts, EventConstantsOK
    <3> QED
      BY <3>1, <3>3, <3>4, Zenon DEF Moves, Lifetime!Follow, Lifetime!LeftAfter, Lifetime!Ended
  <2>4. CASE e # f
    <3>1. /\ e \in issued' <=> e \in issued
          /\ e \in stored' <=> e \in stored
          /\ e \in stored \ DOMAIN claims => unclaimed'[e] = unclaimed[e]
      BY <2>1, <2>2, <2>4, Zenon DEF Zadd
    <3> QED
      BY <3>1, <2>1, Unmoved, Zenon
  <2> QED
    BY <2>3, <2>4, Zenon
<1>2. ASSUME NEW got \in Events \cup {NoEvent}, DequeueEvent(got) PROVE Moves(e)
  BY <1>2, DequeueEventMoves, Zenon
<1>3. ASSUME NEW w \in Workers, WorkerCall(w) PROVE Moves(e)
  <2>1. ASSUME NEW lease \in Leases, NEW got \in Events \cup {NoEvent}, Claim(w, lease, got)
        PROVE  Moves(e)
    BY <2>1, ClaimMoves, Zenon
  <2>2. ASSUME NEW f \in Events,
               \/ \E lease \in Leases : Renew(w, f, lease)
               \/ \E delay \in Delays : Release(w, f, delay)
               \/ Remove(w, f)
        PROVE  Moves(e)
    BY <2>2, HeldMoves, Zenon
  <2> QED
    BY <1>3, <2>1, <2>2, Zenon DEF WorkerCall
<1>4. ASSUME NEW f \in Events, Expire(f) PROVE Moves(e)
  <2>1. claims' = claims /\ DOMAIN claims \ {f} = DOMAIN claims
    BY <1>4, Zenon DEF Expire
  <2>2. claims' = Without(claims, {f})
    BY <2>1, Zenon DEF Without, NoEventStranded, TypeOK
  <2>3. f \notin DOMAIN claims /\ unclaimed[f] <= now /\ Forget(f, "expired")
    BY <1>4, Zenon DEF Expire, Due, DueAt
  <2> QED
    BY <2>2, <2>3, ForgetMoves, Zenon
<1>5. ASSUME NEW f \in issued, Delete(f) PROVE Moves(e)
  BY <1>5, ForgetMoves, Zenon DEF Delete
<1> QED
  BY <1>1, <1>2, <1>3, <1>4, <1>5, RecoverMoves, Zenon DEF Next

\* A step of the store is a step of EventLifetime.
LEMMA LifetimeStep ==
    ASSUME NoEventStranded, NoEventStranded', [Next]_vars
    PROVE  [Lifetime!Call \/ Lifetime!Pass]_(Lifetime!vars)
<1>1. Mapped /\ Mapped'
  <2>1. (NoEventStranded => Mapped)'
    BY MappedFacts, PTL
  <2> QED
    BY <2>1, MappedFacts, Zenon
<1>2. state' \in [Events -> Lifetime!States] /\ left' \in [Events -> Int]
  <2>1. (NoEventStranded => state \in [Events -> Lifetime!States] /\ left \in [Events -> Int])'
    BY MappedType, PTL
  <2> QED
    BY <2>1, Zenon
<1>3. CASE Next /\ ~Tick
  <2>1. \A e \in Events : Moves(e)
    BY <1>1, <1>3, CallMoves, Zenon
  <2> QED
    BY <2>1, <1>2, Zenon DEF Moves, Lifetime!Call
<1>4. CASE Tick
  <2>1. now' = now + 1 /\ UNCHANGED <<stored, unclaimed, claims, issued, ended>>
    BY <1>4, Zenon DEF Tick, store
  <2>2. state' = state
    BY <2>1, Zenon DEF state
  <2>3. ASSUME NEW e \in Events
        PROVE  left'[e] = IF state[e] = "available" THEN left[e] - 1 ELSE left[e]
    <3>1. DOMAIN unclaimed = stored \ DOMAIN claims /\ DOMAIN claims \subseteq stored /\ stored \subseteq issued
      BY StoreFacts, Zenon DEF NoEventStranded, LifetimeIndexed
    <3>2. CASE e \in stored \ DOMAIN claims
      <4>1. unclaimed[e] \in Nat /\ now \in Nat
        BY <3>1, <3>2, Zenon DEF NoEventStranded, TypeOK
      <4>2. left'[e] = unclaimed[e] - (now + 1) /\ left[e] = unclaimed[e] - now /\ state[e] = "available"
        BY <1>1, <2>1, <3>2, Zenon DEF Mapped
      <4> QED
        BY <4>1, <4>2
    <3>3. CASE e \notin stored \ DOMAIN claims
      <4>1. left'[e] = left[e]
        BY <1>1, <2>1, <3>1, <3>3, SMT, SMTT(30) DEF Mapped
      <4>2. state[e] # "available"
        BY <1>1, <3>1, <3>3, Zenon DEF Mapped, NoEventStranded, TypeOK
      <4> QED
        BY <4>1, <4>2, Zenon
    <3> QED
      BY <3>2, <3>3, Zenon
  <2>4. left' = [e \in Events |-> IF state[e] = "available" THEN left[e] - 1 ELSE left[e]]
    <3>1. DOMAIN left' = Events /\ left' \in [Events -> Int]
      BY <1>2, Zenon
    <3> QED
      BY <3>1, <2>3, Zenon
  <2> QED
    BY <2>2, <2>4, Zenon DEF Lifetime!Pass
<1>5. CASE UNCHANGED vars
  BY <1>5, Zenon DEF vars, store, Lifetime!vars, state, left
<1> QED
  BY <1>3, <1>4, <1>5, Zenon

\* The store implements EventLifetime: whatever workers, consumers, expiry,
\* recovery and clears do, a claim stops an event's lifetime, release and recovery
\* resume it, and an event ends once, as expired only when its lifetime is used up.
THEOREM StoreRefinesLifetime == Spec => LifetimeSpec
<1>1. Init => Lifetime!Init
  BY DEF Init, Lifetime!Init, state, left
<1> QED
  BY <1>1, LifetimeStep, EventsAreNotStranded, PTL DEF Spec, LifetimeSpec, Lifetime!Spec

-------------------------------------------------------------------------------
\* The workers.

Resting == {"expire_due", "expire", "recover", "claim", "stopped"}

ELocal == [pc : Awaits \cup {"stopped"}, event : Events \cup {NoEvent},
           due : SUBSET Events, cursor : Listeners, to_visit : Listeners,
           renewal : {"off", "on", "lost"}, closing : BOOLEAN, lease_until : Nat]

\* What a worker knows from its own variables.
LocalOK(w) ==
    /\ ew[w].pc \in Resting =>
          InHand(w) = NoEvent /\ ew[w].lease_until = 0 /\ ew[w].renewal = "off"
    /\ ew[w].pc \notin Resting => InHand(w) \in issued

\* What its lease tells it about the store.
OwnerOK(w) ==
    ew[w].lease_until > now =>
        \/ Owns(w, InHand(w)) /\ claims[InHand(w)].deadline >= ew[w].lease_until
        \/ InHand(w) \notin stored

EInv ==
    /\ NoEventStranded
    /\ EWTypeOK
    /\ \A w \in Workers : LocalOK(w) /\ OwnerOK(w)

-------------------------------------------------------------------------------
\* What a worker can rely on while others move: time goes forward, an event that
\* is gone stays so, and a claim of the worker outlasts its lease or its event.
Rely(w) ==
    /\ issued \subseteq issued' /\ now <= now' /\ now \in Nat /\ now' \in Nat
    /\ \A e \in issued :
          /\ e \in stored' => e \in stored
          /\ Owns(w, e) /\ claims[e].deadline > now
                => \/ Owns(w, e)' /\ claims'[e].deadline >= claims[e].deadline
                   \/ e \notin stored'

LEMMA Undisturbed ==
    ASSUME EInv, NoEventStranded', NEW w \in Workers, Rely(w), ew'[w] = ew[w]
    PROVE  LocalOK(w)' /\ OwnerOK(w)'
<1>0. now \in Nat /\ now' \in Nat /\ now <= now'
  BY Zenon DEF Rely
<1>1. LocalOK(w) /\ OwnerOK(w) /\ ew[w].lease_until \in Nat
  BY Zenon DEF EInv, EWTypeOK
<1>2. LocalOK(w)'
  BY <1>1, Zenon DEF LocalOK, InHand, Rely
<1>3. CASE ew[w].pc \in Resting
  <2>1. ew'[w].lease_until = 0
    BY <1>1, <1>3, Zenon DEF LocalOK
  <2>2. ~(ew'[w].lease_until > now')
    BY <1>0, <2>1
  <2> QED BY <1>2, <2>2, Zenon DEF OwnerOK
<1>4. CASE ew[w].pc \notin Resting
  <2>1. PICK e : e = InHand(w)
    BY Zenon
  <2>2. e \in issued /\ InHand(w)' = e
    BY <1>1, <1>4, <2>1, Zenon DEF LocalOK, InHand
  <2>3. SUFFICES ASSUME ew[w].lease_until > now'
                 PROVE  (Owns(w, e)' /\ claims'[e].deadline >= ew[w].lease_until) \/ e \notin stored'
    BY <1>2, <2>2, Zenon DEF OwnerOK
  <2>4. ew[w].lease_until > now
    BY <1>0, <1>1, <2>3
  <2>5. CASE e \notin stored
    BY <2>2, <2>5, Zenon DEF Rely
  <2>6. CASE Owns(w, e) /\ claims[e].deadline >= ew[w].lease_until
    <3>1. claims[e].deadline \in Nat
      <4>1. claims \in [DOMAIN claims -> [owner : Workers, deadline : Nat, remaining : Nat \ {0}]]
        BY Zenon DEF EInv, NoEventStranded, TypeOK
      <4> QED BY <2>6, <4>1, Zenon DEF Owns
    <3>2. claims[e].deadline > now
      BY <1>0, <1>1, <2>4, <2>6, <3>1, SMT, SMTT(30)
    <3>3. Owns(w, e)' => claims'[e].deadline \in Nat
      BY Zenon DEF Owns, NoEventStranded, TypeOK
    <3>4. \/ Owns(w, e)' /\ claims'[e].deadline >= claims[e].deadline
          \/ e \notin stored'
      BY <2>2, <2>6, <3>2, ZenonT(40) DEF Rely
    <3> QED BY <1>1, <2>6, <3>1, <3>3, <3>4, SMT, SMTT(30)
  <2> QED BY <1>1, <2>1, <2>4, <2>5, <2>6, Zenon DEF OwnerOK
<1> QED BY <1>2, <1>3, <1>4, Zenon

\* What the calls of the store do to its records and claims.
LEMMA ClaimEffect ==
    ASSUME NoEventStranded, NEW w, NEW lease, NEW got \in Events \cup {NoEvent}, Claim(w, lease, got)
    PROVE  /\ issued' = issued /\ now' = now /\ stored' \subseteq stored
           /\ got = NoEvent => claims' = claims
           /\ got # NoEvent =>
                 /\ got \in stored /\ got \notin DOMAIN claims /\ stored' = stored
                 /\ DOMAIN claims' = DOMAIN claims \cup {got}
                 /\ Owns(w, got)' /\ claims'[got].deadline = now + lease
                 /\ \A e \in DOMAIN claims : claims'[e] = claims[e]
<1>1. PICK redelivered \in Ranged(delayed, Due(delayed)) :
        LET list == pending \o redelivered
            e == Popped(list, Stack)
        IN
        /\ IF list = <<>>
           THEN /\ got = NoEvent
                /\ delayed' = Without(delayed, Due(delayed))
                /\ UNCHANGED <<stored, pending, unclaimed, claims, claim_deadlines, ended>>
           ELSE IF e \notin DOMAIN unclaimed \/ unclaimed[e] <= now
           THEN /\ got = NoEvent
                /\ stored' = stored \ {e}
                /\ pending' = PopRest(list, Stack)
                /\ delayed' = Without(delayed, Due(delayed) \cup {e})
                /\ unclaimed' = Without(unclaimed, {e})
                /\ claim_deadlines' = Without(claim_deadlines, {e})
                /\ End({e} \cap stored, "expired")
                /\ UNCHANGED claims
           ELSE IF e \in DOMAIN claims
           THEN /\ got = NoEvent
                /\ pending' = list
                /\ delayed' = Without(delayed, Due(delayed))
                /\ unclaimed' = Without(unclaimed, {e})
                /\ UNCHANGED <<stored, claims, claim_deadlines, ended>>
           ELSE /\ got = e
                /\ pending' = PopRest(list, Stack)
                /\ delayed' = Without(delayed, Due(delayed))
                /\ unclaimed' = Without(unclaimed, {e})
                /\ claims' = Zadd(claims, e, [owner |-> w, deadline |-> now + lease,
                                              remaining |-> unclaimed[e] - now])
                /\ claim_deadlines' = Zadd(claim_deadlines, e, now + lease)
                /\ UNCHANGED <<stored, ended>>
        /\ UNCHANGED <<now, issued>>
  BY Zenon DEF Claim
<1>2. PICK list : list = pending \o redelivered
  BY Zenon
<1>3. PICK e : e = Popped(list, Stack)
  BY ZenonT(40)
<1>4. CASE list = <<>> \/ e \notin DOMAIN unclaimed \/ unclaimed[e] <= now \/ e \in DOMAIN claims
  <2>1. got = NoEvent /\ claims' = claims /\ stored' \subseteq stored /\ UNCHANGED <<now, issued>>
    BY <1>1, <1>2, <1>3, <1>4, ZenonT(30)
  <2> QED BY <2>1, Zenon
<1>5. CASE ~(list = <<>> \/ e \notin DOMAIN unclaimed \/ unclaimed[e] <= now \/ e \in DOMAIN claims)
  <2>1. /\ got = e /\ UNCHANGED <<stored, now, issued>>
        /\ claims' = Zadd(claims, e, [owner |-> w, deadline |-> now + lease,
                                      remaining |-> unclaimed[e] - now])
    BY <1>1, <1>2, <1>3, <1>5, Zenon
  <2>2. e \in stored /\ e # NoEvent
    BY <1>5, StoreFacts, EventConstantsOK, Zenon DEF NoEventStranded, LifetimeIndexed
  <2>3. PICK claim : claim = [owner |-> w, deadline |-> now + lease, remaining |-> unclaimed[e] - now]
    BY Zenon
  <2>4. claims' = Zadd(claims, got, claim) /\ claim.owner = w /\ claim.deadline = now + lease
    BY <2>1, <2>3, Zenon
  <2>5. /\ DOMAIN claims' = DOMAIN claims \cup {got} /\ claims'[got] = claim
        /\ \A f \in DOMAIN claims \ {got} : claims'[f] = claims[f]
    BY <2>4, Zenon DEF Zadd
  <2>6. Owns(w, got)'
    BY <2>4, <2>5, Zenon DEF Owns
  <2> QED BY <1>5, <2>1, <2>2, <2>4, <2>5, <2>6, ZenonT(30)
<1> QED BY <1>4, <1>5, Zenon

LEMMA RecoverEffect ==
    ASSUME NoEventStranded, Recover
    PROVE  /\ UNCHANGED <<stored, now, issued>>
           /\ DOMAIN claims' \subseteq DOMAIN claims
           /\ \A e \in DOMAIN claims' : claims'[e] = claims[e]
           /\ \A e \in DOMAIN claims \ DOMAIN claims' : claims[e].deadline <= now
BY ZenonT(30) DEF Recover, Without

LEMMA DequeueEffect ==
    ASSUME NEW got, DequeueEvent(got)
    PROVE  claims' = claims /\ stored' \subseteq stored /\ UNCHANGED <<now, issued>>
BY DEF DequeueEvent, PopUpTo

LEMMA RelyIf ==
    ASSUME NoEventStranded, NEW w, now' = now, issued \subseteq issued',
           \A e \in issued :
              /\ e \in stored' => e \in stored
              /\ Owns(w, e) /\ claims[e].deadline > now
                    => (e \in DOMAIN claims' /\ claims'[e] = claims[e]) \/ e \notin stored'
    PROVE  Rely(w)
<1>1. now \in Nat /\ \A e \in DOMAIN claims : claims[e].deadline \in Nat
  BY Zenon DEF NoEventStranded, TypeOK
<1>2. \A e \in issued : Owns(w, e) /\ e \in DOMAIN claims' /\ claims'[e] = claims[e]
         => Owns(w, e)' /\ claims'[e].deadline >= claims[e].deadline
  BY <1>1 DEF Owns
<1>3. now <= now' /\ now' \in Nat
  BY <1>1
<1> QED BY <1>1, <1>2, <1>3, Zenon DEF Rely

\* A call of v does not disturb another worker.
LEMMA RelyOnCalls ==
    ASSUME NoEventStranded, NEW v \in Workers, NEW w \in Workers, v # w,
           \/ \E got \in Events \cup {NoEvent} : Claim(v, Lease, got)
           \/ \E e \in issued : Renew(v, e, Lease)
           \/ \E e \in issued : Release(v, e, ReleaseDelay)
           \/ \E e \in issued : Remove(v, e)
    PROVE  Rely(w)
<1>1. CASE \E got \in Events \cup {NoEvent} : Claim(v, Lease, got)
  <2>1. PICK got \in Events \cup {NoEvent} : Claim(v, Lease, got)
    BY <1>1, Zenon
  <2>2. issued' = issued /\ now' = now /\ stored' \subseteq stored
    BY <2>1, ClaimEffect, ZenonT(30)
  <2>3. \A e \in DOMAIN claims : e \in DOMAIN claims' /\ claims'[e] = claims[e]
    <3>1. CASE got = NoEvent
      BY <2>1, <3>1, ClaimEffect, ZenonT(30)
    <3>2. CASE got # NoEvent
      BY <2>1, <3>2, ClaimEffect, Zenon
    <3> QED BY <3>1, <3>2, Zenon
  <2> QED BY <2>2, <2>3, RelyIf, Zenon DEF Owns
<1>2. ASSUME NEW e \in issued, Owns(v, e), UNCHANGED <<now, issued>>, stored' \subseteq stored,
             \A f \in DOMAIN claims \ {e} : f \in DOMAIN claims' /\ claims'[f] = claims[f]
      PROVE  Rely(w)
  BY <1>2, RelyIf, Zenon DEF Owns
<1>3. CASE \E e \in issued : Renew(v, e, Lease)
  <2>1. PICK e \in issued : Renew(v, e, Lease)
    BY <1>3, Zenon
  <2>2. Owns(v, e) /\ UNCHANGED <<now, issued, stored>>
    BY <2>1, Zenon DEF Renew, CanRenew
  <2>3. \A f \in DOMAIN claims \ {e} : f \in DOMAIN claims' /\ claims'[f] = claims[f]
    BY <2>1, Zenon DEF Renew
  <2> QED BY <1>2, <2>2, <2>3, Zenon
<1>4. CASE \E e \in issued : Release(v, e, ReleaseDelay)
  <2>1. PICK e \in issued : Release(v, e, ReleaseDelay)
    BY <1>4, Zenon
  <2>2. Owns(v, e) /\ UNCHANGED <<now, issued, stored>> /\ claims' = Without(claims, {e})
    BY <2>1, Zenon DEF Release, ReleaseUntil
  <2>3. \A f \in DOMAIN claims \ {e} : f \in DOMAIN claims' /\ claims'[f] = claims[f]
    BY <2>2, Zenon DEF Without
  <2> QED BY <1>2, <2>2, <2>3, Zenon
<1>5. CASE \E e \in issued : Remove(v, e)
  <2>1. PICK e \in issued : Remove(v, e)
    BY <1>5, Zenon
  <2>2. Owns(v, e) /\ UNCHANGED <<now, issued>> /\ stored' \subseteq stored /\ claims' = Without(claims, {e})
    BY <2>1, Zenon DEF Remove, Forget
  <2>3. \A f \in DOMAIN claims \ {e} : f \in DOMAIN claims' /\ claims'[f] = claims[f]
    BY <2>2, Zenon DEF Without
  <2> QED BY <1>2, <2>2, <2>3, Zenon
<1> QED BY <1>1, <1>3, <1>4, <1>5, Zenon

LEMMA RelyOnOthers ==
    ASSUME NoEventStranded, NEW w \in Workers,
           \/ \E e \in Events, life \in Lifetimes : StoreEventAndPush(e, life)
           \/ \E e \in Events : Expire(e) \/ Delete(e)
           \/ \E got \in Events \cup {NoEvent} : DequeueEvent(got)
           \/ Tick \/ Recover \/ UNCHANGED vars
    PROVE  Rely(w)
<1>1. ASSUME now' = now, issued \subseteq issued', claims' = claims, \A e \in issued : e \in stored' => e \in stored
      PROVE  Rely(w)
  BY <1>1, RelyIf, Zenon DEF Owns
<1>2. CASE \E e \in Events, life \in Lifetimes : StoreEventAndPush(e, life)
  BY <1>1, <1>2, Zenon DEF StoreEventAndPush
<1>3. CASE \E e \in Events : Expire(e)
  BY <1>1, <1>3, Zenon DEF Expire, Forget
<1>4. CASE \E e \in Events : Delete(e)
  <2>1. PICK e : Delete(e)
    BY <1>4, Zenon
  <2>2. UNCHANGED <<now, issued>> /\ stored' = stored \ {e} /\ claims' = Without(claims, {e})
    BY <2>1, Zenon DEF Delete, Forget
  <2>3. \A f \in DOMAIN claims : (f \in DOMAIN claims' /\ claims'[f] = claims[f]) \/ f \notin stored'
    BY <2>2, Zenon DEF Without
  <2> QED BY <2>2, <2>3, RelyIf, Zenon DEF Owns
<1>5. CASE \E got \in Events \cup {NoEvent} : DequeueEvent(got)
  BY <1>1, <1>5, DequeueEffect, Zenon
<1>6. CASE Tick
  <2>1. now \in Nat /\ now' = now + 1 /\ (\A e \in DOMAIN claims : claims[e].deadline \in Nat)
    BY <1>6, Zenon DEF Tick, NoEventStranded, TypeOK
  <2>2. now <= now' /\ now' \in Nat /\ (\A e : Owns(w, e) => claims[e].deadline >= claims[e].deadline)
    BY <2>1 DEF Owns
  <2>3. UNCHANGED <<stored, claims, issued>>
    BY <1>6, Zenon DEF Tick, store
  <2>4. \A e : Owns(w, e)' <=> Owns(w, e)
    BY <2>3, Zenon DEF Owns
  <2> QED BY <2>1, <2>2, <2>3, <2>4, Zenon DEF Rely
<1>7. CASE Recover
  <2>1. \A e \in DOMAIN claims : claims[e].deadline > now => ~(claims[e].deadline <= now)
    BY DEF NoEventStranded, TypeOK
  <2>2. UNCHANGED <<stored, now, issued>> /\ \A e \in DOMAIN claims :
           claims[e].deadline > now => e \in DOMAIN claims' /\ claims'[e] = claims[e]
    BY <1>7, <2>1, RecoverEffect, Zenon
  <2> QED BY <2>2, RelyIf, Zenon DEF Owns
<1>8. CASE UNCHANGED vars
  BY <1>1, <1>8, Zenon DEF vars, store
<1> QED BY <1>2, <1>3, <1>4, <1>5, <1>6, <1>7, <1>8, Zenon

-------------------------------------------------------------------------------
LEMMA TypeIs ==
    EWTypeOK = /\ ew \in [Workers -> ELocal] /\ accepted \in [Events -> Nat]
               /\ lapsed \subseteq Events /\ faults \in 0 .. MaxFaults
BY Zenon DEF EWTypeOK, ELocal

LEMMA WorkerTypes ==
    ASSUME EInv, NEW w \in Workers
    PROVE  /\ ew \in [Workers -> ELocal] /\ ew[w] \in ELocal /\ EWTypeOK /\ LocalOK(w) /\ OwnerOK(w)
           /\ NoEventStranded /\ issued \subseteq Events /\ now \in Nat /\ now + Lease \in Nat
<1>1. EWTypeOK /\ LocalOK(w) /\ OwnerOK(w) /\ NoEventStranded
  BY Zenon DEF EInv
<1>2. issued \subseteq Events /\ now \in Nat
  BY <1>1, Zenon DEF NoEventStranded, TypeOK
<1>3. now + Lease \in Nat
  BY <1>2, EventWorkerConstantsOK, EventConstantsOK
<1>4. ew \in [Workers -> ELocal] /\ ew[w] \in ELocal
  BY <1>1, TypeIs, Zenon
<1> QED BY <1>1, <1>2, <1>3, <1>4, Zenon

\* The history and the other workers in a step of w.
Bookkeeping(w) ==
    /\ ew' \in [Workers -> ELocal] /\ \A x \in Workers \ {w} : ew'[x] = ew[x]
    /\ accepted' \in [Events -> Nat] /\ lapsed' \subseteq Events /\ faults' \in 0 .. MaxFaults

\* A step of w, with a call of the store or without one.
LEMMA CallStep ==
    ASSUME EInv, NEW w \in Workers, [Next]_vars, Bookkeeping(w),
           \A x \in Workers \ {w} : Rely(x),
           NoEventStranded' => LocalOK(w)' /\ OwnerOK(w)'
    PROVE  EInv'
<1>1. NoEventStranded'
  BY NextInv, Zenon DEF EInv
<1>2. \A x \in Workers \ {w} : LocalOK(x)' /\ OwnerOK(x)'
  BY <1>1, Undisturbed, Zenon DEF Bookkeeping
<1>3. (EWTypeOK = /\ ew \in [Workers -> ELocal] /\ accepted \in [Events -> Nat]
                  /\ lapsed \subseteq Events /\ faults \in 0 .. MaxFaults)'
  BY TypeIs, PTL
<1>4. EWTypeOK'
  BY <1>3, Zenon DEF Bookkeeping
<1> QED BY <1>1, <1>2, <1>4, Zenon DEF EInv

LEMMA QuietStep ==
    ASSUME EInv, NEW w \in Workers, UNCHANGED vars, Bookkeeping(w),
           NoEventStranded' => LocalOK(w)' /\ OwnerOK(w)'
    PROVE  EInv'
<1>1. \A x \in Workers : Rely(x)
  BY RelyOnOthers, Zenon DEF EInv
<1> QED BY <1>1, CallStep, Zenon

\* A worker with nothing in its hands.
LEMMA AtRestOK ==
    ASSUME NoEventStranded', NEW w \in Workers, ew'[w].pc \in Resting,
           ew'[w].event = NoEvent, ew'[w].lease_until = 0, ew'[w].renewal = "off"
    PROVE  LocalOK(w)' /\ OwnerOK(w)'
<1>1. now' \in Nat
  BY Zenon DEF NoEventStranded, TypeOK
<1> QED BY <1>1 DEF LocalOK, OwnerOK, InHand

LEMMA RestsIs ==
    ASSUME EWTypeOK, NEW w \in Workers, NEW where \in Resting, NEW cursor \in Listeners,
           ew' = [ew EXCEPT ![w] = AtRest(where, cursor)]
    PROVE  /\ ew' \in [Workers -> ELocal] /\ \A x \in Workers \ {w} : ew'[x] = ew[x]
           /\ NoEventStranded' => LocalOK(w)' /\ OwnerOK(w)'
<1>1. ew \in [Workers -> ELocal]
  BY TypeIs, Zenon
<1>2. 0 \in Listeners
  BY EventWorkerConstantsOK DEF Listeners
<1>3. AtRest(where, cursor) \in ELocal
  BY <1>2, Zenon DEF AtRest, ELocal, Resting, Awaits, NextAwaits
<1>4. /\ ew' \in [Workers -> ELocal] /\ (\A x \in Workers \ {w} : ew'[x] = ew[x])
      /\ ew'[w] = AtRest(where, cursor)
  BY <1>1, <1>3, Zenon
<1> QED BY <1>4, AtRestOK, Zenon DEF AtRest

\* A worker that keeps its event, and its lease or nothing of it.
LEMMA GoesOn ==
    ASSUME EInv, NEW w \in Workers, ew[w].pc \notin Resting, ew'[w].pc \notin Resting,
           ew'[w].event = ew[w].event,
           ew'[w].lease_until = 0 \/ (ew'[w].lease_until = ew[w].lease_until /\ UNCHANGED vars),
           issued' = issued, NoEventStranded'
    PROVE  LocalOK(w)' /\ OwnerOK(w)'
<1>1. LocalOK(w) /\ OwnerOK(w)
  BY WorkerTypes, Zenon
<1>2. LocalOK(w)'
  BY <1>1, Zenon DEF LocalOK, InHand
<1>3. now' \in Nat
  BY Zenon DEF NoEventStranded, TypeOK
<1>4. CASE ew'[w].lease_until = 0
  BY <1>2, <1>3, <1>4, Ordering, Zenon DEF OwnerOK
<1>5. CASE ew'[w].lease_until = ew[w].lease_until /\ UNCHANGED vars
  BY <1>1, <1>2, <1>5, Zenon DEF OwnerOK, InHand, Owns, vars, store
<1> QED BY <1>4, <1>5, Zenon

LEMMA SameHistory ==
    ASSUME EInv, NEW w \in Workers, UNCHANGED History, ew' \in [Workers -> ELocal],
           \A x \in Workers \ {w} : ew'[x] = ew[x]
    PROVE  Bookkeeping(w)
BY Zenon DEF EInv, EWTypeOK, Bookkeeping, History

\* A fault counts.
LEMMA FaultyHistory ==
    ASSUME EInv, NEW w \in Workers, Fault, UNCHANGED <<accepted, lapsed>>, ew' \in [Workers -> ELocal],
           \A x \in Workers \ {w} : ew'[x] = ew[x]
    PROVE  Bookkeeping(w)
<1>1. faults \in 0 .. MaxFaults /\ faults < MaxFaults /\ faults' = faults + 1
  BY Zenon DEF EInv, EWTypeOK, Fault
<1>2. faults' \in 0 .. MaxFaults
  BY <1>1, EventWorkerConstantsOK, SMT, SMTT(30)
<1>3. accepted \in [Events -> Nat] /\ lapsed \subseteq Events
  BY Zenon DEF EInv, EWTypeOK
<1> QED BY <1>2, <1>3, Zenon DEF Bookkeeping

\* The values of a worker's variables after its steps.
LEMMA LocalUpdates ==
    ASSUME EWTypeOK, NEW w \in Workers
    PROVE  /\ \A where \in Awaits :
                 [ew EXCEPT ![w].pc = where] \in [Workers -> ELocal]
           /\ \A where \in Awaits, S \in SUBSET Events :
                 [ew EXCEPT ![w].pc = where, ![w].due = S] \in [Workers -> ELocal]
           /\ \A where \in Awaits, S \in SUBSET Events :
                 [ew EXCEPT ![w].due = S, ![w].pc = where] \in [Workers -> ELocal]
           /\ \A where \in Awaits, e \in Events, S \in SUBSET Events, n \in Nat :
                 [ew EXCEPT ![w].pc = where, ![w].event = e, ![w].due = S, ![w].lease_until = n]
                     \in [Workers -> ELocal]
           /\ \A n \in Nat :
                 [ew EXCEPT ![w].lease_until = n] \in [Workers -> ELocal]
           /\ \A where \in Awaits, n \in Nat :
                 [ew EXCEPT ![w].pc = where, ![w].lease_until = n] \in [Workers -> ELocal]
           /\ \A r \in {"off", "on", "lost"} :
                 [ew EXCEPT ![w].renewal = r] \in [Workers -> ELocal]
           /\ \A c \in Listeners, v \in Listeners :
                 [ew EXCEPT ![w].cursor = c, ![w].to_visit = v] \in [Workers -> ELocal]
<1>1. ew \in [Workers -> ELocal] /\ ew[w] \in ELocal
  BY TypeIs, Zenon
<1>2. ASSUME NEW where \in Awaits PROVE [ew EXCEPT ![w].pc = where] \in [Workers -> ELocal]
  <2>1. [ew[w] EXCEPT !.pc = where] \in ELocal
    BY <1>1, Zenon DEF ELocal
  <2> QED BY <1>1, <2>1, Zenon
<1>3. ASSUME NEW where \in Awaits, NEW S \in SUBSET Events
      PROVE  [ew EXCEPT ![w].pc = where, ![w].due = S] \in [Workers -> ELocal]
  <2>1. [ew[w] EXCEPT !.pc = where, !.due = S] \in ELocal
    BY <1>1, Zenon DEF ELocal
  <2> QED BY <1>1, <2>1, Zenon
<1>4. ASSUME NEW where \in Awaits, NEW S \in SUBSET Events
      PROVE  [ew EXCEPT ![w].due = S, ![w].pc = where] \in [Workers -> ELocal]
  <2>1. [ew[w] EXCEPT !.due = S, !.pc = where] \in ELocal
    BY <1>1, Zenon DEF ELocal
  <2> QED BY <1>1, <2>1, Zenon
<1>5. ASSUME NEW where \in Awaits, NEW e \in Events, NEW S \in SUBSET Events, NEW n \in Nat
      PROVE  [ew EXCEPT ![w].pc = where, ![w].event = e, ![w].due = S, ![w].lease_until = n]
                 \in [Workers -> ELocal]
  <2>1. [ew[w] EXCEPT !.pc = where, !.event = e, !.due = S, !.lease_until = n] \in ELocal
    BY <1>1, Zenon DEF ELocal
  <2> QED BY <1>1, <2>1, Zenon
<1>7. ASSUME NEW n \in Nat PROVE [ew EXCEPT ![w].lease_until = n] \in [Workers -> ELocal]
  <2>1. [ew[w] EXCEPT !.lease_until = n] \in ELocal
    BY <1>1, Zenon DEF ELocal
  <2> QED BY <1>1, <2>1, Zenon
<1>8. ASSUME NEW where \in Awaits, NEW n \in Nat
      PROVE  [ew EXCEPT ![w].pc = where, ![w].lease_until = n] \in [Workers -> ELocal]
  <2>1. [ew[w] EXCEPT !.pc = where, !.lease_until = n] \in ELocal
    BY <1>1, Zenon DEF ELocal
  <2> QED BY <1>1, <2>1, Zenon
<1>9. ASSUME NEW r \in {"off", "on", "lost"} PROVE [ew EXCEPT ![w].renewal = r] \in [Workers -> ELocal]
  <2>1. [ew[w] EXCEPT !.renewal = r] \in ELocal
    BY <1>1, Zenon DEF ELocal
  <2> QED BY <1>1, <2>1, Zenon
<1>10. ASSUME NEW c \in Listeners, NEW v \in Listeners
       PROVE  [ew EXCEPT ![w].cursor = c, ![w].to_visit = v] \in [Workers -> ELocal]
  <2>1. [ew[w] EXCEPT !.cursor = c, !.to_visit = v] \in ELocal
    BY <1>1, Zenon DEF ELocal
  <2> QED BY <1>1, <2>1, Zenon
<1> QED BY <1>2, <1>3, <1>4, <1>5, <1>7, <1>8, <1>9, <1>10, Zenon

LEMMA ListenersBounds == NumListeners - 1 \in Listeners /\ 0 \in Listeners
BY EventWorkerConstantsOK DEF Listeners

LEMMA FollowingIs ==
    ASSUME NEW c \in Listeners
    PROVE  Following(c) \in Listeners /\ NumListeners - 1 \in Listeners
<1>1. NumListeners \in Nat /\ NumListeners > 0 /\ c \in 0 .. NumListeners - 1
  BY EventWorkerConstantsOK DEF Listeners
<1>2. (c + 1) % NumListeners \in 0 .. NumListeners - 1
  BY <1>1
<1> QED BY <1>1, <1>2 DEF Following, Listeners

-------------------------------------------------------------------------------
\* The worker looks for an event.
LEMMA LookingSteps ==
    ASSUME EInv, NEW w \in Workers,
           ExpireDue(w) \/ ExpireOne(w) \/ RecoverExpired(w) \/ SkipRecovery(w)
    PROVE  EInv'
<1>1. /\ ew \in [Workers -> ELocal] /\ ew[w] \in ELocal /\ EWTypeOK /\ LocalOK(w)
      /\ NoEventStranded /\ issued \subseteq Events
  BY WorkerTypes, Zenon
<1>2. ew[w].pc \in Resting /\ accepted' = accepted /\ faults' = faults
  BY Zenon DEF ExpireDue, ExpireOne, RecoverExpired, SkipRecovery, At, Resting, History
<1>3. ew[w].due \subseteq Events /\ Due(unclaimed) \subseteq Events
  BY <1>1, Zenon DEF ELocal, Due, DueAt, NoEventStranded, TypeOK
<1>4. /\ ew' \in [Workers -> ELocal] /\ (\A x \in Workers \ {w} : ew'[x] = ew[x])
      /\ ew'[w].pc \in Resting /\ ew'[w].event = ew[w].event
      /\ ew'[w].lease_until = ew[w].lease_until /\ ew'[w].renewal = ew[w].renewal
  <2>1. CASE RecoverExpired(w) \/ SkipRecovery(w)
    <3>1. ew' = [ew EXCEPT ![w].pc = "claim"] /\ "claim" \in Awaits /\ "claim" \in Resting
      BY <2>1, Zenon DEF RecoverExpired, SkipRecovery, Goto, Awaits, NextAwaits, Resting
    <3>2. ew' \in [Workers -> ELocal]
      BY <1>1, <3>1, LocalUpdates, Zenon
    <3> QED BY <1>1, <3>1, <3>2, Zenon DEF ELocal
  <2>2. CASE ExpireDue(w)
    <3>1. PICK where \in {"recover", "expire"} : ew' = [ew EXCEPT ![w].pc = where, ![w].due = Due(unclaimed)]
      BY <2>2, Zenon DEF ExpireDue
    <3>2. where \in Awaits /\ where \in Resting
      BY Zenon DEF Awaits, NextAwaits, Resting
    <3>3. ew' \in [Workers -> ELocal]
      BY <1>1, <1>3, <3>1, <3>2, LocalUpdates, Zenon
    <3> QED BY <1>1, <3>1, <3>2, <3>3, Zenon DEF ELocal
  <2>3. CASE ExpireOne(w)
    <3>1. PICK e \in ew[w].due : ew' = [ew EXCEPT ![w].due = @ \ {e},
                              ![w].pc = IF ew[w].due = {e} THEN "recover" ELSE "expire"]
      BY <2>3, Zenon DEF ExpireOne
    <3>2. PICK where \in {"recover", "expire"} : where = IF ew[w].due = {e} THEN "recover" ELSE "expire"
      BY Zenon
    <3>3. PICK S \in SUBSET Events : S = ew[w].due \ {e}
      BY <1>3, ZenonT(30)
    <3>4. ew' = [ew EXCEPT ![w].due = S, ![w].pc = where]
      BY <1>1, <3>1, <3>2, <3>3, Zenon
    <3>5. where \in Awaits /\ where \in Resting
      BY Zenon DEF Awaits, NextAwaits, Resting
    <3>6. ew' \in [Workers -> ELocal]
      BY <1>1, <3>4, <3>5, LocalUpdates, Zenon
    <3> QED BY <1>1, <3>4, <3>5, <3>6, Zenon DEF ELocal
  <2> QED BY <2>1, <2>2, <2>3, Zenon
<1>5. lapsed' \subseteq Events
  BY <1>1, StoreFacts, Zenon DEF ExpireDue, ExpireOne, RecoverExpired, SkipRecovery, History, EWTypeOK
<1>6. Bookkeeping(w)
  BY <1>1, <1>2, <1>4, <1>5, Zenon DEF Bookkeeping, EWTypeOK
<1>7. NoEventStranded' => LocalOK(w)' /\ OwnerOK(w)'
  BY <1>1, <1>2, <1>4, AtRestOK, Zenon DEF LocalOK, InHand
<1>8. UNCHANGED vars \/ Recover \/ \E e \in Events : Expire(e)
  BY <1>3, Zenon DEF ExpireDue, ExpireOne, RecoverExpired, SkipRecovery
<1>9. [Next]_vars
  BY <1>8, Zenon DEF Next
<1>10. \A x \in Workers : Rely(x)
  BY <1>1, <1>8, RelyOnOthers, Zenon
<1> QED BY <1>6, <1>7, <1>9, <1>10, CallStep, Zenon

LEMMA ClaimStep ==
    ASSUME EInv, NEW w \in Workers, ClaimNext(w)
    PROVE  EInv'
<1>1. /\ ew \in [Workers -> ELocal] /\ ew[w] \in ELocal /\ EWTypeOK /\ LocalOK(w)
      /\ NoEventStranded /\ issued \subseteq Events /\ now \in Nat /\ now + Lease \in Nat
  BY WorkerTypes, Zenon
<1>2. PICK got \in Events \cup {NoEvent} :
          /\ Claim(w, Lease, got)
          /\ IF got = NoEvent
             THEN Again(w)
             ELSE ew' = [ew EXCEPT ![w].pc = "find", ![w].event = got, ![w].due = {},
                                   ![w].lease_until = now + Lease]
  BY Zenon DEF ClaimNext
<1>3. UNCHANGED History
  BY Zenon DEF ClaimNext, History
<1>4. [Next]_vars
  BY <1>2, EventWorkerConstantsOK, Zenon DEF Next, WorkerCall
<1>5. \A x \in Workers \ {w} : Rely(x)
  BY <1>1, <1>2, RelyOnCalls, Zenon
<1>6. CASE got = NoEvent
  <2>1. ew' = [ew EXCEPT ![w] = AtRest("expire_due", ew[w].cursor)] /\ ew[w].cursor \in Listeners
    BY <1>1, <1>2, <1>6, Zenon DEF Again, ELocal
  <2>2. /\ ew' \in [Workers -> ELocal] /\ (\A x \in Workers \ {w} : ew'[x] = ew[x])
        /\ NoEventStranded' => LocalOK(w)' /\ OwnerOK(w)'
    BY <1>1, <2>1, RestsIs, Zenon DEF Resting
  <2>3. Bookkeeping(w)
    BY <1>3, <2>2, SameHistory, Zenon
  <2> QED BY <1>4, <1>5, <2>2, <2>3, CallStep, Zenon
<1>7. CASE got # NoEvent
  <2>a. PICK n \in Nat : n = now + Lease
    BY <1>1, Zenon
  <2>1. /\ ew' = [ew EXCEPT ![w].pc = "find", ![w].event = got, ![w].due = {}, ![w].lease_until = n]
        /\ got \in Events /\ "find" \in Awaits /\ "find" \notin Resting
    BY <1>2, <1>7, <2>a, Zenon DEF Awaits, NextAwaits, Resting
  <2>2. ew' \in [Workers -> ELocal] /\ (\A x \in Workers \ {w} : ew'[x] = ew[x])
    <3>1. {} \in SUBSET Events
      BY Zenon
    <3>2. [ew EXCEPT ![w].pc = "find", ![w].event = got, ![w].due = {}, ![w].lease_until = n] \in [Workers -> ELocal]
      BY <1>1, <2>1, <3>1, LocalUpdates, Zenon
    <3> QED BY <1>1, <2>1, <3>2, Zenon
  <2>3. ew'[w].pc = "find" /\ ew'[w].event = got /\ ew'[w].lease_until = now + Lease
    BY <1>1, <2>a, <2>1, Zenon DEF ELocal
  <2>4. got \in stored /\ got \notin DOMAIN claims /\ issued' = issued /\ now' = now
    BY <1>1, <1>2, <1>7, ClaimEffect, ZenonT(30)
  <2>5. got \in issued'
    BY <1>1, <2>4, StoreFacts, Zenon
  <2>7. Owns(w, got)' /\ claims'[got].deadline = now + Lease
    BY <1>1, <1>2, <1>7, ClaimEffect, ZenonT(30)
  <2>8. LocalOK(w)' /\ OwnerOK(w)'
    <3>1. InHand(w)' = got
      BY <2>3, Zenon DEF InHand
    <3>2. LocalOK(w)'
      BY <2>1, <2>3, <2>5, <3>1, ZenonT(40) DEF LocalOK
    <3>3. claims'[got].deadline >= ew'[w].lease_until
      BY <1>1, <2>3, <2>7, SMT, SMTT(30)
    <3>4. OwnerOK(w)'
      BY <2>7, <3>1, <3>3, Zenon DEF OwnerOK
    <3> QED BY <3>2, <3>4, Zenon
  <2>9. Bookkeeping(w)
    BY <1>3, <2>2, SameHistory, Zenon
  <2> QED BY <1>4, <1>5, <2>8, <2>9, CallStep, Zenon
<1> QED BY <1>6, <1>7, Zenon

\* The worker is done with its event, or starts afresh.
LEMMA RestStep ==
    ASSUME EInv, NEW w \in Workers, NEW where \in Resting, NEW cursor \in Listeners,
           ew' = [ew EXCEPT ![w] = AtRest(where, cursor)], UNCHANGED vars,
           UNCHANGED History \/ (Fault /\ UNCHANGED <<accepted, lapsed>>)
    PROVE  EInv'
<1>1. EWTypeOK
  BY Zenon DEF EInv
<1>2. /\ ew' \in [Workers -> ELocal] /\ (\A x \in Workers \ {w} : ew'[x] = ew[x])
      /\ NoEventStranded' => LocalOK(w)' /\ OwnerOK(w)'
  BY <1>1, RestsIs, ZenonT(30)
<1>3. Bookkeeping(w)
  BY <1>2, SameHistory, FaultyHistory, Zenon
<1> QED BY <1>2, <1>3, QuietStep, Zenon

\* The worker keeps its event and its lease, and calls nothing.
LEMMA KeepStep ==
    ASSUME EInv, NEW w \in Workers, UNCHANGED vars, Bookkeeping(w),
           ew[w].pc \notin Resting, ew'[w].pc \notin Resting,
           ew'[w].event = ew[w].event, ew'[w].lease_until = ew[w].lease_until
    PROVE  EInv'
<1>1. issued' = issued
  BY Zenon DEF vars
<1>2. NoEventStranded' => LocalOK(w)' /\ OwnerOK(w)'
  BY <1>1, GoesOn, Zenon
<1> QED BY <1>2, QuietStep, Zenon

LEMMA GotoStep ==
    ASSUME EInv, NEW w \in Workers, NEW where \in Awaits \ Resting, Goto(w, where),
           UNCHANGED vars, accepted' \in [Events -> Nat], UNCHANGED <<lapsed, faults>>,
           ew[w].pc \notin Resting
    PROVE  EInv'
<1>1. ew \in [Workers -> ELocal] /\ ew[w] \in ELocal /\ EWTypeOK
  BY WorkerTypes, Zenon
<1>2. ew' = [ew EXCEPT ![w].pc = where]
  BY Zenon DEF Goto
<1>3. ew' \in [Workers -> ELocal] /\ (\A x \in Workers \ {w} : ew'[x] = ew[x])
  BY <1>1, <1>2, LocalUpdates, Zenon
<1>4. ew'[w].pc = where /\ ew'[w].event = ew[w].event /\ ew'[w].lease_until = ew[w].lease_until
  BY <1>1, <1>2, Zenon DEF ELocal
<1>5. Bookkeeping(w)
  BY <1>1, <1>3, Zenon DEF Bookkeeping, EWTypeOK
<1> QED BY <1>4, <1>5, KeepStep, Zenon

\* The claim is renewed.
LEMMA RenewedStep ==
    ASSUME EInv, NEW w \in Workers, Renew(w, InHand(w), Lease), ew[w].pc \notin Resting,
           ew'[w].pc \notin Resting, ew'[w].event = ew[w].event, ew'[w].lease_until = now + Lease,
           Bookkeeping(w)
    PROVE  EInv'
<1>1. /\ EWTypeOK /\ LocalOK(w) /\ NoEventStranded /\ issued \subseteq Events
      /\ now \in Nat /\ now + Lease \in Nat
  BY WorkerTypes, Zenon
<1>2. PICK e : e = InHand(w)
  BY ZenonT(40)
<1>3. e \in issued /\ e \in Events /\ InHand(w)' = e
  BY <1>1, <1>2, Zenon DEF LocalOK, InHand
<1>4. Owns(w, e)' /\ claims'[e].deadline = now + Lease /\ UNCHANGED <<now, issued>>
  <2>1. claims \in [DOMAIN claims -> [owner : Workers, deadline : Nat, remaining : Nat \ {0}]]
    BY <1>1, Zenon DEF NoEventStranded, TypeOK
  <2>2. /\ e \in DOMAIN claims /\ claims[e].owner = w /\ UNCHANGED <<now, issued>>
        /\ claims' = [claims EXCEPT ![e].deadline = now + Lease]
    BY <1>2, Zenon DEF Renew, CanRenew, Owns
  <2>3. e \in DOMAIN claims' /\ claims'[e].owner = w /\ claims'[e].deadline = now + Lease
    BY <2>1, <2>2, Zenon
  <2> QED BY <2>2, <2>3, Zenon DEF Owns
<1>5. LocalOK(w)'
  BY <1>3, <1>4, ZenonT(40) DEF LocalOK
<1>6. claims'[e].deadline >= ew'[w].lease_until
  BY <1>1, <1>4
<1>7. OwnerOK(w)'
  BY <1>3, <1>4, <1>6, Zenon DEF OwnerOK
<1>8. [Next]_vars
  BY <1>2, <1>3, EventWorkerConstantsOK, Zenon DEF Next, WorkerCall
<1>9. \A x \in Workers \ {w} : Rely(x)
  BY <1>1, <1>2, <1>3, RelyOnCalls, Zenon
<1> QED BY <1>5, <1>7, <1>8, <1>9, CallStep, Zenon

LEMMA FindSteps ==
    ASSUME EInv, NEW w \in Workers, FindClaimed(w) \/ DropMissing(w) \/ EndDispatch(w)
    PROVE  EInv'
<1>1. /\ ew \in [Workers -> ELocal] /\ ew[w] \in ELocal /\ EWTypeOK /\ LocalOK(w)
      /\ NoEventStranded /\ issued \subseteq Events
  BY WorkerTypes, Zenon
<1>2. UNCHANGED History /\ ew[w].cursor \in Listeners /\ ew[w].pc \notin Resting
  BY <1>1, Zenon DEF FindClaimed, DropMissing, EndDispatch, ELocal, At, Resting
<1>3. accepted' \in [Events -> Nat] /\ UNCHANGED <<accepted, lapsed, faults>>
  BY <1>1, <1>2, Zenon DEF History, EWTypeOK
<1>4. CASE FindClaimed(w)
  <2>1. PICK where \in {"renew", "drop"} : Goto(w, where)
    BY <1>4, Zenon DEF FindClaimed
  <2>2. where \in Awaits \ Resting
    BY Zenon DEF Awaits, NextAwaits, Resting
  <2> QED BY <1>2, <1>3, <1>4, <2>1, <2>2, GotoStep, Zenon DEF FindClaimed
<1>5. CASE EndDispatch(w)
  <2>1. PICK where \in {"stopped", "expire_due"} : ew' = [ew EXCEPT ![w] = AtRest(where, ew[w].cursor)]
    BY <1>5, Zenon DEF EndDispatch, Again
  <2> QED BY <1>2, <1>5, <2>1, RestStep, Zenon DEF EndDispatch, Resting
<1>6. CASE DropMissing(w)
  <2>1. ew' = [ew EXCEPT ![w] = AtRest("expire_due", ew[w].cursor)]
    BY <1>6, Zenon DEF DropMissing, Again
  <2>2. CASE UNCHANGED vars
    BY <1>2, <2>1, <2>2, RestStep, Zenon DEF Resting
  <2>3. CASE Remove(w, InHand(w))
    <3>1. InHand(w) \in issued /\ InHand(w) \in Events
      BY <1>1, <1>2, Zenon DEF LocalOK
    <3>2. [Next]_vars
      BY <2>3, <3>1, Zenon DEF Next, WorkerCall
    <3>3. \A x \in Workers \ {w} : Rely(x)
      BY <1>1, <2>3, <3>1, RelyOnCalls, Zenon
    <3>4. /\ ew' \in [Workers -> ELocal] /\ (\A x \in Workers \ {w} : ew'[x] = ew[x])
          /\ NoEventStranded' => LocalOK(w)' /\ OwnerOK(w)'
      BY <1>1, <1>2, <2>1, RestsIs, Zenon DEF Resting
    <3>5. Bookkeeping(w)
      BY <1>2, <3>4, SameHistory, Zenon
    <3> QED BY <3>2, <3>3, <3>4, <3>5, CallStep, Zenon
  <2> QED BY <1>6, <2>2, <2>3, Zenon DEF DropMissing
<1> QED BY <1>4, <1>5, <1>6, Zenon

LEMMA RenewSteps ==
    ASSUME EInv, NEW w \in Workers, RenewBeforeDispatch(w) \/ RenewClaim(w) \/ RenewalRaises(w)
    PROVE  EInv'
<1>1. /\ ew \in [Workers -> ELocal] /\ ew[w] \in ELocal /\ EWTypeOK /\ LocalOK(w)
      /\ now \in Nat /\ now + Lease \in Nat
  BY WorkerTypes, Zenon
<1>2. ew[w].pc \notin Resting /\ ew[w].cursor \in Listeners
  BY <1>1, Zenon DEF RenewBeforeDispatch, RenewClaim, RenewalRaises, At, LocalOK, ELocal, Resting
<1>3. CASE RenewBeforeDispatch(w)
  <2>1. CASE /\ Renew(w, InHand(w), Lease)
             /\ ew' = [ew EXCEPT ![w].pc = "listen", ![w].renewal = "on",
                              ![w].cursor = Following(ew[w].cursor), ![w].to_visit = NumListeners - 1,
                              ![w].lease_until = now + Lease]
    <3>1. PICK c \in Listeners : c = Following(ew[w].cursor)
      BY <1>2, FollowingIs, ZenonT(40)
    <3>2. PICK v \in Listeners : v = NumListeners - 1
      BY <1>2, FollowingIs, Zenon
    <3>3. PICK n \in Nat : n = now + Lease
      BY <1>1, Zenon
    <3>4. ew' = [ew EXCEPT ![w].pc = "listen", ![w].renewal = "on", ![w].cursor = c,
                           ![w].to_visit = v, ![w].lease_until = n]
      BY <1>1, <2>1, <3>1, <3>2, <3>3, Zenon DEF ELocal
    <3>5. "listen" \in Awaits /\ "listen" \notin Resting
      BY Zenon DEF Awaits, DispatchAwaits, Resting
    <3>6. ew' \in [Workers -> ELocal] /\ (\A x \in Workers \ {w} : ew'[x] = ew[x])
      <4>1. ew' \in [Workers -> ELocal]
        <5>1. [ew[w] EXCEPT !.pc = "listen", !.renewal = "on", !.cursor = c, !.to_visit = v,
                            !.lease_until = n] \in ELocal
          BY <1>1, <3>5, Zenon DEF ELocal
        <5> QED BY <1>1, <3>4, <5>1, Zenon
      <4> QED BY <1>1, <3>4, <4>1, Zenon
    <3>7. ew'[w].pc = "listen" /\ ew'[w].event = ew[w].event /\ ew'[w].lease_until = n
      BY <1>1, <3>4, Zenon DEF ELocal
    <3>8. Bookkeeping(w)
      BY <1>3, <3>6, SameHistory, Zenon DEF RenewBeforeDispatch
    <3> QED BY <1>2, <2>1, <3>3, <3>5, <3>7, <3>8, RenewedStep, Zenon
  <2>2. CASE Again(w) /\ UNCHANGED vars
    <3>1. ew' = [ew EXCEPT ![w] = AtRest("expire_due", ew[w].cursor)]
      BY <2>2, Zenon DEF Again
    <3> QED BY <1>2, <1>3, <2>2, <3>1, RestStep, ZenonT(30) DEF RenewBeforeDispatch, Resting
  <2> QED BY <1>3, <2>1, <2>2, Zenon DEF RenewBeforeDispatch
<1>4. CASE RenewClaim(w) /\ Renew(w, InHand(w), Lease) /\ ew' = [ew EXCEPT ![w].lease_until = now + Lease]
  <2>1. ew' \in [Workers -> ELocal] /\ (\A x \in Workers \ {w} : ew'[x] = ew[x])
    BY <1>1, <1>4, LocalUpdates, Zenon
  <2>2. ew'[w].pc = ew[w].pc /\ ew'[w].event = ew[w].event /\ ew'[w].lease_until = now + Lease
    BY <1>1, <1>4, Zenon DEF ELocal
  <2>3. Bookkeeping(w)
    BY <1>4, <2>1, SameHistory, Zenon DEF RenewClaim
  <2> QED BY <1>2, <1>4, <2>2, <2>3, RenewedStep, Zenon
<1>5. CASE (RenewClaim(w) \/ RenewalRaises(w)) /\ ew' = [ew EXCEPT ![w].renewal = "lost"] /\ UNCHANGED vars
  <2>1. ew' \in [Workers -> ELocal] /\ (\A x \in Workers \ {w} : ew'[x] = ew[x])
    BY <1>1, <1>5, LocalUpdates, Zenon
  <2>2. ew'[w].pc = ew[w].pc /\ ew'[w].event = ew[w].event /\ ew'[w].lease_until = ew[w].lease_until
    BY <1>1, <1>5, Zenon DEF ELocal
  <2>3. Bookkeeping(w)
    BY <1>5, <2>1, SameHistory, FaultyHistory, ZenonT(40) DEF RenewClaim, RenewalRaises
  <2> QED BY <1>2, <1>5, <2>2, <2>3, KeepStep, Zenon
<1> QED BY <1>3, <1>4, <1>5, Zenon DEF RenewClaim, RenewalRaises

LEMMA ListenStep ==
    ASSUME EInv, NEW w \in Workers, ListenerAnswers(w)
    PROVE  EInv'
<1>1. /\ ew \in [Workers -> ELocal] /\ ew[w] \in ELocal /\ EWTypeOK /\ LocalOK(w) /\ issued \subseteq Events
  BY WorkerTypes, Zenon
<1>2. ew[w].pc \notin Resting /\ UNCHANGED <<vars, lapsed, faults>>
  BY Zenon DEF ListenerAnswers, At, Resting
<1>3. InHand(w) \in Events
  BY <1>1, <1>2, Zenon DEF LocalOK
<1>4. accepted' \in [Events -> Nat]
  <2>1. accepted' = [accepted EXCEPT ![InHand(w)] = @ + 1] \/ accepted' = accepted
    BY Zenon DEF ListenerAnswers
  <2>2. accepted \in [Events -> Nat]
    BY <1>1, Zenon DEF EWTypeOK
  <2> QED BY <1>3, <2>1, <2>2, SMT, SMTT(30)
<1>5. ASSUME NEW where \in {"release", "stop_renewal", "remove"}, Goto(w, where) PROVE EInv'
  <2>1. where \in Awaits \ Resting
    BY Zenon DEF Awaits, DispatchAwaits, Resting
  <2> QED BY <1>2, <1>4, <1>5, <2>1, GotoStep, Zenon
<1>6. ASSUME NextListener(w), ew[w].to_visit # 0 PROVE EInv'
  <2>1. ew[w].cursor \in Listeners /\ ew[w].to_visit \in Listeners
    BY <1>1, Zenon DEF ELocal
  <2>2. PICK c \in Listeners : c = (ew[w].cursor + 1) % NumListeners
    BY <2>1, FollowingIs, Zenon DEF Following
  <2>3. PICK v \in Listeners : v = ew[w].to_visit - 1
    <3>1. NumListeners \in Nat
      BY EventWorkerConstantsOK, Zenon
    <3> QED BY <1>6, <2>1, <3>1, SMT, SMTT(30) DEF Listeners
  <2>4. ew' = [ew EXCEPT ![w].cursor = c, ![w].to_visit = v]
    BY <1>1, <1>6, <2>2, <2>3, Zenon DEF NextListener, ELocal
  <2>5. ew' \in [Workers -> ELocal] /\ (\A x \in Workers \ {w} : ew'[x] = ew[x])
    <3>1. ew' \in [Workers -> ELocal]
      BY <1>1, <2>4, LocalUpdates, Zenon
    <3> QED BY <1>1, <2>4, <3>1, Zenon
  <2>6. ew'[w].pc = ew[w].pc /\ ew'[w].event = ew[w].event /\ ew'[w].lease_until = ew[w].lease_until
    BY <1>1, <2>4, Zenon DEF ELocal
  <2>7. Bookkeeping(w)
    BY <1>1, <1>2, <1>4, <2>5, Zenon DEF Bookkeeping, EWTypeOK
  <2> QED BY <1>2, <2>6, <2>7, KeepStep, Zenon
<1>7. NextListener(w) => EInv'
  BY <1>5, <1>6, Zenon DEF NextListener
<1> QED BY <1>5, <1>7, Zenon DEF ListenerAnswers

\* The event is removed or given back, and the lease forgotten.
LEMMA GiveUpSteps ==
    ASSUME EInv, NEW w \in Workers, RemoveCall(w) \/ ReleaseCall(w)
    PROVE  EInv'
<1>1. /\ ew \in [Workers -> ELocal] /\ ew[w] \in ELocal /\ EWTypeOK /\ LocalOK(w)
      /\ NoEventStranded /\ issued \subseteq Events
  BY WorkerTypes, Zenon
<1>2. /\ ew[w].pc \notin Resting /\ UNCHANGED History
      /\ ew' = [ew EXCEPT ![w].pc = "stop_renewal", ![w].lease_until = 0]
  BY Zenon DEF RemoveCall, ReleaseCall, At, Resting
<1>3. PICK e : e = InHand(w)
  BY Zenon
<1>4. e \in issued /\ e \in Events
  BY <1>1, <1>2, <1>3, Zenon DEF LocalOK
<1>5. "stop_renewal" \in Awaits /\ "stop_renewal" \notin Resting
  BY Zenon DEF Awaits, Resting
<1>6. ew' \in [Workers -> ELocal] /\ (\A x \in Workers \ {w} : ew'[x] = ew[x])
  <2>1. ew' \in [Workers -> ELocal]
    BY <1>1, <1>2, <1>5, LocalUpdates, Zenon
  <2> QED BY <1>1, <1>2, <2>1, Zenon
<1>7. ew'[w].pc = "stop_renewal" /\ ew'[w].event = ew[w].event /\ ew'[w].lease_until = 0
  BY <1>1, <1>2, Zenon DEF ELocal
<1>8. Bookkeeping(w)
  BY <1>2, <1>6, SameHistory, Zenon
<1>9. UNCHANGED vars \/ Remove(w, e) \/ Release(w, e, ReleaseDelay)
  BY <1>3, Zenon DEF RemoveCall, ReleaseCall
<1>10. [Next]_vars /\ issued' = issued
  BY <1>4, <1>9, EventWorkerConstantsOK, ZenonT(30) DEF Next, WorkerCall, Remove, Release, ReleaseUntil, Forget, vars
<1>11. \A x \in Workers \ {w} : Rely(x)
  BY <1>1, <1>4, <1>9, RelyOnCalls, RelyOnOthers, Zenon
<1>12. NoEventStranded' => LocalOK(w)' /\ OwnerOK(w)'
  BY <1>2, <1>5, <1>7, <1>10, GoesOn, Zenon
<1> QED BY <1>8, <1>10, <1>11, <1>12, CallStep, Zenon

LEMMA FaultSteps ==
    ASSUME EInv, NEW w \in Workers, Raise(w) \/ Cancel(w) \/ Die(w)
    PROVE  EInv'
<1>1. ew \in [Workers -> ELocal] /\ ew[w] \in ELocal /\ EWTypeOK /\ LocalOK(w)
  BY WorkerTypes, Zenon
<1>2. Fault /\ UNCHANGED vars /\ UNCHANGED <<accepted, lapsed>>
  BY Zenon DEF Raise, Cancel, Die
<1>3. ew[w].cursor \in Listeners /\ NumListeners - 1 \in Listeners
  BY <1>1, FollowingIs, Zenon DEF ELocal
<1>4. CASE \E where \in {"stopped", "expire_due"}, cursor \in {ew[w].cursor, NumListeners - 1} :
              ew' = [ew EXCEPT ![w] = AtRest(where, cursor)]
  BY <1>2, <1>3, <1>4, RestStep, Zenon DEF Resting
<1>5. CASE Cancel(w) /\ ew[w].pc \in DispatchAwaits
  <2>a. PICK r : r = [ew[w] EXCEPT !.pc = "release_cancelled", !.closing = TRUE]
    BY Zenon
  <2>b. ew[w].pc # "stop_renewal"
    BY <1>5, Zenon DEF DispatchAwaits
  <2>c. r = CASE ew[w].pc \in DispatchAwaits ->
                 [ew[w] EXCEPT !.pc = "release_cancelled", !.closing = TRUE]
              [] ew[w].pc = "stop_renewal" -> ew[w]
              [] OTHER -> AtRest("stopped", ew[w].cursor)
    BY <1>5, <2>a, <2>b, Zenon
  <2>d. ew' = [ew EXCEPT ![w] = r]
    BY <1>5, <2>c, Zenon DEF Cancel
  <2>1. ew' = [ew EXCEPT ![w] = [ew[w] EXCEPT !.pc = "release_cancelled", !.closing = TRUE]]
    BY <2>a, <2>d, Zenon
  <2>2. "release_cancelled" \in Awaits /\ "release_cancelled" \notin Resting /\ ew[w].pc \notin Resting
    BY <1>5, Zenon DEF Awaits, DispatchAwaits, Resting
  <2>3. [ew[w] EXCEPT !.pc = "release_cancelled", !.closing = TRUE] \in ELocal
    BY <1>1, <2>2, Zenon DEF ELocal
  <2>4. ew' \in [Workers -> ELocal] /\ (\A x \in Workers \ {w} : ew'[x] = ew[x])
    BY <1>1, <2>1, <2>3, Zenon
  <2>5. ew'[w].pc = "release_cancelled" /\ ew'[w].event = ew[w].event /\ ew'[w].lease_until = ew[w].lease_until
    BY <1>1, <2>1, Zenon DEF ELocal
  <2>6. Bookkeeping(w)
    BY <1>2, <2>4, FaultyHistory, Zenon
  <2> QED BY <1>2, <2>2, <2>5, <2>6, KeepStep, Zenon
<1>6. CASE Cancel(w) /\ ew[w].pc = "stop_renewal"
  <2>1. ew' = ew
    BY <1>1, <1>6, Zenon DEF Cancel, DispatchAwaits
  <2>2. Bookkeeping(w)
    BY <1>1, <1>2, <2>1, FaultyHistory, Zenon
  <2> QED BY <1>2, <1>6, <2>1, <2>2, KeepStep, Zenon DEF Resting
<1>7. CASE Cancel(w) /\ ew[w].pc \notin DispatchAwaits \cup {"stop_renewal"}
  <2>1. ew' = [ew EXCEPT ![w] = AtRest("stopped", ew[w].cursor)]
    BY <1>7, Zenon DEF Cancel
  <2> QED BY <1>4, <2>1, Zenon
<1>8. CASE Raise(w) \/ Die(w)
  BY <1>4, <1>8, Zenon DEF Raise, Die
<1> QED BY <1>5, <1>6, <1>7, <1>8, Zenon

\* Producers, consumers, clears and the clock.
Outside ==
    \/ \E e \in Events, life \in Lifetimes : Enqueue(e, life)
    \/ \E e \in Events : AclearOne(e)
    \/ \E got \in Events \cup {NoEvent} : Adequeue(got)
    \/ PassTime

LEMMA OutsideStep ==
    ASSUME EInv, Outside \/ UNCHANGED allvars
    PROVE  EInv'
<1>1. NoEventStranded /\ stored \subseteq issued
  BY StoreFacts, Zenon DEF EInv
<1>2. UNCHANGED <<ew, accepted, lapsed, faults>>
  BY Zenon DEF Outside, Enqueue, AclearOne, Adequeue, PassTime, allvars, ewvars
<1>3. \/ \E e \in Events, life \in Lifetimes : StoreEventAndPush(e, life)
      \/ \E e \in issued : Delete(e)
      \/ \E got \in Events \cup {NoEvent} : DequeueEvent(got)
      \/ Tick \/ UNCHANGED vars
  BY <1>1, Zenon DEF Outside, Enqueue, AclearOne, Adequeue, PassTime, allvars
<1>4. [Next]_vars
  BY <1>3, Zenon DEF Next
<1>5. NoEventStranded'
  BY <1>1, <1>4, NextInv, Zenon
<1>6. issued \subseteq Events
  BY <1>1, Zenon DEF NoEventStranded, TypeOK
<1>7. \A x \in Workers : Rely(x)
  BY <1>1, <1>3, <1>6, RelyOnOthers, Zenon
<1>8. \A x \in Workers : LocalOK(x)' /\ OwnerOK(x)'
  BY <1>2, <1>5, <1>7, Undisturbed, Zenon
<1>9. EWTypeOK'
  BY <1>2, Zenon DEF EInv, EWTypeOK
<1> QED BY <1>5, <1>8, <1>9, Zenon DEF EInv

LEMMA AtRestAtFirst ==
    \A c : /\ AtRest("expire_due", c).pc = "expire_due" /\ AtRest("expire_due", c).event = NoEvent
          /\ AtRest("expire_due", c).renewal = "off" /\ AtRest("expire_due", c).lease_until = 0
BY Zenon DEF AtRest

LEMMA EWInitInv == EWInit => EInv
<1> SUFFICES ASSUME EWInit PROVE EInv
  BY Zenon
<1>1. NoEventStranded /\ now \in Nat
  BY InitInv, Zenon DEF EWInit, NoEventStranded, TypeOK
<1>2. NumListeners - 1 \in Listeners /\ 0 \in Listeners
  BY ListenersBounds, ZenonT(40)
<1>3. AtRest("expire_due", NumListeners - 1) \in ELocal
  BY <1>2, Zenon DEF AtRest, ELocal, Awaits, NextAwaits
<1>4. ew \in [Workers -> ELocal] /\ accepted \in [Events -> Nat]
  BY <1>3, Zenon DEF EWInit
<1>5. lapsed \subseteq Events /\ faults \in 0 .. MaxFaults
  BY EventWorkerConstantsOK DEF EWInit
<1>6. EWTypeOK
  BY <1>4, <1>5, TypeIs, Zenon
<1>7. \A w \in Workers : ew[w] = AtRest("expire_due", NumListeners - 1)
  BY Zenon DEF EWInit
<1>8. ASSUME NEW w \in Workers PROVE LocalOK(w) /\ OwnerOK(w)
  <2>1. PICK c : ew[w] = AtRest("expire_due", c)
    BY <1>7, Zenon
  <2>2. ew[w].pc = "expire_due" /\ ew[w].event = NoEvent /\ ew[w].renewal = "off" /\ ew[w].lease_until = 0
    BY <2>1, AtRestAtFirst, Zenon
  <2> QED BY <1>1, <2>2, Ordering, Zenon DEF LocalOK, OwnerOK, InHand, Resting
<1> QED BY <1>1, <1>6, <1>8, Zenon DEF EInv

LEMMA EWNextInv == EInv /\ [EWNext]_allvars => EInv'
<1> SUFFICES ASSUME EInv, [EWNext]_allvars PROVE EInv'
  BY Zenon
<1>1. CASE Outside \/ UNCHANGED allvars
  BY <1>1, OutsideStep, Zenon
<1>2. ASSUME NEW w \in Workers, Step(w) PROVE EInv'
  BY <1>2, LookingSteps, ClaimStep, FindSteps, RenewSteps, ListenStep, GiveUpSteps, Zenon DEF Step
<1>3. ASSUME NEW w \in Workers, RenewClaim(w) \/ Raise(w) \/ RenewalRaises(w) \/ Cancel(w) \/ Die(w)
      PROVE  EInv'
  BY <1>3, RenewSteps, FaultSteps, Zenon
<1> QED BY <1>1, <1>2, <1>3, Zenon DEF EWNext, Outside

LEMMA EWInvariant == EWSpec => []EInv
BY EWInitInv, EWNextInv, PTL DEF EWSpec

\* Every call of a worker, and every call from outside, is one of the store's.
LEMMA StoreStep ==
    ASSUME EInv, NEW w \in Workers, Step(w) \/ RenewClaim(w)
    PROVE  [Next]_vars
<1>1. LocalOK(w) /\ issued \subseteq Events /\ ew[w] \in ELocal
  BY WorkerTypes, Zenon
<1>2. CASE ExpireOne(w)
  <2>1. ew[w].due \subseteq Events
    BY <1>1, Zenon DEF ELocal
  <2> QED BY <1>2, <2>1, Zenon DEF ExpireOne, Next
<1>3. CASE RecoverExpired(w)
  BY <1>3, Zenon DEF RecoverExpired, Next
<1>4. CASE ClaimNext(w)
  BY <1>4, EventWorkerConstantsOK, Zenon DEF ClaimNext, Next, WorkerCall
<1>5. CASE DropMissing(w) \/ RenewBeforeDispatch(w) \/ RemoveCall(w) \/ ReleaseCall(w) \/ RenewClaim(w)
  <2>1. ew[w].pc \notin Resting
    BY <1>1, <1>5, Zenon DEF DropMissing, RenewBeforeDispatch, RemoveCall, ReleaseCall, RenewClaim, At, Resting, LocalOK
  <2>2. InHand(w) \in Events
    BY <1>1, <2>1, Zenon DEF LocalOK
  <2>3. \/ UNCHANGED vars \/ Remove(w, InHand(w)) \/ Renew(w, InHand(w), Lease)
        \/ Release(w, InHand(w), ReleaseDelay)
    BY <1>5, Zenon DEF DropMissing, RenewBeforeDispatch, RemoveCall, ReleaseCall, RenewClaim
  <2> QED BY <2>2, <2>3, EventWorkerConstantsOK, Zenon DEF Next, WorkerCall
<1>6. CASE ExpireDue(w) \/ SkipRecovery(w) \/ FindClaimed(w) \/ ListenerAnswers(w) \/ EndDispatch(w)
  BY <1>6, Zenon DEF ExpireDue, SkipRecovery, FindClaimed, ListenerAnswers, EndDispatch
<1> QED BY <1>2, <1>3, <1>4, <1>5, <1>6, Zenon DEF Step

LEMMA OutsideCalls ==
    ASSUME EInv, Outside \/ UNCHANGED allvars
    PROVE  [Next]_vars
<1>1. stored \subseteq issued
  BY StoreFacts, Zenon DEF EInv
<1>2. \/ \E e \in Events, life \in Lifetimes : StoreEventAndPush(e, life)
      \/ \E e \in issued : Delete(e)
      \/ \E got \in Events \cup {NoEvent} : DequeueEvent(got)
      \/ Tick \/ UNCHANGED vars
  BY <1>1, Zenon DEF Outside, Enqueue, AclearOne, Adequeue, PassTime, allvars
<1> QED BY <1>2, Zenon DEF Next

-------------------------------------------------------------------------------
\* A worker holds an event from the claim until it has removed or released it.
Holding(w, e) == InHand(w) = e /\ ew[w].pc # "stop_renewal"

\* An event that recovery took from nobody, in a history without faults: it has
\* one holder, who owns it unless it was cleared, and once it was taken, it is
\* gone or still claimed, and whoever holds it is about to remove it.
Single(e) ==
    /\ \A w \in Workers : Holding(w, e) => Owns(w, e) \/ e \notin stored
    /\ \A w, v \in Workers : Holding(w, e) /\ Holding(v, e) => w = v
    /\ accepted[e] <= 1
    /\ accepted[e] > 0 =>
          /\ e \notin stored \/ e \in DOMAIN claims
          /\ \A w \in Workers : Holding(w, e) => ew[w].pc = "remove"

OnceInv ==
    /\ \A e \in Events : accepted[e] > 0 => e \in issued
    /\ faults = 0 => \A e \in Events \ lapsed : Single(e)

\* A step that leaves the event, and those who hold it, as they are.
StoreKeeps(e) ==
    /\ e \in stored' => e \in stored
    /\ e \in DOMAIN claims =>
          \/ e \in DOMAIN claims' /\ claims'[e].owner = claims[e].owner
          \/ e \notin stored'
WorkersKeep(e) ==
    \A w \in Workers : Holding(w, e)' =>
        Holding(w, e) /\ (ew[w].pc = "remove" => ew'[w].pc = "remove")

LEMMA KeepsSingle ==
    ASSUME NEW e \in Events, Single(e), StoreKeeps(e), WorkersKeep(e), accepted'[e] = accepted[e]
    PROVE  Single(e)'
<1>1. \A w \in Workers : Owns(w, e) => Owns(w, e)' \/ e \notin stored'
  BY Zenon DEF StoreKeeps, Owns
<1>2. \A w \in Workers : Holding(w, e)' => Owns(w, e)' \/ e \notin stored'
  BY <1>1, ZenonT(30) DEF Single, StoreKeeps, WorkersKeep
<1>3. \A w, v \in Workers : Holding(w, e)' /\ Holding(v, e)' => w = v
  BY Zenon DEF Single, WorkersKeep
<1>4. accepted[e] > 0 => /\ e \notin stored' \/ e \in DOMAIN claims'
                         /\ \A w \in Workers : Holding(w, e)' => ew'[w].pc = "remove"
  BY Zenon DEF Single, StoreKeeps, WorkersKeep
<1> QED BY <1>2, <1>3, <1>4, ZenonT(30) DEF Single

\* A worker's step leaves the others where they are.
LEMMA OthersStay ==
    ASSUME EWTypeOK, NEW w \in Workers, Step(w) \/ RenewClaim(w), NEW x \in Workers \ {w}
    PROVE  ew'[x] = ew[x]
<1>1. DOMAIN ew = Workers
  BY Zenon DEF EWTypeOK
<1>2. ASSUME Again(w) \/ (\E where : Goto(w, where)) \/ NextListener(w) PROVE ew'[x] = ew[x]
  BY <1>1, <1>2, Zenon DEF Again, Goto, NextListener
<1>3. CASE ExpireDue(w) \/ ExpireOne(w)
  BY <1>1, <1>3, Zenon DEF ExpireDue, ExpireOne
<1>4. CASE RecoverExpired(w) \/ SkipRecovery(w) \/ FindClaimed(w) \/ DropMissing(w)
  BY <1>2, <1>4, Zenon DEF RecoverExpired, SkipRecovery, FindClaimed, DropMissing
<1>5. CASE ClaimNext(w)
  BY <1>1, <1>2, <1>5, Zenon DEF ClaimNext
<1>6. CASE RenewBeforeDispatch(w) \/ RenewClaim(w)
  BY <1>1, <1>2, <1>6, Zenon DEF RenewBeforeDispatch, RenewClaim
<1>7. CASE ListenerAnswers(w)
  BY <1>2, <1>7, Zenon DEF ListenerAnswers
<1>8. CASE RemoveCall(w) \/ ReleaseCall(w)
  BY <1>1, <1>8, Zenon DEF RemoveCall, ReleaseCall
<1>9. CASE EndDispatch(w)
  BY <1>1, <1>2, <1>9, ZenonT(40) DEF EndDispatch
<1> QED BY <1>3, <1>4, <1>5, <1>6, <1>7, <1>8, <1>9, ZenonT(40) DEF Step

\* So only the worker itself can come to hold an event.
LEMMA OneMoves ==
    ASSUME EWTypeOK, NEW w \in Workers, Step(w) \/ RenewClaim(w), NEW e \in Events,
           Holding(w, e)' => Holding(w, e) /\ (ew[w].pc = "remove" => ew'[w].pc = "remove")
    PROVE  WorkersKeep(e)
BY OthersStay, Zenon DEF WorkersKeep, Holding, InHand

\* Steps after which the worker holds nothing, or what it held.
LEMMA HeldBefore ==
    ASSUME EInv, EInv', NEW w \in Workers, NEW e \in Events,
           \/ ExpireDue(w) \/ ExpireOne(w) \/ RecoverExpired(w) \/ SkipRecovery(w) \/ FindClaimed(w)
           \/ DropMissing(w) \/ RenewBeforeDispatch(w) \/ ListenerAnswers(w)
           \/ RemoveCall(w) \/ ReleaseCall(w) \/ EndDispatch(w) \/ RenewClaim(w),
           Holding(w, e)'
    PROVE  Holding(w, e) /\ (ew[w].pc = "remove" => ew'[w].pc = "remove")
<1>1. ew \in [Workers -> ELocal] /\ ew[w] \in ELocal
  BY WorkerTypes, Zenon
<1>2. LocalOK(w) /\ LocalOK(w)' /\ NoEvent # e
  BY EventConstantsOK, Zenon DEF EInv
<1>3. ew'[w].pc \notin Resting /\ ew'[w].pc # "stop_renewal" /\ ew'[w].event = e
  BY <1>2, Zenon DEF LocalOK, Holding, InHand
<1>4. ASSUME ew' = [ew EXCEPT ![w] = AtRest("expire_due", ew[w].cursor)] \/ Again(w) PROVE FALSE
  BY <1>1, <1>3, <1>4, SMT, SMTT(30) DEF Again, AtRest, Resting
<1>5. ASSUME NEW where, Goto(w, where) PROVE ew'[w].pc = where /\ ew'[w].event = ew[w].event
  BY <1>1, <1>5, Zenon DEF Goto, ELocal
<1>6. CASE RecoverExpired(w) \/ SkipRecovery(w)
  BY <1>3, <1>5, <1>6, ZenonT(30) DEF RecoverExpired, SkipRecovery, Resting
<1>7. CASE ExpireDue(w)
  <2>1. PICK where \in {"recover", "expire"} : ew' = [ew EXCEPT ![w].pc = where, ![w].due = Due(unclaimed)]
    BY <1>7, Zenon DEF ExpireDue
  <2>2. ew'[w].pc = where
    BY <1>1, <2>1, Zenon DEF ELocal
  <2> QED BY <1>3, <2>2, Zenon DEF Resting
<1>8. CASE ExpireOne(w)
  <2>1. PICK f \in ew[w].due : ew' = [ew EXCEPT ![w].due = @ \ {f},
                              ![w].pc = IF ew[w].due = {f} THEN "recover" ELSE "expire"]
    BY <1>8, ZenonT(30) DEF ExpireOne
  <2>2. ew'[w].pc = IF ew[w].due = {f} THEN "recover" ELSE "expire"
    BY <1>1, <2>1, Zenon DEF ELocal
  <2> QED BY <1>3, <2>2, Zenon DEF Resting
<1>9. CASE FindClaimed(w)
  <2>1. ew[w].pc = "find" /\ ew'[w].event = ew[w].event
    BY <1>5, <1>9, Zenon DEF FindClaimed, At
  <2> QED BY <1>3, <2>1, Zenon DEF Holding, InHand
<1>10. CASE DropMissing(w)
  BY <1>4, <1>10, Zenon DEF DropMissing
<1>11. CASE EndDispatch(w)
  <2>1. ew' = [ew EXCEPT ![w] = AtRest("stopped", ew[w].cursor)] \/ Again(w)
    BY <1>11, Zenon DEF EndDispatch
  <2>2. ew' # [ew EXCEPT ![w] = AtRest("stopped", ew[w].cursor)]
    BY <1>1, <1>3, SMT, SMTT(30) DEF AtRest, Resting
  <2> QED BY <1>4, <2>1, <2>2, Zenon
<1>12. CASE RemoveCall(w) \/ ReleaseCall(w)
  <2>1. ew' = [ew EXCEPT ![w].pc = "stop_renewal", ![w].lease_until = 0]
    BY <1>12, Zenon DEF RemoveCall, ReleaseCall
  <2>2. ew'[w].pc = "stop_renewal"
    BY <1>1, <2>1, Zenon DEF ELocal
  <2> QED BY <1>3, <2>2, Zenon
<1>13. CASE RenewBeforeDispatch(w)
  <2>1. ew[w].pc = "renew" /\ (Again(w) \/
          ew' = [ew EXCEPT ![w].pc = "listen", ![w].renewal = "on",
                           ![w].cursor = Following(ew[w].cursor), ![w].to_visit = NumListeners - 1,
                           ![w].lease_until = now + Lease])
    BY <1>13, Zenon DEF RenewBeforeDispatch, At
  <2>2. ew'[w].event = ew[w].event
    BY <1>1, <1>4, <2>1, SMT, SMTT(30) DEF ELocal
  <2> QED BY <1>3, <2>1, <2>2, Zenon DEF Holding, InHand
<1>14. CASE RenewClaim(w)
  <2>1. ew'[w].event = ew[w].event /\ ew'[w].pc = ew[w].pc
    BY <1>1, <1>14, SMT, SMTT(30) DEF RenewClaim, ELocal
  <2> QED BY <1>3, <2>1, Zenon DEF Holding, InHand
<1>15. CASE ListenerAnswers(w)
  <2>1. ew[w].pc = "listen" /\ ((\E where : Goto(w, where)) \/ NextListener(w))
    BY <1>15, Zenon DEF ListenerAnswers, At
  <2>2. NextListener(w) => ew'[w].event = ew[w].event
    BY <1>1, <1>5 DEF NextListener, ELocal
  <2> QED BY <1>3, <1>5, <2>1, <2>2, ZenonT(30) DEF Holding, InHand
<1> QED BY <1>6, <1>7, <1>8, <1>9, <1>10, <1>11, <1>12, <1>13, <1>14, <1>15, Zenon

\* What the calls do to an event, apart from its claim and its release.
LEMMA CallKeeps ==
    ASSUME NoEventStranded, NEW e \in Events,
           \/ UNCHANGED vars
           \/ \E f : Expire(f) \/ Delete(f)
           \/ \E w, f : Renew(w, f, Lease) \/ Remove(w, f)
           \/ \E w, f : f # e /\ Release(w, f, ReleaseDelay)
           \/ \E w : \E got \in Events \cup {NoEvent} : got # e /\ Claim(w, Lease, got)
           \/ \E got : DequeueEvent(got)
           \/ Recover /\ e \notin DOMAIN claims \ DOMAIN claims'
           \/ Tick
    PROVE  StoreKeeps(e)
<1> USE DEF StoreKeeps
<1>1. CASE UNCHANGED vars \/ Tick
  BY <1>1, Zenon DEF vars, store, Tick
<1>2. CASE \E f : Expire(f) \/ Delete(f)
  BY <1>2, ZenonT(30) DEF Expire, Delete, Forget, Without
<1>3. CASE \E w, f : Renew(w, f, Lease)
  <2>1. PICK w : \E f : Renew(w, f, Lease)
    BY <1>3, ZenonT(30)
  <2>2. PICK f : Renew(w, f, Lease)
    BY <2>1, Zenon
  <2>3. claims \in [DOMAIN claims -> [owner : Workers, deadline : Nat, remaining : Nat \ {0}]]
    BY Zenon DEF NoEventStranded, TypeOK
  <2>4. claims' = [claims EXCEPT ![f].deadline = now + Lease] /\ stored' = stored
    BY <2>2, Zenon DEF Renew
  <2> QED BY <2>3, <2>4, Zenon
<1>4. CASE \E w, f : Remove(w, f)
  BY <1>4, ZenonT(30) DEF Remove, Forget, Without
<1>5. CASE \E w, f : f # e /\ Release(w, f, ReleaseDelay)
  BY <1>5, ZenonT(30) DEF Release, ReleaseUntil, Without
<1>6. CASE \E w : \E got \in Events \cup {NoEvent} : got # e /\ Claim(w, Lease, got)
  <2>1. PICK w : \E got \in Events \cup {NoEvent} : got # e /\ Claim(w, Lease, got)
    BY <1>6, Zenon
  <2>2. PICK got \in Events \cup {NoEvent} : got # e /\ Claim(w, Lease, got)
    BY <2>1, Zenon
  <2>3. stored' \subseteq stored
    BY <2>2, ClaimEffect, Zenon
  <2>4. CASE got = NoEvent
    BY <2>2, <2>3, <2>4, ClaimEffect, Zenon
  <2>5. CASE got # NoEvent
    <3>1. DOMAIN claims' = DOMAIN claims \cup {got} /\ \A f \in DOMAIN claims : claims'[f] = claims[f]
      BY <2>2, <2>5, ClaimEffect, Zenon
    <3> QED BY <2>2, <2>3, <3>1, Zenon
  <2> QED BY <2>4, <2>5, ZenonT(30)
<1>7. CASE \E got : DequeueEvent(got)
  BY <1>7, DequeueEffect, Zenon
<1>8. CASE Recover /\ e \notin DOMAIN claims \ DOMAIN claims'
  BY <1>8, RecoverEffect, ZenonT(30)
<1> QED BY <1>1, <1>2, <1>3, <1>4, <1>5, <1>6, <1>7, <1>8, Zenon

\* The three steps that move an event from hand to hand.
LEMMA ClaimedOnce ==
    ASSUME EInv, EInv', NEW w \in Workers, NEW e \in Events, Claim(w, Lease, e),
           \A x \in Workers \ {w} : ew'[x] = ew[x], Single(e), accepted' = accepted
    PROVE  Single(e)'
<1>1. NoEventStranded /\ e # NoEvent /\ accepted[e] \in Nat
  <2>1. NoEventStranded /\ accepted \in [Events -> Nat]
    BY Zenon DEF EInv, EWTypeOK
  <2> QED BY <2>1, EventConstantsOK, Zenon
<1>2. e \in stored /\ e \notin DOMAIN claims
  BY <1>1, ClaimEffect, ZenonT(30)
<1>4. Owns(w, e)'
  BY <1>1, ClaimEffect, ZenonT(30)
<1>5. \A x \in Workers : ~Holding(x, e)
  BY <1>2, ZenonT(30) DEF Single, Owns
<1>6. accepted[e] = 0
  <2>1. accepted[e] \in Nat /\ ~(accepted[e] > 0)
    BY <1>1, <1>2, Zenon DEF Single
  <2> QED BY <2>1
<1>7. \A x \in Workers \ {w} : ~Holding(x, e)'
  BY <1>5, Zenon DEF Holding, InHand
<1>8. accepted'[e] = 0 /\ accepted'[e] <= 1 /\ ~(accepted'[e] > 0)
  BY <1>6
<1> QED BY <1>4, <1>7, <1>8, Zenon DEF Single

LEMMA ReleasedOnce ==
    ASSUME EInv, NEW w \in Workers, NEW e \in Events, Single(e), Holding(w, e), ew[w].pc # "remove",
           stored' = stored, accepted' = accepted, ~Holding(w, e)',
           \A x \in Workers \ {w} : ew'[x] = ew[x]
    PROVE  Single(e)'
<1>1. accepted[e] \in Nat
  BY ZenonT(30) DEF EInv, EWTypeOK
<1>2. accepted[e] = 0
  BY <1>1, SMT, SMTT(30) DEF Single
<1>3. \A x \in Workers : ~Holding(x, e)'
  BY Zenon DEF Single, Holding, InHand
<1> QED BY <1>2, <1>3, Zenon DEF Single

LEMMA TakenStep ==
    ASSUME EInv, NEW w \in Workers, NEW e \in Events, Single(e), Holding(w, e), ew[w].pc # "remove",
           UNCHANGED vars, accepted'[e] = accepted[e] + 1,
           Holding(w, e)' => ew'[w].pc = "remove",
           \A x \in Workers \ {w} : ew'[x] = ew[x]
    PROVE  Single(e)'
<1>1. accepted[e] \in Nat
  BY ZenonT(30) DEF EInv, EWTypeOK
<1>2. accepted[e] = 0 /\ accepted'[e] = 1
  <2>1. ~(accepted[e] > 0)
    BY Zenon DEF Single
  <2> QED BY <1>1, <2>1, SMT, SMTT(30)
<1>3. \A x \in Workers \ {w} : ~Holding(x, e) /\ ~Holding(x, e)'
  BY ZenonT(30) DEF Single, Holding, InHand
<1>4. (Owns(w, e)' \/ e \notin stored') /\ (e \notin stored' \/ e \in DOMAIN claims')
  BY Zenon DEF Single, Owns, vars, store
<1>5. \A x \in Workers : Holding(x, e)' => x = w
  BY <1>3, Zenon
<1>6. /\ \A x \in Workers : Holding(x, e)' => Owns(x, e)' \/ e \notin stored'
      /\ \A x \in Workers : Holding(x, e)' => ew'[x].pc = "remove"
  BY <1>4, <1>5, Zenon
<1>7. \A x, v \in Workers : Holding(x, e)' /\ Holding(v, e)' => x = v
  BY <1>5, ZenonT(30)
<1>8. accepted'[e] <= 1
  BY <1>2
<1> QED BY <1>4, <1>6, <1>7, <1>8, ZenonT(30) DEF Single

LEMMA WorkerOnce ==
    ASSUME EInv, EInv', NEW w \in Workers, Step(w) \/ RenewClaim(w),
           NEW e \in Events \ lapsed', Single(e)
    PROVE  Single(e)'
<1>1. /\ EWTypeOK /\ LocalOK(w) /\ NoEventStranded /\ ew \in [Workers -> ELocal] /\ ew[w] \in ELocal
  BY WorkerTypes, Zenon
<1>2. (\A x \in Workers \ {w} : ew'[x] = ew[x]) /\ accepted \in [Events -> Nat]
  BY <1>1, OthersStay, Zenon DEF EWTypeOK
<1>3. ASSUME StoreKeeps(e), accepted'[e] = accepted[e],
             \/ ExpireDue(w) \/ ExpireOne(w) \/ RecoverExpired(w) \/ SkipRecovery(w) \/ FindClaimed(w)
             \/ DropMissing(w) \/ RenewBeforeDispatch(w) \/ ListenerAnswers(w)
             \/ RemoveCall(w) \/ ReleaseCall(w) \/ EndDispatch(w) \/ RenewClaim(w)
      PROVE  Single(e)'
  <2>1. Holding(w, e)' => Holding(w, e) /\ (ew[w].pc = "remove" => ew'[w].pc = "remove")
    BY <1>3, HeldBefore, ZenonT(30)
  <2>2. WorkersKeep(e)
    BY <1>1, <2>1, OneMoves, Zenon
  <2> QED BY <1>3, <2>2, KeepsSingle, ZenonT(30)
<1>4. CASE ExpireDue(w) \/ SkipRecovery(w) \/ FindClaimed(w) \/ EndDispatch(w)
  <2>1. UNCHANGED vars /\ accepted' = accepted
    BY <1>4, Zenon DEF ExpireDue, SkipRecovery, FindClaimed, EndDispatch, History
  <2>2. StoreKeeps(e)
    BY <1>1, <2>1, CallKeeps, Zenon
  <2> QED BY <1>3, <1>4, <2>1, <2>2, Zenon
<1>5. CASE ExpireOne(w)
  <2>1. (UNCHANGED vars \/ \E f : Expire(f)) /\ accepted' = accepted
    BY <1>5, Zenon DEF ExpireOne, History
  <2>2. StoreKeeps(e)
    BY <1>1, <2>1, CallKeeps, ZenonT(30)
  <2> QED BY <1>3, <1>5, <2>1, <2>2, Zenon
<1>6. CASE RecoverExpired(w)
  <2>1. Recover /\ accepted' = accepted /\ e \notin DOMAIN claims \ DOMAIN claims'
    BY <1>6, Zenon DEF RecoverExpired
  <2>2. StoreKeeps(e)
    BY <1>1, <2>1, CallKeeps, Zenon
  <2> QED BY <1>3, <1>6, <2>1, <2>2, ZenonT(30)
<1>7. CASE DropMissing(w) \/ RemoveCall(w)
  <2>1. (UNCHANGED vars \/ Remove(w, InHand(w))) /\ accepted' = accepted
    BY <1>7, Zenon DEF DropMissing, RemoveCall, History
  <2>2. StoreKeeps(e)
    BY <1>1, <2>1, CallKeeps, Zenon
  <2> QED BY <1>3, <1>7, <2>1, <2>2, Zenon
<1>8. CASE RenewBeforeDispatch(w) \/ RenewClaim(w)
  <2>1. (UNCHANGED vars \/ Renew(w, InHand(w), Lease)) /\ accepted' = accepted
    BY <1>8, Zenon DEF RenewBeforeDispatch, RenewClaim, History
  <2>2. StoreKeeps(e)
    BY <1>1, <2>1, CallKeeps, Zenon
  <2> QED BY <1>3, <1>8, <2>1, <2>2, Zenon
<1>9. CASE ClaimNext(w)
  <2>1. PICK got \in Events \cup {NoEvent} :
          /\ Claim(w, Lease, got)
          /\ IF got = NoEvent
             THEN Again(w)
             ELSE ew' = [ew EXCEPT ![w].pc = "find", ![w].event = got, ![w].due = {},
                                   ![w].lease_until = now + Lease]
    BY <1>9, Zenon DEF ClaimNext
  <2>2. accepted' = accepted
    BY <1>9, Zenon DEF ClaimNext
  <2>3. CASE got = e
    BY <1>2, <2>1, <2>2, <2>3, ClaimedOnce, Zenon
  <2>4. CASE got # e
    <3>1. StoreKeeps(e)
      BY <1>1, <2>1, <2>4, CallKeeps, Zenon
    <3>2. ew'[w].event = got
      BY <1>1, <2>1, SMT, SMTT(30) DEF Again, AtRest, ELocal
    <3>3. ~Holding(w, e)'
      BY <2>4, <3>2, Zenon DEF Holding, InHand
    <3>4. WorkersKeep(e)
      BY <1>1, <3>3, OneMoves, Zenon
    <3> QED BY <2>2, <3>1, <3>4, KeepsSingle, Zenon
  <2> QED BY <2>3, <2>4, Zenon
<1>10. CASE ReleaseCall(w)
  <2>1. (UNCHANGED vars \/ Release(w, InHand(w), ReleaseDelay)) /\ accepted' = accepted
    BY <1>10, Zenon DEF ReleaseCall, History
  <2>2. CASE UNCHANGED vars \/ InHand(w) # e
    <3>1. StoreKeeps(e)
      BY <1>1, <2>1, <2>2, CallKeeps, ZenonT(30)
    <3> QED BY <1>3, <1>10, <2>1, <3>1, Zenon
  <2>3. CASE Release(w, InHand(w), ReleaseDelay) /\ InHand(w) = e
    <3>1. Holding(w, e) /\ ew[w].pc # "remove" /\ stored' = stored
      BY <1>10, <2>3, Zenon DEF ReleaseCall, At, Holding, Release, ReleaseUntil
    <3>2. ew' = [ew EXCEPT ![w].pc = "stop_renewal", ![w].lease_until = 0]
      BY <1>10, Zenon DEF ReleaseCall
    <3>3. ew'[w].pc = "stop_renewal"
      BY <1>1, <3>2, Zenon DEF ELocal
    <3>4. ~Holding(w, e)'
      BY <3>3, Zenon DEF Holding
    <3> QED BY <1>2, <2>1, <3>1, <3>4, ReleasedOnce, Zenon
  <2> QED BY <2>1, <2>2, <2>3, Zenon
<1>11. CASE ListenerAnswers(w)
  <2>1. UNCHANGED vars /\ ew[w].pc = "listen"
    BY <1>11, Zenon DEF ListenerAnswers, At
  <2>2. CASE accepted'[e] = accepted[e]
    <3>1. StoreKeeps(e)
      BY <1>1, <2>1, CallKeeps, ZenonT(30)
    <3> QED BY <1>3, <1>11, <2>2, <3>1, Zenon
  <2>3. CASE accepted'[e] # accepted[e]
    <3>1. InHand(w) = e /\ accepted'[e] = accepted[e] + 1 /\ (Goto(w, "remove") \/ Goto(w, "stop_renewal"))
      BY <1>2, <1>11, <2>3, Zenon DEF ListenerAnswers
    <3>2. ew'[w].pc \in {"remove", "stop_renewal"}
      BY <1>1, <3>1 DEF Goto, ELocal
    <3>3. Holding(w, e) /\ (Holding(w, e)' => ew'[w].pc = "remove")
      BY <2>1, <3>1, <3>2, Zenon DEF Holding
    <3> QED BY <1>2, <2>1, <3>1, <3>3, TakenStep, Zenon
  <2> QED BY <2>2, <2>3, Zenon
<1> QED BY <1>4, <1>5, <1>6, <1>7, <1>8, <1>9, <1>10, <1>11, Zenon DEF Step

LEMMA OutsideOnce ==
    ASSUME EInv, EInv', OnceInv, Outside \/ UNCHANGED allvars, NEW e \in Events, Single(e)
    PROVE  Single(e)'
<1>1. UNCHANGED <<ew, accepted>> /\ NoEventStranded /\ accepted[e] \in Nat
  BY Zenon DEF Outside, Enqueue, AclearOne, Adequeue, PassTime, allvars, ewvars, EInv, EWTypeOK
<1>2. WorkersKeep(e)
  BY <1>1, Zenon DEF WorkersKeep, Holding, InHand
<1>3. CASE \E f \in Events, life \in Lifetimes : f # e /\ Enqueue(f, life)
  <2>1. StoreKeeps(e)
    BY <1>3, Zenon DEF StoreKeeps, Enqueue, StoreEventAndPush
  <2> QED BY <1>1, <1>2, <2>1, KeepsSingle, ZenonT(40)
<1>4. CASE \E life \in Lifetimes : Enqueue(e, life)
  <2>1. e \notin issued
    BY <1>4, Zenon DEF Enqueue, StoreEventAndPush
  <2>2. accepted[e] = 0
    BY <1>1, <2>1, SMT, SMTT(30) DEF OnceInv
  <2>3. \A w \in Workers : ~Holding(w, e)
    BY <2>1, EventConstantsOK, ZenonT(30) DEF EInv, LocalOK, Holding
  <2>4. \A w \in Workers : ~Holding(w, e)'
    BY <1>1, <2>3, Zenon DEF Holding, InHand
  <2>5. accepted'[e] = 0 /\ accepted'[e] <= 1 /\ ~(accepted'[e] > 0)
    BY <1>1, <2>2, SMT, SMTT(30)
  <2> QED BY <2>4, <2>5, Zenon DEF Single
<1>5. CASE ~\E f \in Events, life \in Lifetimes : Enqueue(f, life)
  <2>1. UNCHANGED vars \/ (\E f : Delete(f)) \/ (\E got : DequeueEvent(got)) \/ Tick
    BY <1>5, Zenon DEF Outside, AclearOne, Adequeue, PassTime, allvars
  <2>2. StoreKeeps(e)
    BY <1>1, <2>1, CallKeeps, Zenon
  <2> QED BY <1>1, <1>2, <2>2, KeepsSingle, Zenon
<1> QED BY <1>3, <1>4, <1>5, ZenonT(40)

LEMMA OnceNext ==
    ASSUME EInv, EInv', OnceInv, [EWNext]_allvars
    PROVE  OnceInv'
<1>1. EWTypeOK /\ EWTypeOK' /\ accepted \in [Events -> Nat] /\ faults \in Nat
  BY SMT, SMTT(30) DEF EInv, EWTypeOK
<1>2. CASE Outside \/ UNCHANGED allvars
  <2>1. UNCHANGED <<ew, accepted, lapsed, faults>> /\ issued \subseteq issued'
    BY <1>2, DequeueEffect, Zenon DEF Outside, Enqueue, AclearOne, Adequeue, PassTime, allvars, ewvars,
       StoreEventAndPush, Delete, Forget, Tick, vars
  <2>2. \A e \in Events : accepted'[e] > 0 => e \in issued'
    BY <2>1, Zenon DEF OnceInv
  <2>3. faults' = 0 => \A e \in Events \ lapsed' : Single(e)'
    BY <1>2, <2>1, OutsideOnce, Zenon DEF OnceInv
  <2> QED BY <2>2, <2>3, Zenon DEF OnceInv
<1>3. ASSUME NEW w \in Workers, Raise(w) \/ RenewalRaises(w) \/ Cancel(w) \/ Die(w) PROVE OnceInv'
  <2>1. faults' = faults + 1 /\ accepted' = accepted /\ UNCHANGED vars
    BY <1>3, Zenon DEF Raise, RenewalRaises, Cancel, Die, Fault
  <2>2. faults' # 0 /\ issued' = issued
    BY <1>1, <2>1, SMT, SMTT(30) DEF vars
  <2> QED BY <2>1, <2>2, Zenon DEF OnceInv
<1>4. ASSUME NEW w \in Workers, Step(w) \/ RenewClaim(w) PROVE OnceInv'
  <2>1. faults' = faults /\ lapsed \subseteq lapsed'
    BY <1>4, Zenon DEF Step, RenewClaim, ExpireDue, ExpireOne, RecoverExpired, SkipRecovery, ClaimNext,
       FindClaimed, DropMissing, RenewBeforeDispatch, ListenerAnswers, RemoveCall, ReleaseCall,
       EndDispatch, History
  <2>2. faults' = 0 => \A e \in Events \ lapsed' : Single(e)'
    BY <1>4, <2>1, WorkerOnce, Zenon DEF OnceInv
  <2>3. issued \subseteq issued'
    <3>1. [Next]_vars => issued \subseteq issued'
      BY DequeueEffect, ClaimEffect, RecoverEffect, ZenonT(30) DEF EInv, Next, WorkerCall, vars, StoreEventAndPush, Renew,
         Release, ReleaseUntil, Remove, Expire, Delete, Forget, Tick
    <3> QED BY <1>4, <3>1, StoreStep, Zenon
  <2>4. \A e \in Events : accepted'[e] > 0 => e \in issued'
    <3>1. CASE ListenerAnswers(w)
      <4>1. ew[w].pc = "listen" /\ LocalOK(w)
        BY <3>1, Zenon DEF ListenerAnswers, At, EInv
      <4>2. InHand(w) \in issued
        BY <4>1, Zenon DEF LocalOK, Resting
      <4>3. \A e \in Events : e # InHand(w) => accepted'[e] = accepted[e]
        BY <1>1, <3>1, Zenon DEF ListenerAnswers
      <4> QED BY <2>3, <4>2, <4>3, Zenon DEF OnceInv
    <3>2. CASE ~ListenerAnswers(w)
      <4>1. accepted' = accepted
        BY <1>4, <3>2, ZenonT(30) DEF Step, RenewClaim, ExpireDue, ExpireOne, RecoverExpired, SkipRecovery, ClaimNext,
           FindClaimed, DropMissing, RenewBeforeDispatch, RemoveCall, ReleaseCall, EndDispatch, History
      <4> QED BY <2>3, <4>1, Zenon DEF OnceInv
    <3> QED BY <3>1, <3>2, Zenon
  <2> QED BY <2>2, <2>4, Zenon DEF OnceInv
<1> QED BY <1>2, <1>3, <1>4, ZenonT(40) DEF EWNext, Outside

LEMMA OnceInit == EWInit => OnceInv
<1> SUFFICES ASSUME EWInit PROVE OnceInv
  BY Zenon
<1>1. \A e \in Events : accepted[e] = 0
  BY Zenon DEF EWInit
<1>2. \A e \in Events, w \in Workers : ~Holding(w, e)
  BY EventConstantsOK, Zenon DEF EWInit, Holding, InHand, AtRest
<1>3. \A e \in Events : accepted[e] <= 1 /\ ~(accepted[e] > 0)
  BY <1>1
<1> QED BY <1>2, <1>3, Zenon DEF OnceInv, Single

-------------------------------------------------------------------------------
\* The calls of event workers, in whatever order and with whatever faults, are
\* calls of the store: what is proved of it holds with workers at it.
THEOREM EventWorkersUseTheStore == EWSpec => Spec
<1>1. EWInit => Init
  BY Zenon DEF EWInit
<1>2. EInv /\ [EWNext]_allvars => [Next]_vars
  <2> SUFFICES ASSUME EInv, [EWNext]_allvars PROVE [Next]_vars
    BY Zenon
  <2>1. CASE Outside \/ UNCHANGED allvars
    BY <2>1, OutsideCalls, Zenon
  <2>2. ASSUME NEW w \in Workers, Step(w) \/ RenewClaim(w) PROVE [Next]_vars
    BY <2>2, StoreStep, Zenon
  <2>3. ASSUME NEW w \in Workers, Raise(w) \/ RenewalRaises(w) \/ Cancel(w) \/ Die(w) PROVE [Next]_vars
    BY <2>3, Zenon DEF Raise, RenewalRaises, Cancel, Die
  <2> QED BY <2>1, <2>2, <2>3, Zenon DEF EWNext, Outside
<1> QED BY <1>1, <1>2, EWInvariant, PTL DEF EWSpec, Spec

\* With event workers at it the store strands no event, takes no lease back before
\* its time and ends every event once (claim_event, renew_event, release_event,
\* remove_event, expire_event and recover_events).
THEOREM EventWorkersKeepThePromises ==
    EWSpec => []NoEventStranded /\ AlwaysEventLeaseHonoured /\ LifetimeSpec
BY EventWorkersUseTheStore, EventsAreNotStranded, EventLeasesAreHonoured, StoreRefinesLifetime, PTL

\* While the lease it knows of runs, the event in a worker's hands is its own or
\* was cleared (_next, _renew_claim), for every number of workers and faults.
THEOREM EventLeaseMeansOwner == EWSpec => []EventLeaseMeansOwnership
<1>1. EInv => EventLeaseMeansOwnership
  BY Zenon DEF EInv, OwnerOK, EventLeaseMeansOwnership
<1> QED BY <1>1, EWInvariant, PTL

\* Without a fault and without a lapsed lease, one listener takes an event once
\* (_dispatch, _remove, _release), for every number of workers and listeners.
THEOREM EventsAreTakenOnce == EWSpec => []TakenOnce
<1>1. EInv /\ OnceInv => TakenOnce
  <2> SUFFICES ASSUME EInv, OnceInv, NEW e \in Events, accepted[e] > 1, e \notin lapsed
               PROVE  faults > 0
    BY Zenon DEF TakenOnce
  <2>1. faults \in Nat /\ accepted[e] \in Nat
    BY SMT, SMTT(30) DEF EInv, EWTypeOK
  <2>2. faults # 0
    BY <2>1, SMT, SMTT(30) DEF OnceInv, Single
  <2> QED BY <2>1, <2>2, SMT, SMTT(30)
<1>2. EInv /\ EInv' /\ OnceInv /\ [EWNext]_allvars => OnceInv'
  BY OnceNext, Zenon
<1> QED BY <1>1, <1>2, OnceInit, EWInvariant, PTL DEF EWSpec

===============================================================================
