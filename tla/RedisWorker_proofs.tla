--------------------------- MODULE RedisWorker_proofs ---------------------------
(***************************************************************************)
(* The Redis store of RedisClaims.tla, for every set of entries and        *)
(* workers, every lease, delay and batch size, FIFO and stack, and every   *)
(* bound of the clock; and the workers of RedisWorker.tla on it, for any   *)
(* number of entries, workers, faults and lost records: they keep to the   *)
(* protocol that the store relies on, a running lease means ownership,     *)
(* only the latest execution of an entry settles it, and a cancelled       *)
(* worker takes up no other entry.                                         *)
(***************************************************************************)
EXTENDS RedisWorker, RedisValues_proofs

-------------------------------------------------------------------------------
\* The store.

\* A removed record does not come back: IDs are issued once.
LostIsGone == lost \cap DOMAIN record = {}

IInv ==
    /\ TypeOK
    /\ SinglePlace
    /\ NoLostWork
    /\ RunningIsClaimed
    /\ ClaimsIndexed
    /\ FinishedIsInert
    /\ LostIsGone

\* promote_one_scheduled moves at most one ID, keeps every other one, and only
\* drops IDs without a queued record from the schedule.
LEMMA PromotedStore ==
    ASSUME IInv, NEW p \in Promoted
    PROVE  /\ p.pending \in Seq(issued) /\ Injective(p.pending)
           /\ p.scheduled \in [DOMAIN p.scheduled -> Nat]
           /\ DOMAIN p.scheduled \subseteq DOMAIN scheduled
           /\ Range(p.pending) \cap DOMAIN p.scheduled = {}
           /\ Range(pending) \subseteq Range(p.pending)
           /\ Range(p.pending) \subseteq Range(pending) \cup DOMAIN scheduled
           /\ \A e \in Range(p.pending) : e \in Range(pending) \/ HasStatus(e, {"queued"})
           /\ \A e \in DOMAIN scheduled :
                  HasStatus(e, {"queued"}) => e \in DOMAIN p.scheduled \cup Range(p.pending)
<1>0. /\ pending \in Seq(issued) /\ issued \subseteq Nat
      /\ scheduled \in [DOMAIN scheduled -> Nat] /\ DOMAIN scheduled \subseteq issued
      /\ Injective(pending) /\ Range(pending) \cap DOMAIN scheduled = {}
  BY ConstantsOK, Zenon DEF IInv, TypeOK, SinglePlace
<1>1. EarliestDue \subseteq DOMAIN scheduled
  BY Zenon DEF EarliestDue, Due, DueAt
<1>2. Promotable = {e \in EarliestDue : HasStatus(e, {"queued"})}
  BY Zenon DEF Promotable
<1>3. CASE Promotable = {}
  <2>1. p.pending = pending /\ p.scheduled = Without(scheduled, EarliestDue)
    BY <1>3 DEF Promoted
  <2>2. DOMAIN p.scheduled = DOMAIN scheduled \ EarliestDue /\ p.scheduled \in [DOMAIN p.scheduled -> Nat]
    BY <2>1, <1>0, Zenon DEF Without
  <2> QED
    BY <2>1, <2>2, <1>0, <1>1, <1>2, <1>3, Zenon
<1>4. CASE Promotable # {}
  <2> DEFINE After(x) == [pending |-> Append(pending, x),
                          scheduled |-> Without(scheduled, {f \in EarliestDue : f <= x})]
  <2>0. Promoted = {After(x) : x \in {y \in Promotable : \A f \in Promotable : y <= f}}
    BY <1>4, Zenon DEF Promoted
  <2> HIDE DEF After
  <2> PICK e \in Promotable : p = After(e) /\ \A f \in Promotable : e <= f
    BY <2>0, Zenon
  <2>a. p.pending = Append(pending, e) /\ p.scheduled = Without(scheduled, {f \in EarliestDue : f <= e})
    BY Zenon DEF After
  <2> DEFINE out == {f \in EarliestDue : f <= e}
  <2>1. e \in DOMAIN scheduled /\ e \in EarliestDue /\ HasStatus(e, {"queued"}) /\ e \in issued /\ e \in Nat
    BY <1>0, <1>1, <1>2, Zenon
  <2>2. DOMAIN p.scheduled = DOMAIN scheduled \ out /\ p.scheduled \in [DOMAIN p.scheduled -> Nat]
    BY <2>a, <1>0, Zenon DEF Without
  <2>3. Range(p.pending) = Range(pending) \cup {e} /\ Injective(p.pending) /\ p.pending \in Seq(issued)
    <3>1. e \notin Range(pending)
      BY <1>0, <2>1, Zenon
    <3>2. Append(pending, e) \in Seq(issued)
      BY <1>0, <2>1
    <3> QED
      BY <3>1, <3>2, <2>a, <1>0, AppendList
  <2>4. ASSUME NEW f \in out, HasStatus(f, {"queued"}) PROVE f = e
    <3>1. f \in Promotable /\ f \in Nat /\ f <= e
      BY <1>0, <1>1, <1>2, <2>4, Zenon
    <3> QED
      BY <3>1, <2>1
  <2>5. e \in out
    BY <2>1, Zenon
  <2> HIDE DEF out
  <2> QED
    BY <2>1, <2>2, <2>3, <2>4, <2>5, <1>0, Zenon
<1> QED
  BY <1>3, <1>4, Zenon

\* django_queue_store_and_push: a new ID is in no other place.
LEMMA StoreAndPushInv == ASSUME IInv, NEW e \in Entries, StoreAndPush(e) PROVE IInv'
<1>1. /\ e \notin issued /\ pending \in Seq(issued) /\ IsFiniteSet(issued)
      /\ issued' = issued \cup {e} /\ pending' = Append(pending, e)
      /\ Range(pending) \subseteq issued
  BY DEF StoreAndPush, IInv, TypeOK, Range
<1>2. Range(pending') = Range(pending) \cup {e} /\ Injective(pending')
  BY <1>1, AppendList, Zenon DEF IInv, SinglePlace
<1>3. /\ DOMAIN record' = DOMAIN record \cup {e}
      /\ record'[e] = "queued" /\ \A f \in DOMAIN record : f # e => record'[f] = record[f]
  BY Zenon DEF StoreAndPush, Zadd
<1>4. TypeOK'
  <2>1. pending' \in Seq(issued')
    BY <1>1
  <2>2. IsFiniteSet(issued')
    BY <1>1, FS_AddElement, Zenon
  <2> QED
    BY <2>1, <2>2, <1>1, Zenon DEF StoreAndPush, Zadd, IInv, TypeOK, Stored, Terminal
<1>5. SinglePlace'
  BY <1>1, <1>2 DEF StoreAndPush, IInv, TypeOK, SinglePlace
<1>6. NoLostWork' /\ RunningIsClaimed' /\ FinishedIsInert' /\ LostIsGone'
  BY <1>1, <1>2, <1>3
  DEF StoreAndPush, IInv, TypeOK, NoLostWork, RunningIsClaimed, FinishedIsInert, LostIsGone, Terminal
<1>7. ClaimsIndexed'
  BY Zenon DEF StoreAndPush, IInv, ClaimsIndexed
<1> QED
  BY <1>4, <1>5, <1>6, <1>7, Zenon DEF IInv

\* django_queue_store_available.
LEMMA StoreAvailableInv ==
    ASSUME IInv, NEW e \in Entries, NEW t \in Nat, StoreAvailable(e, t)
    PROVE  IInv'
<1>1. CASE t > now
  <2>1. /\ e \notin issued /\ issued' = issued \cup {e} /\ IsFiniteSet(issued)
        /\ Range(pending) \subseteq issued /\ pending' = pending /\ pending \in Seq(issued')
        /\ scheduled' = Zadd(scheduled, e, t)
    BY <1>1 DEF StoreAvailable, IInv, TypeOK, Range
  <2>2. /\ DOMAIN record' = DOMAIN record \cup {e} /\ DOMAIN scheduled' = DOMAIN scheduled \cup {e}
        /\ record'[e] = "queued" /\ \A f \in DOMAIN record : f # e => record'[f] = record[f]
    BY <2>1, Zenon DEF StoreAvailable, Zadd
  <2>3. IsFiniteSet(issued')
    BY <2>1, FS_AddElement, Zenon
  <2>4. TypeOK'
    BY <2>1, <2>3 DEF StoreAvailable, Zadd, IInv, TypeOK, Stored, Terminal
  <2>5. SinglePlace'
    BY <2>1, <2>2 DEF StoreAvailable, IInv, TypeOK, SinglePlace
  <2>6. NoLostWork' /\ RunningIsClaimed' /\ FinishedIsInert' /\ LostIsGone'
    BY <2>1, <2>2
    DEF StoreAvailable, IInv, TypeOK, NoLostWork, RunningIsClaimed, FinishedIsInert, LostIsGone, Terminal
  <2>7. ClaimsIndexed'
    BY Zenon DEF StoreAvailable, IInv, ClaimsIndexed
  <2> QED
    BY <2>4, <2>5, <2>6, <2>7, Zenon DEF IInv
<1>2. CASE ~(t > now)
  BY <1>2, StoreAndPushInv, Zenon DEF StoreAvailable, StoreAndPush
<1> QED
  BY <1>1, <1>2, Zenon

\* django_queue_promote_scheduled.
LEMMA PromoteScheduledInv == ASSUME IInv, PromoteScheduled PROVE IInv'
<1> PICK p \in Promoted : pending' = p.pending /\ scheduled' = p.scheduled
  BY Zenon DEF PromoteScheduled
<1>1. TypeOK'
  BY PromotedStore, Zenon DEF PromoteScheduled, IInv, TypeOK
<1>2. SinglePlace'
  BY PromotedStore, Zenon DEF PromoteScheduled, IInv, SinglePlace
<1>3. NoLostWork'
  BY PromotedStore DEF PromoteScheduled, IInv, SinglePlace, NoLostWork, RunningIsClaimed, HasStatus
<1>4. RunningIsClaimed' /\ ClaimsIndexed' /\ LostIsGone'
  BY Zenon DEF PromoteScheduled, IInv, RunningIsClaimed, ClaimsIndexed, LostIsGone
<1>5. FinishedIsInert'
  BY PromotedStore, Zenon DEF PromoteScheduled, IInv, FinishedIsInert, HasStatus
<1> QED
  BY <1>1, <1>2, <1>3, <1>4, <1>5, Zenon DEF IInv

\* django_queue_dequeue: the popped ID leaves the pending list for good.
LEMMA DequeueInv == ASSUME IInv, NEW got \in Entries \cup {NoEntry}, Dequeue(got) PROVE IInv'
<1> PICK p \in Promoted :
        /\ scheduled' = p.scheduled
        /\ IF p.pending = <<>>
           THEN got = NoEntry /\ pending' = p.pending
           ELSE got = Popped(p.pending, Stack) /\ pending' = PopRest(p.pending, Stack)
  BY Zenon DEF Dequeue
<1> DEFINE gone == {got} \ {NoEntry}
<1>1. /\ pending' \in Seq(issued) /\ Injective(pending') /\ gone \subseteq issued
      /\ Range(p.pending) = Range(pending') \cup gone /\ gone \cap Range(pending') = {}
  <2>1. CASE p.pending = <<>>
    BY <2>1, PromotedStore, Zenon
  <2>2. CASE p.pending # <<>>
    <3>1. NoEntry \notin issued
      BY ConstantsOK, Zenon DEF IInv, TypeOK
    <3> QED
      BY <2>2, <3>1, PromotedStore, PopList, ConstantsOK
  <2> QED
    BY <2>1, <2>2, Zenon
<1>2. dequeued' = dequeued \cup gone
  BY Zenon DEF Dequeue
<1> HIDE DEF gone
<1>3. TypeOK'
  BY <1>1, <1>2, PromotedStore, Zenon DEF Dequeue, IInv, TypeOK
<1>4. SinglePlace'
  BY <1>1, <1>2, PromotedStore, Zenon DEF Dequeue, IInv, SinglePlace
<1>5. NoLostWork'
  BY <1>1, <1>2, PromotedStore, Zenon DEF Dequeue, IInv, SinglePlace, NoLostWork, RunningIsClaimed, HasStatus
<1>6. RunningIsClaimed' /\ ClaimsIndexed' /\ LostIsGone'
  BY Zenon DEF Dequeue, IInv, RunningIsClaimed, ClaimsIndexed, LostIsGone
<1>7. FinishedIsInert'
  BY <1>1, PromotedStore, Zenon DEF Dequeue, IInv, FinishedIsInert, HasStatus
<1> QED
  BY <1>3, <1>4, <1>5, <1>6, <1>7, Zenon DEF IInv

\* django_queue_claim: what is popped moves from the pending list to a claim.
LEMMA ClaimInv ==
    ASSUME IInv, NEW w \in Workers, NEW lease \in Leases, NEW got \in Entries \cup {NoEntry},
           Claim(w, lease, got)
    PROVE  IInv'
<1> PICK p \in Promoted, redelivered \in Ranged(delayed, Due(delayed)) :
        LET list == p.pending \o redelivered IN
        /\ scheduled' = p.scheduled
        /\ delayed' = Without(delayed, Due(delayed))
        /\ IF list = <<>> \/ Popped(list, Stack) \in DOMAIN claims
           THEN got = NoEntry /\ pending' = list /\ UNCHANGED <<claims, claim_deadlines>>
           ELSE /\ got = Popped(list, Stack)
                /\ pending' = PopRest(list, Stack)
                /\ claims' = Zadd(claims, got, [owner |-> w, deadline |-> now + lease])
                /\ claim_deadlines' = Zadd(claim_deadlines, got, now + lease)
  BY Zenon DEF Claim
<1> DEFINE list == p.pending \o redelivered
           gone == {got} \ {NoEntry}
<1>0. /\ DOMAIN delayed \subseteq issued /\ delayed \in [DOMAIN delayed -> Nat]
      /\ IsFiniteSet(issued) /\ issued \subseteq Nat /\ Due(delayed) \subseteq DOMAIN delayed
      /\ NoEntry \notin issued /\ now + lease \in Nat
  BY ConstantsOK, SMT, SMTT(30) DEF IInv, TypeOK, Due, DueAt
<1>1. redelivered \in Seq(Due(delayed)) /\ Range(redelivered) = Due(delayed) /\ Injective(redelivered)
  <2>1. IsFiniteSet(Due(delayed))
    BY <1>0, FS_Subset, Zenon
  <2>2. Due(delayed) \subseteq Nat /\ \A e \in Due(delayed) : delayed[e] \in Nat
    BY <1>0, Zenon
  <2> QED
    BY <2>1, <2>2, RangedList, Zenon
<1>2. Range(p.pending) \cap Due(delayed) = {} /\ p.pending \in Seq(issued) /\ Injective(p.pending)
  BY <1>0, PromotedStore, Zenon DEF IInv, SinglePlace
<1>3. /\ list \in Seq(issued) /\ Injective(list)
      /\ Range(list) = Range(p.pending) \cup Due(delayed)
  <2>1. issued \cup Due(delayed) = issued
    BY <1>0, Zenon
  <2> QED
    BY <1>1, <1>2, <2>1, ConcatLists
<1>4. /\ pending' \in Seq(issued) /\ Injective(pending') /\ gone \subseteq issued
      /\ Range(list) = Range(pending') \cup gone /\ gone \cap Range(pending') = {}
      /\ DOMAIN claims' = DOMAIN claims \cup gone
      /\ DOMAIN claim_deadlines' = DOMAIN claim_deadlines \cup gone
      /\ \A e \in DOMAIN claims : e \notin gone => claims'[e] = claims[e]
      /\ \A e \in DOMAIN claim_deadlines : e \notin gone => claim_deadlines'[e] = claim_deadlines[e]
      /\ \A e \in gone : claims'[e] = [owner |-> w, deadline |-> now + lease]
      /\ \A e \in gone : claim_deadlines'[e] = now + lease
      /\ claims' = [e \in DOMAIN claims' |-> claims'[e]]
      /\ claim_deadlines' = [e \in DOMAIN claim_deadlines' |-> claim_deadlines'[e]]
  <2>1. CASE list = <<>> \/ Popped(list, Stack) \in DOMAIN claims
    BY <2>1, <1>3, Zenon DEF IInv, TypeOK
  <2>2. CASE ~(list = <<>> \/ Popped(list, Stack) \in DOMAIN claims)
    <3>1. /\ got = Popped(list, Stack) /\ pending' = PopRest(list, Stack)
          /\ claims' = Zadd(claims, got, [owner |-> w, deadline |-> now + lease])
          /\ claim_deadlines' = Zadd(claim_deadlines, got, now + lease)
      BY <2>2, Zenon
    <3>2. list # <<>>
      BY <2>2, Zenon
    <3> HIDE DEF list
    <3>3. /\ got \in issued /\ pending' \in Seq(issued) /\ Injective(pending')
          /\ Range(list) = Range(pending') \cup {got} /\ got \notin Range(pending')
      BY <3>1, <3>2, <1>3, PopList, ConstantsOK, Zenon
    <3> QED
      BY <3>1, <3>3, <1>0, Zenon DEF Zadd
  <2> QED
    BY <2>1, <2>2, Zenon
<1>5. DOMAIN delayed' = DOMAIN delayed \ Due(delayed) /\ delayed' \in [DOMAIN delayed' -> Nat]
  BY <1>0, Zenon DEF Without
<1> HIDE DEF list, gone
<1>6. TypeOK'
  <2>1. claims' \in [DOMAIN claims' -> [owner : Workers, deadline : Nat]]
    BY <1>0, <1>4 DEF IInv, TypeOK
  <2>a. claim_deadlines \in [DOMAIN claim_deadlines -> Nat]
    BY Zenon DEF IInv, TypeOK
  <2>2. claim_deadlines' \in [DOMAIN claim_deadlines' -> Nat]
    BY <1>0, <1>4, <2>a, SMT, SMTT(30)
  <2>3. scheduled' \in [DOMAIN scheduled' -> Nat] /\ DOMAIN scheduled' \subseteq issued'
    BY PromotedStore, Zenon DEF Claim, IInv, TypeOK
  <2> QED
    BY <2>1, <2>2, <2>3, <1>4, <1>5, Zenon DEF Claim, IInv, TypeOK
<1>7. SinglePlace'
  <2>1. /\ scheduled' = p.scheduled /\ dequeued' = dequeued
        /\ DOMAIN scheduled' \subseteq DOMAIN scheduled
        /\ Range(p.pending) \cap DOMAIN scheduled' = {}
        /\ Range(p.pending) \subseteq Range(pending) \cup DOMAIN scheduled
    BY PromotedStore, Zenon DEF Claim
  <2>2. Range(list) \subseteq Range(pending) \cup DOMAIN scheduled \cup DOMAIN delayed
    BY <1>0, <1>3, <2>1, Zenon
  <2>3. Range(list) \cap (DOMAIN delayed' \cup DOMAIN scheduled' \cup DOMAIN claims \cup dequeued) = {}
    BY <1>0, <1>3, <1>5, <2>1, <2>2, Zenon DEF IInv, SinglePlace
  <2>4. /\ DOMAIN delayed' \cap DOMAIN scheduled' = {}
        /\ DOMAIN delayed' \cap DOMAIN claims = {}
        /\ DOMAIN scheduled' \cap DOMAIN claims = {}
        /\ dequeued \cap (DOMAIN delayed' \cup DOMAIN scheduled' \cup DOMAIN claims) = {}
    BY <1>5, <2>1, Zenon DEF IInv, SinglePlace
  <2> QED
    BY <1>4, <2>1, <2>3, <2>4, Zenon DEF SinglePlace
<1>8. NoLostWork'
  BY <1>3, <1>4, <1>5, PromotedStore, Zenon
  DEF Claim, IInv, SinglePlace, NoLostWork, RunningIsClaimed, HasStatus
<1>9. RunningIsClaimed' /\ LostIsGone'
  BY <1>4, Zenon DEF Claim, IInv, RunningIsClaimed, LostIsGone
<1>10. ClaimsIndexed'
  <2>1. ClaimsIndexed
    BY Zenon DEF IInv
  <2> QED BY <1>4, <2>1 DEF ClaimsIndexed
<1>11. FinishedIsInert'
  <2>1. \A e \in Range(list) : ~HasStatus(e, Terminal)
    BY <1>0, <1>3, PromotedStore, Zenon DEF IInv, FinishedIsInert, HasStatus, Terminal
  <2> QED
    BY <2>1, <1>0, <1>3, <1>4, <1>5, PromotedStore, Zenon DEF Claim, IInv, FinishedIsInert, HasStatus
<1> QED
  BY <1>6, <1>7, <1>8, <1>9, <1>10, <1>11, Zenon DEF IInv

\* django_queue_renew: the key and the ZSET move together.
LEMMA RenewInv ==
    ASSUME IInv, NEW w \in Workers, NEW e \in Entries, NEW lease \in Leases, Renew(w, e, lease)
    PROVE  IInv'
<1>1. e \in DOMAIN claims /\ e \in DOMAIN claim_deadlines /\ now + lease \in Nat
  BY ConstantsOK DEF Renew, CanRenew, Owns, IInv, TypeOK, ClaimsIndexed
<1>2. /\ DOMAIN claims' = DOMAIN claims /\ DOMAIN claim_deadlines' = DOMAIN claim_deadlines
  BY <1>1, Zenon DEF Renew, Zadd
<1>3. TypeOK'
  BY <1>1, Zenon DEF Renew, Zadd, IInv, TypeOK
<1>4. ClaimsIndexed'
  BY <1>1, Zenon DEF Renew, Zadd, IInv, ClaimsIndexed
<1>5. SinglePlace' /\ NoLostWork' /\ RunningIsClaimed' /\ FinishedIsInert' /\ LostIsGone'
  BY <1>2, Zenon DEF Renew, IInv, SinglePlace, NoLostWork, RunningIsClaimed, FinishedIsInert, LostIsGone
<1> QED
  BY <1>3, <1>4, <1>5, Zenon DEF IInv

\* django_queue_release of an entry that has not been started.
LEMMA ReleaseInv ==
    ASSUME IInv, NEW w \in Workers, NEW e \in Entries, NEW delay \in Delays,
           ~HasStatus(e, {"running"}), Release(w, e, delay)
    PROVE  IInv'
<1>1. e \in DOMAIN claims /\ e \in issued /\ now + delay \in Nat
  BY ConstantsOK, SMT, SMTT(30) DEF Release, Owns, IInv, TypeOK
<1>2. /\ DOMAIN claims' = DOMAIN claims \ {e} /\ DOMAIN claim_deadlines' = DOMAIN claim_deadlines \ {e}
      /\ DOMAIN delayed' = DOMAIN delayed \cup {e}
  BY Zenon DEF Release, Unclaim, Without, Zadd
<1>3. TypeOK'
  BY <1>1, Zenon DEF Release, Unclaim, Without, Zadd, IInv, TypeOK
<1>4. ClaimsIndexed'
  BY Zenon DEF Release, Unclaim, Without, IInv, ClaimsIndexed
<1>5. SinglePlace'
  <2>1. e \notin Range(pending) \cup DOMAIN scheduled \cup dequeued
    BY <1>1, Zenon DEF IInv, SinglePlace
  <2>2. UNCHANGED <<pending, scheduled, dequeued>>
    BY Zenon DEF Release
  <2>3. /\ Injective(pending)
        /\ Range(pending) \cap (DOMAIN delayed \cup DOMAIN scheduled \cup DOMAIN claims) = {}
        /\ DOMAIN delayed \cap (DOMAIN scheduled \cup DOMAIN claims) = {}
        /\ DOMAIN scheduled \cap DOMAIN claims = {}
        /\ dequeued \cap (Range(pending) \cup DOMAIN delayed \cup DOMAIN scheduled \cup DOMAIN claims) = {}
    BY Zenon DEF IInv, SinglePlace
  <2>4. /\ Range(pending) \cap (DOMAIN delayed' \cup DOMAIN scheduled \cup DOMAIN claims') = {}
        /\ DOMAIN delayed' \cap (DOMAIN scheduled \cup DOMAIN claims') = {}
        /\ DOMAIN scheduled \cap DOMAIN claims' = {}
    BY <1>2, <2>1, <2>3
  <2>5. dequeued \cap (Range(pending) \cup DOMAIN delayed' \cup DOMAIN scheduled \cup DOMAIN claims') = {}
    BY <1>2, <2>1, <2>3, Zenon
  <2>6. Range(pending') = Range(pending) /\ Injective(pending')
    BY <2>2, <2>3, Zenon
  <2>7. /\ Range(pending) \cap DOMAIN delayed' = {} /\ Range(pending) \cap DOMAIN scheduled = {}
        /\ Range(pending) \cap DOMAIN claims' = {}
        /\ DOMAIN delayed' \cap DOMAIN scheduled = {} /\ DOMAIN delayed' \cap DOMAIN claims' = {}
    BY <2>4, Zenon
  <2> QED
    BY <2>2, <2>4, <2>5, <2>6, <2>7, Zenon DEF SinglePlace
<1>6. NoLostWork' /\ RunningIsClaimed' /\ FinishedIsInert' /\ LostIsGone'
  BY <1>1, <1>2
  DEF Release, IInv, NoLostWork, RunningIsClaimed, FinishedIsInert, LostIsGone, HasStatus
<1> QED
  BY <1>3, <1>4, <1>5, <1>6, Zenon DEF IInv

\* django_queue_ack of an ID without a record.
LEMMA AckInv ==
    ASSUME IInv, NEW w \in Workers, NEW e \in Entries, e \notin DOMAIN record, Ack(w, e)
    PROVE  IInv'
<1>1. DOMAIN claims' = DOMAIN claims \ {e} /\ DOMAIN claim_deadlines' = DOMAIN claim_deadlines \ {e}
  BY Zenon DEF Ack, Unclaim, Without
<1>2. TypeOK'
  BY Zenon DEF Ack, Unclaim, Without, IInv, TypeOK
<1>3. ClaimsIndexed'
  BY Zenon DEF Ack, Unclaim, Without, IInv, ClaimsIndexed
<1>4. SinglePlace' /\ NoLostWork' /\ RunningIsClaimed' /\ FinishedIsInert' /\ LostIsGone'
  BY <1>1, Zenon DEF Ack, IInv, SinglePlace, NoLostWork, RunningIsClaimed, FinishedIsInert, LostIsGone
<1> QED
  BY <1>2, <1>3, <1>4, Zenon DEF IInv

\* django_queue_mark_running.
LEMMA MarkRunningInv ==
    ASSUME IInv, NEW w \in Workers, NEW e \in Entries, MarkRunning(w, e)
    PROVE  IInv'
<1>1. /\ e \in DOMAIN claims /\ e \in DOMAIN record /\ DOMAIN record' = DOMAIN record
      /\ record'[e] = "running" /\ \A f \in DOMAIN record : f # e => record'[f] = record[f]
  BY Zenon DEF MarkRunning, Owns, HasStatus, Zadd
<1>2. TypeOK'
  BY <1>1, Zenon DEF MarkRunning, Zadd, IInv, TypeOK, Stored
<1>3. SinglePlace' /\ ClaimsIndexed'
  BY Zenon DEF MarkRunning, IInv, SinglePlace, ClaimsIndexed
<1>4. NoLostWork' /\ RunningIsClaimed' /\ FinishedIsInert' /\ LostIsGone'
  BY <1>1, Zenon
  DEF MarkRunning, IInv, NoLostWork, RunningIsClaimed, ClaimsIndexed, FinishedIsInert, LostIsGone, Terminal
<1> QED
  BY <1>2, <1>3, <1>4, Zenon DEF IInv

\* django_queue_settle: the record is finished and the claim gone in one step.
LEMMA SettleInv ==
    ASSUME IInv, NEW w \in Workers, NEW e \in Entries, NEW outcome \in Outcomes, Settle(w, e, outcome)
    PROVE  IInv'
<1>1. /\ e \in DOMAIN claims /\ e \in DOMAIN record /\ DOMAIN record' = DOMAIN record
      /\ record'[e] = outcome /\ \A f \in DOMAIN record : f # e => record'[f] = record[f]
      /\ outcome \in Terminal
  BY Zenon DEF Settle, Owns, HasStatus, Zadd, Outcomes, Terminal
<1>2. DOMAIN claims' = DOMAIN claims \ {e} /\ DOMAIN claim_deadlines' = DOMAIN claim_deadlines \ {e}
  BY Zenon DEF Settle, Unclaim, Without
<1>3. TypeOK'
  BY <1>1, Zenon DEF Settle, Unclaim, Without, Zadd, IInv, TypeOK, Stored
<1>4. ClaimsIndexed'
  BY Zenon DEF Settle, Unclaim, Without, IInv, ClaimsIndexed
<1>5. SinglePlace'
  BY <1>2, Zenon DEF Settle, IInv, SinglePlace
<1>6. NoLostWork' /\ RunningIsClaimed' /\ FinishedIsInert' /\ LostIsGone'
  BY <1>1, <1>2
  DEF Settle, IInv, SinglePlace, NoLostWork, RunningIsClaimed, FinishedIsInert, LostIsGone, Terminal
<1> QED
  BY <1>3, <1>4, <1>5, <1>6, Zenon DEF IInv

\* django_queue_recover: the claims that have run out become pending entries.
LEMMA RecoverInv == ASSUME IInv, Recover PROVE IInv'
<1> PICK batch \in FirstDue(claim_deadlines, Batch) :
        RecoverBatch(LiveClaims(batch), batch \ LiveClaims(batch))
  BY Zenon DEF Recover
<1> DEFINE live == LiveClaims(batch)
           gone == batch \ live
           back == Requeued(gone)
<1>0. /\ batch \subseteq DOMAIN claim_deadlines /\ DOMAIN claim_deadlines = DOMAIN claims
      /\ issued \subseteq Nat /\ DOMAIN claims \subseteq issued /\ IsFiniteSet(issued)
      /\ claim_deadlines \in [DOMAIN claim_deadlines -> Nat]
      /\ pending \in Seq(issued) /\ Injective(pending)
      /\ Range(pending) \cap DOMAIN claims = {}
  BY ConstantsOK, Zenon DEF FirstDue, Due, DueAt, IInv, TypeOK, ClaimsIndexed, SinglePlace
<1>1. back \subseteq gone /\ gone \subseteq DOMAIN claims /\ live \subseteq DOMAIN claims
      /\ back = {e \in gone : e \in DOMAIN record /\ record[e] \in {"queued", "running"}}
  BY <1>0, Zenon DEF Requeued, LiveClaims, HasStatus
<1>2. /\ record' = [e \in DOMAIN record |-> IF e \in back THEN "queued" ELSE record[e]]
      /\ claims' = Without(claims, gone)
      /\ claim_deadlines' = [e \in DOMAIN claim_deadlines \ gone |->
             IF e \in live THEN claims[e].deadline ELSE claim_deadlines[e]]
      /\ UNCHANGED <<delayed, scheduled, now, issued, lost, dequeued>>
  BY Zenon DEF RecoverBatch
<1> PICK list \in Ranged(claim_deadlines, back) : pending' = pending \o list
  BY Zenon DEF RecoverBatch
<1> HIDE DEF live, gone, back
<1>3. list \in Seq(back) /\ Range(list) = back /\ Injective(list)
  <2>1. IsFiniteSet(back)
    BY <1>0, <1>1, FS_Subset, Zenon
  <2>2. back \subseteq Nat /\ \A e \in back : claim_deadlines[e] \in Nat
    BY <1>0, <1>1, Zenon
  <2> QED
    BY <2>1, <2>2, RangedList, Zenon
<1>4. pending' \in Seq(issued) /\ Injective(pending') /\ Range(pending') = Range(pending) \cup back
  <2>1. issued \cup back = issued /\ Range(pending) \cap back = {}
    BY <1>0, <1>1, Zenon
  <2> QED
    BY <1>0, <1>3, <2>1, ConcatLists, SMT, SMTT(30)
<1>5. /\ DOMAIN claims' = DOMAIN claims \ gone /\ DOMAIN claim_deadlines' = DOMAIN claims \ gone
      /\ DOMAIN record' = DOMAIN record
  BY <1>0, <1>2, Zenon DEF Without
<1>6. TypeOK'
  BY <1>0, <1>1, <1>2, <1>4, ZenonT(40) DEF Without, IInv, TypeOK, Stored
<1>7. SinglePlace'
  BY <1>1, <1>2, <1>4, <1>5, Zenon DEF IInv, SinglePlace
<1>8. ClaimsIndexed'
  BY <1>0, <1>1, <1>2, <1>5, Zenon DEF Without, IInv, ClaimsIndexed
<1>9. NoLostWork'
  BY <1>0, <1>1, <1>2, <1>4, <1>5, Zenon DEF IInv, NoLostWork
<1>10. RunningIsClaimed' /\ LostIsGone'
  BY <1>1, <1>2, <1>5, Zenon DEF IInv, RunningIsClaimed, LostIsGone
<1>11. FinishedIsInert'
  BY <1>1, <1>2, <1>4, <1>5, Zenon DEF IInv, FinishedIsInert, Terminal
<1> QED
  BY <1>6, <1>7, <1>8, <1>9, <1>10, <1>11, Zenon DEF IInv

\* django_queue_prune: its LREM finds nothing.
LEMMA PruneInv == ASSUME IInv, NEW e \in Entries, Prune(e) PROVE IInv'
<1>1. e \notin Range(pending)
  BY Zenon DEF Prune, HasStatus, IInv, FinishedIsInert
<1>2. /\ pending' = pending /\ DOMAIN record' = DOMAIN record \ {e}
      /\ \A f \in DOMAIN record' : record'[f] = record[f]
  BY <1>1, LremAbsent, Zenon DEF Prune, Without
<1>3. TypeOK'
  BY <1>2, Zenon DEF Prune, Without, IInv, TypeOK
<1>4. SinglePlace' /\ ClaimsIndexed'
  BY <1>2, Zenon DEF Prune, IInv, SinglePlace, ClaimsIndexed
<1>5. NoLostWork' /\ RunningIsClaimed' /\ FinishedIsInert' /\ LostIsGone'
  BY <1>2, Zenon DEF Prune, IInv, NoLostWork, RunningIsClaimed, FinishedIsInert, LostIsGone
<1> QED
  BY <1>3, <1>4, <1>5, Zenon DEF IInv

\* A record removed from outside leaves its IDs behind, and no more.
LEMMA RemoveRecordInv == ASSUME IInv, NEW e \in Entries, RemoveRecord(e) PROVE IInv'
<1>1. /\ DOMAIN record' = DOMAIN record \ {e}
      /\ \A f \in DOMAIN record' : record'[f] = record[f]
  BY Zenon DEF RemoveRecord, Without
<1>2. TypeOK'
  BY Zenon DEF RemoveRecord, Without, IInv, TypeOK
<1>3. SinglePlace' /\ ClaimsIndexed'
  BY Zenon DEF RemoveRecord, IInv, SinglePlace, ClaimsIndexed
<1>4. NoLostWork' /\ RunningIsClaimed' /\ FinishedIsInert' /\ LostIsGone'
  BY <1>1, Zenon DEF RemoveRecord, IInv, NoLostWork, RunningIsClaimed, FinishedIsInert, LostIsGone
<1> QED
  BY <1>2, <1>3, <1>4, Zenon DEF IInv

-------------------------------------------------------------------------------
\* The invariant holds of an empty store.
LEMMA InitInv == Init => IInv
<1> SUFFICES ASSUME Init PROVE IInv
  BY Zenon
<1>1. Range(pending) = {} /\ Injective(pending)
  BY DEF Init, Range, Injective
<1>2. IsFiniteSet(issued)
  BY FS_EmptySet, Zenon DEF Init
<1> QED
  BY <1>1, <1>2
  DEF Init, IInv, TypeOK, SinglePlace, NoLostWork, RunningIsClaimed, ClaimsIndexed, FinishedIsInert, LostIsGone

\* Every Function, and every step of the environment, preserves it.
LEMMA NextInv == IInv /\ [Next]_vars => IInv'
<1> SUFFICES ASSUME IInv, [Next]_vars PROVE IInv'
  BY Zenon
<1>1. ASSUME NEW e \in Entries, StoreAndPush(e) PROVE IInv'
  BY <1>1, StoreAndPushInv, Zenon
<1>2. ASSUME NEW e \in Entries, NEW delay \in Delays, StoreAvailable(e, now + delay) PROVE IInv'
  <2>1. now + delay \in Nat
    BY ConstantsOK DEF IInv, TypeOK
  <2> QED
    BY <1>2, <2>1, StoreAvailableInv, Zenon
<1>3. ASSUME PromoteScheduled PROVE IInv'
  BY <1>3, PromoteScheduledInv, Zenon
<1>4. ASSUME NEW got \in Entries \cup {NoEntry}, Dequeue(got) PROVE IInv'
  BY <1>4, DequeueInv, Zenon
<1>5. ASSUME NEW w \in Workers, WorkerCall(w) PROVE IInv'
  <2>1. ASSUME NEW lease \in Leases, NEW got \in Entries \cup {NoEntry}, Claim(w, lease, got) PROVE IInv'
    BY <2>1, ClaimInv, Zenon
  <2>2. ASSUME NEW e \in Entries, NEW lease \in Leases, Renew(w, e, lease) PROVE IInv'
    BY <2>2, RenewInv, Zenon
  <2>3. ASSUME NEW e \in Entries, NEW delay \in Delays, ~HasStatus(e, {"running"}), Release(w, e, delay)
        PROVE  IInv'
    BY <2>3, ReleaseInv, Zenon
  <2>4. ASSUME NEW e \in Entries, e \notin DOMAIN record, Ack(w, e) PROVE IInv'
    BY <2>4, AckInv, Zenon
  <2>5. ASSUME NEW e \in Entries, MarkRunning(w, e) PROVE IInv'
    BY <2>5, MarkRunningInv, Zenon
  <2>6. ASSUME NEW e \in Entries, NEW outcome \in Outcomes, Settle(w, e, outcome) PROVE IInv'
    BY <2>6, SettleInv, ZenonT(40)
  <2> QED
    BY <1>5, <2>1, <2>2, <2>3, <2>4, <2>5, <2>6, Zenon DEF WorkerCall
<1>6. ASSUME Recover PROVE IInv'
  BY <1>6, RecoverInv, Zenon
<1>7. ASSUME NEW e \in Entries, Prune(e) PROVE IInv'
  BY <1>7, PruneInv, Zenon
<1>8. ASSUME NEW e \in Entries, RemoveRecord(e) PROVE IInv'
  BY <1>8, RemoveRecordInv, Zenon
<1>9. ASSUME Tick \/ UNCHANGED vars PROVE IInv'
  <2>1. UNCHANGED <<record, pending, delayed, scheduled, claims, claim_deadlines, issued, lost, dequeued>>
    BY <1>9, Zenon DEF Tick, vars, store
  <2>2. now' \in Nat
    BY <1>9 DEF Tick, vars, IInv, TypeOK
  <2> QED
    BY <2>1, <2>2, Zenon
    DEF IInv, TypeOK, SinglePlace, NoLostWork, RunningIsClaimed, ClaimsIndexed, FinishedIsInert, LostIsGone
<1> QED
  BY <1>1, <1>2, <1>3, <1>4, <1>5, <1>6, <1>7, <1>8, <1>9, Zenon DEF Next

\* The store keeps its inductive invariant (the Functions of library.lua called
\* by any number of workers and producers in any order).
THEOREM StoreInvariant == Spec => []IInv
  BY InitInv, NextInv, PTL DEF Spec

\* No entry is ever in two places, so no two consumers get the same delivery; no
\* unfinished one is out of the reach of claim and recover; a running one is under
\* a claim that recover watches; a finished one is in no list, ZSET or claim.
THEOREM EntriesAreNotStranded == Spec => []NoEntryStranded
<1>1. IInv => NoEntryStranded
  BY Zenon DEF IInv, NoEntryStranded, ClaimsWatched
<1> QED
  BY StoreInvariant, <1>1, PTL

\* While a lease runs only its owner ends the claim.  The step itself shows it;
\* no invariant is needed.
THEOREM LeasesAreHonoured == Spec => AlwaysLeaseHonoured
<1>1. [Next]_vars => [LeaseHonoured]_vars
  <2> SUFFICES ASSUME Next, NEW e \in DOMAIN claims, claims[e].deadline > now
               PROVE  \/ e \in DOMAIN claims' /\ claims'[e].owner = claims[e].owner
                      \/ \E delay \in Delays : Release(claims[e].owner, e, delay)
                      \/ Ack(claims[e].owner, e)
                      \/ \E outcome \in Outcomes : Settle(claims[e].owner, e, outcome)
    BY Zenon DEF LeaseHonoured
  <2> DEFINE kept == e \in DOMAIN claims' /\ claims'[e].owner = claims[e].owner
  <2>1. claims' = claims => kept
    BY Zenon
  <2>2. ASSUME NEW w \in Workers, NEW lease \in Leases, NEW got \in Entries \cup {NoEntry},
               Claim(w, lease, got)
        PROVE  kept
    <3>1. claims' = claims \/ (got \notin DOMAIN claims
              /\ claims' = Zadd(claims, got, [owner |-> w, deadline |-> now + lease]))
      BY <2>2, Zenon DEF Claim
    <3> QED
      BY <3>1, Zenon DEF Zadd
  <2>3. ASSUME NEW w \in Workers, NEW f \in Entries, NEW lease \in Leases, Renew(w, f, lease)
        PROVE  kept
    BY <2>3, Zenon DEF Renew, CanRenew, Owns, Zadd
  <2>4. ASSUME NEW w \in Workers, NEW f \in Entries, NEW delay \in Delays, Release(w, f, delay)
        PROVE  kept \/ (f = e /\ w = claims[e].owner)
    BY <2>4, Zenon DEF Release, Owns, Unclaim, Without
  <2>5. ASSUME NEW w \in Workers, NEW f \in Entries, Ack(w, f)
        PROVE  kept \/ (f = e /\ w = claims[e].owner)
    BY <2>5, Zenon DEF Ack, Owns, Unclaim, Without
  <2>6. ASSUME NEW w \in Workers, NEW f \in Entries, NEW outcome \in Outcomes, Settle(w, f, outcome)
        PROVE  kept \/ (f = e /\ w = claims[e].owner)
    BY <2>6, Zenon DEF Settle, Owns, Unclaim, Without
  <2>7. ASSUME Recover PROVE kept
    <3> PICK batch \in FirstDue(claim_deadlines, Batch) :
            claims' = Without(claims, batch \ LiveClaims(batch))
      BY <2>7, Zenon DEF Recover, RecoverBatch
    <3> QED
      BY Zenon DEF Without, LiveClaims
  <2>8. ASSUME NEW w \in Workers, WorkerCall(w)
        PROVE  \/ kept
               \/ \E delay \in Delays : Release(claims[e].owner, e, delay)
               \/ Ack(claims[e].owner, e)
               \/ \E outcome \in Outcomes : Settle(claims[e].owner, e, outcome)
    BY <2>8, <2>1, <2>2, <2>3, <2>4, <2>5, <2>6, ZenonT(30) DEF WorkerCall, MarkRunning
  <2>9. ASSUME ~(\E w \in Workers : WorkerCall(w)), ~Recover PROVE claims' = claims
    BY <2>9, Zenon
    DEF Next, StoreAndPush, StoreAvailable, PromoteScheduled, Dequeue, Prune, RemoveRecord, Tick, store
  <2> QED
    BY <2>1, <2>7, <2>8, <2>9, Zenon
<1> QED
  BY <1>1, PTL DEF Spec, AlwaysLeaseHonoured

-------------------------------------------------------------------------------
\* The refinement of EntryLifecycle.

\* The mapped status has its type.
LEMMA StatusType == IInv => status \in [Entries -> Lifecycle!Statuses]
  BY Zenon DEF IInv, TypeOK, status, Stored, Terminal, Lifecycle!Statuses, Lifecycle!Stored, Lifecycle!Terminal

\* Every step of the store is a step of the status machine.
LEMMA LifecycleStep ==
    ASSUME IInv, IInv', [Next]_vars
    PROVE  [Lifecycle!Next]_status
<1> USE DEF Lifecycle!Follows, Lifecycle!NextState, Lifecycle!Terminal, Lifecycle!Stored
<1>1. status' \in [Entries -> Lifecycle!Statuses]
  <2>1. (IInv => status \in [Entries -> Lifecycle!Statuses])'
    BY StatusType, PTL
  <2> QED
    BY <2>1, Zenon
<1>2. SUFFICES ASSUME NEW e \in Entries PROVE Lifecycle!Follows(status[e], status'[e])
  BY <1>1, Zenon DEF Lifecycle!Next
<1>3. ASSUME record' = record, lost' = lost, issued' = issued PROVE status'[e] = status[e]
  BY <1>3, Zenon DEF status
<1>4. ASSUME NEW f \in Entries, f \notin issued, issued' = issued \cup {f}, lost' = lost,
             record' = Zadd(record, f, "queued")
      PROVE  Lifecycle!Follows(status[e], status'[e])
  <2>1. CASE e = f
    BY <1>4, <2>1, Zenon DEF status, Zadd, IInv, TypeOK
  <2>2. CASE e # f
    <3>1. status'[e] = status[e]
      BY <1>4, <2>2, Zenon DEF status, Zadd
    <3> QED
      BY <3>1, Zenon
  <2> QED
    BY <2>1, <2>2, Zenon
<1>5. ASSUME NEW w \in Workers, NEW f \in Entries, MarkRunning(w, f)
      PROVE  Lifecycle!Follows(status[e], status'[e])
  BY <1>5, Zenon DEF MarkRunning, HasStatus, status, Zadd
<1>6. ASSUME NEW w \in Workers, NEW f \in Entries, NEW outcome \in Outcomes, Settle(w, f, outcome)
      PROVE  Lifecycle!Follows(status[e], status'[e])
  BY <1>6, Zenon DEF Settle, HasStatus, status, Zadd, Outcomes
<1>7. ASSUME Recover PROVE Lifecycle!Follows(status[e], status'[e])
  <2> PICK gone : record' = [f \in DOMAIN record |-> IF f \in Requeued(gone) THEN "queued" ELSE record[f]]
    BY <1>7, Zenon DEF Recover, RecoverBatch
  <2>1. lost' = lost /\ issued' = issued
    BY <1>7, Zenon DEF Recover, RecoverBatch
  <2>2. CASE e \in Requeued(gone)
    BY <2>1, <2>2, Zenon DEF status, Requeued, HasStatus
  <2>3. CASE e \notin Requeued(gone)
    <3>1. status'[e] = status[e]
      BY <2>1, <2>3, Zenon DEF status
    <3> QED
      BY <3>1, Zenon
  <2> QED
    BY <2>2, <2>3, Zenon
<1>8. ASSUME NEW f \in Entries, Prune(f) PROVE Lifecycle!Follows(status[e], status'[e])
  <2>1. CASE e = f
    BY <1>8, <2>1, Zenon DEF Prune, HasStatus, status, Without, Terminal, IInv, TypeOK, LostIsGone
  <2>2. CASE e # f
    <3>1. status'[e] = status[e]
      BY <1>8, <2>2, Zenon DEF Prune, status, Without
    <3> QED
      BY <3>1, Zenon
  <2> QED
    BY <2>1, <2>2, Zenon
<1>9. ASSUME NEW f \in Entries, RemoveRecord(f) PROVE Lifecycle!Follows(status[e], status'[e])
  <2>1. CASE e = f
    BY <1>9, <2>1, Zenon DEF RemoveRecord, status, Without, IInv, TypeOK, Stored, Terminal
  <2>2. CASE e # f
    <3>1. status'[e] = status[e]
      BY <1>9, <2>2, Zenon DEF RemoveRecord, status, Without
    <3> QED
      BY <3>1, Zenon
  <2> QED
    BY <2>1, <2>2, Zenon
<1>10. ASSUME NEW w \in Workers, WorkerCall(w) PROVE Lifecycle!Follows(status[e], status'[e])
  BY <1>10, <1>3, <1>5, <1>6, Zenon DEF WorkerCall, Claim, Renew, Release, Ack
<1>11. ASSUME NEW f \in Entries, StoreAndPush(f) PROVE Lifecycle!Follows(status[e], status'[e])
  BY <1>11, <1>4, Zenon DEF StoreAndPush
<1>12. ASSUME NEW f \in Entries, NEW t, StoreAvailable(f, t) PROVE Lifecycle!Follows(status[e], status'[e])
  BY <1>12, <1>4, Zenon DEF StoreAvailable
<1>13. ASSUME \/ PromoteScheduled \/ Tick \/ UNCHANGED vars
              \/ \E got \in Entries \cup {NoEntry} : Dequeue(got)
       PROVE  Lifecycle!Follows(status[e], status'[e])
  BY <1>13, <1>3, Zenon DEF PromoteScheduled, Tick, vars, store, Dequeue
<1> QED
  BY <1>7, <1>8, <1>9, <1>10, <1>11, <1>12, <1>13, Zenon DEF Next

\* The store implements the status machine of entries.py: whatever the workers,
\* producers, recoveries and removals do, an entry's status only takes the
\* transitions of next_state.
THEOREM StoreRefinesLifecycle == Spec => LifecycleSpec
<1>1. Init => Lifecycle!Init
  <2> SUFFICES ASSUME Init PROVE Lifecycle!Init
    BY Zenon
  <2>1. DOMAIN record = {} /\ issued = {} /\ lost = {}
    BY DEF Init
  <2> QED BY <2>1, Zenon DEF Lifecycle!Init, status
<1> QED
  BY <1>1, LifecycleStep, StoreInvariant, PTL DEF Spec, LifecycleSpec, Lifecycle!Spec

-------------------------------------------------------------------------------
\* The workers.

Resting == {"recover", "claim", "stopped"}
Unstarted == {"find", "renew", "mark_find", "mark", "release"}
Started == {"handler", "grace", "stop_renewal", "settle_find", "settle", "persist_find", "persist"}
Unowned == {"publish", "persist_find", "persist"}

Local == [pc : Awaits \cup {"stopped"}, entry : Entries \cup {NoEntry},
          outcome : Outcomes \cup {"none"}, renewal : {"off", "on", "failed"},
          closing : BOOLEAN, cancelled : BOOLEAN, mine : Nat, lease_until : Nat]

\* What the worker's own variables say of each other and of the record: it has an
\* entry exactly while it dispatches, one that it wants to discard has no record,
\* and a cancellation that it has not suppressed is about to end it.
LocalOK(w) ==
    /\ worker[w].pc \in Resting =>
          /\ InHand(w) = NoEntry /\ worker[w].renewal = "off"
          /\ ~worker[w].closing /\ worker[w].lease_until = 0
    /\ worker[w].pc \notin Resting => InHand(w) \in issued
    /\ worker[w].pc \in {"stop_renewal", "settle_find", "settle"} => worker[w].outcome \in Outcomes
    /\ worker[w].pc = "ack" => InHand(w) \notin DOMAIN record
    /\ worker[w].cancelled /\ w \notin deaf => worker[w].closing \/ worker[w].pc = "stopped"

\* What it may rely on as long as it owns its entry.
OwnerOK(w) ==
    /\ worker[w].pc \in Unstarted /\ Owns(w, InHand(w)) => ~HasStatus(InHand(w), {"running"})
    /\ worker[w].pc \in Started /\ Owns(w, InHand(w)) /\ HasStatus(InHand(w), {"running"})
          => worker[w].mine = attempt[InHand(w)]
    /\ worker[w].lease_until > now /\ worker[w].pc \notin Unowned
          => Owns(w, InHand(w)) /\ claims[InHand(w)].deadline >= worker[w].lease_until

WInv ==
    /\ IInv
    /\ WTypeOK
    /\ \A w \in Workers : LocalOK(w) /\ OwnerOK(w)

-------------------------------------------------------------------------------
\* What a worker can rely on while others move: they give it no claim, leave its
\* claims alone while their leases run, and start none of its entries.
Rely(w) ==
    /\ issued \subseteq issued' /\ now <= now' /\ now \in Nat /\ now' \in Nat
    /\ \A e \in issued :
          /\ e \in DOMAIN record' => e \in DOMAIN record
          /\ Owns(w, e)' => Owns(w, e)
          /\ Owns(w, e) /\ claims[e].deadline > now
                => Owns(w, e)' /\ claims'[e].deadline >= claims[e].deadline
          /\ Owns(w, e)' /\ HasStatus(e, {"running"})'
                => HasStatus(e, {"running"}) /\ attempt'[e] = attempt[e]

\* As long as a worker keeps its entry, what others do leaves it what it relies on.
LEMMA OwnerGoesOn ==
    ASSUME WInv, IInv', NEW w \in Workers, Rely(w),
           worker[w].pc \notin Resting,
           worker'[w].entry = worker[w].entry, worker'[w].mine = worker[w].mine,
           worker'[w].lease_until = worker[w].lease_until,
           worker'[w].pc \in Unstarted => worker[w].pc \in Unstarted,
           worker'[w].pc \in Started => worker[w].pc \in Started,
           worker'[w].pc \notin Unowned => worker[w].pc \notin Unowned
    PROVE  OwnerOK(w)'
<1>a. now \in Nat /\ now' \in Nat /\ now <= now'
  BY Zenon DEF Rely
<1>0. PICK e : e = InHand(w)
  BY Zenon
<1>1. LocalOK(w) /\ OwnerOK(w) /\ e = InHand(w) /\ InHand(w)' = e
  <2>1. LocalOK(w) /\ OwnerOK(w)
    BY Zenon DEF WInv
  <2>2. InHand(w)' = e
    BY <1>0, Zenon DEF InHand
  <2> QED BY <1>0, <2>1, <2>2, Zenon
<1>2. e \in issued
  BY <1>1, Zenon DEF LocalOK
<1>3. worker[w].lease_until \in Nat
  BY Zenon DEF WInv, WTypeOK
<1>4. worker[w].lease_until > now' /\ worker[w].pc \notin Unowned
         => Owns(w, e)' /\ claims'[e].deadline >= worker[w].lease_until
  <2> SUFFICES ASSUME worker[w].lease_until > now', worker[w].pc \notin Unowned
               PROVE  Owns(w, e)' /\ claims'[e].deadline >= worker[w].lease_until
    BY Zenon
  <2>1. worker[w].lease_until > now
    BY <1>a, <1>3, Ordering, Zenon
  <2>2. Owns(w, e) /\ claims[e].deadline >= worker[w].lease_until
    BY <1>1, <2>1, Zenon DEF OwnerOK
  <2>3. claims[e].deadline \in Nat
    BY <2>2, Zenon DEF WInv, IInv, TypeOK, Owns
  <2>4. claims[e].deadline > now
    BY <1>a, <1>3, <2>1, <2>2, <2>3, Ordering, ZenonT(40)
  <2>5. Owns(w, e)' /\ claims'[e].deadline >= claims[e].deadline
    BY <1>2, <2>2, <2>4, Zenon DEF Rely
  <2>6. claims'[e].deadline \in Nat
    BY <2>5, Zenon DEF IInv, TypeOK, Owns
  <2> QED BY <1>3, <2>2, <2>3, <2>5, <2>6, SMT, SMTT(30)
<1>5. worker[w].pc \in Unstarted /\ Owns(w, e)' => ~HasStatus(e, {"running"})'
  BY <1>1, <1>2, Zenon DEF OwnerOK, Rely
<1>6. worker[w].pc \in Started /\ Owns(w, e)' /\ HasStatus(e, {"running"})'
         => worker[w].mine = attempt'[e]
  BY <1>1, <1>2, Zenon DEF OwnerOK, Rely
<1> QED BY <1>1, <1>4, <1>5, <1>6, Zenon DEF OwnerOK, Owns, HasStatus, InHand

LEMMA AtRestFields ==
    ASSUME NEW where, NEW c
    PROVE  /\ AtRest(where, c).pc = where /\ AtRest(where, c).entry = NoEntry
           /\ AtRest(where, c).renewal = "off" /\ AtRest(where, c).closing = FALSE
           /\ AtRest(where, c).cancelled = c /\ AtRest(where, c).lease_until = 0
BY Zenon DEF AtRest

LEMMA AtRestAtFirst ==
    /\ AtRest("recover", FALSE).pc = "recover" /\ AtRest("recover", FALSE).entry = NoEntry
    /\ AtRest("recover", FALSE).renewal = "off" /\ AtRest("recover", FALSE).closing = FALSE
    /\ AtRest("recover", FALSE).cancelled = FALSE /\ AtRest("recover", FALSE).lease_until = 0
BY Zenon DEF AtRest

\* A worker at rest relies on nothing.
LEMMA AtRestOK ==
    ASSUME IInv', NEW w \in Workers, NEW where \in Resting, NEW c,
           worker'[w] = AtRest(where, c), c /\ w \notin deaf' => where = "stopped"
    PROVE  LocalOK(w)' /\ OwnerOK(w)'
<1>1. now' \in Nat
  BY Zenon DEF IInv, TypeOK
<1>2. /\ worker'[w].pc = where /\ worker'[w].entry = NoEntry /\ worker'[w].renewal = "off"
      /\ worker'[w].closing = FALSE /\ worker'[w].cancelled = c /\ worker'[w].lease_until = 0
  <2>1. /\ AtRest(where, c).pc = where /\ AtRest(where, c).entry = NoEntry
        /\ AtRest(where, c).renewal = "off" /\ AtRest(where, c).closing = FALSE
        /\ AtRest(where, c).cancelled = c /\ AtRest(where, c).lease_until = 0
    BY AtRestFields, ZenonT(40)
  <2> QED BY <2>1, Zenon
<1>3. /\ where \notin Unstarted /\ where \notin Started
      /\ where \notin {"stop_renewal", "settle_find", "settle"} /\ where # "ack"
  BY Zenon DEF Resting, Unstarted, Started
<1>4. ~(worker'[w].lease_until > now')
  BY <1>1, <1>2
<1>5. OwnerOK(w)'
  BY <1>2, <1>3, <1>4, Zenon DEF OwnerOK
<1>6. LocalOK(w)'
  BY <1>2, <1>3, Zenon DEF LocalOK, InHand
<1> QED BY <1>5, <1>6, Zenon

LEMMA Undisturbed ==
    ASSUME WInv, IInv', NEW w \in Workers, Rely(w), worker'[w] = worker[w], deaf \subseteq deaf'
    PROVE  LocalOK(w)' /\ OwnerOK(w)'
<1>1. LocalOK(w)
  BY Zenon DEF WInv
<1>2. LocalOK(w)'
  BY <1>1, Zenon DEF LocalOK, Rely, InHand, Resting
<1>3. CASE worker[w].pc \in Resting
  <2>1. worker'[w].pc \in Resting /\ worker'[w].lease_until = 0 /\ now' \in Nat
    BY <1>1, <1>3, Zenon DEF LocalOK, Rely
  <2>2. worker'[w].pc \notin Unstarted /\ worker'[w].pc \notin Started
    BY <2>1, Zenon DEF Resting, Unstarted, Started
  <2>3. ~(worker'[w].lease_until > now')
    BY <2>1, Ordering, Zenon
  <2> QED BY <1>2, <2>2, <2>3, Zenon DEF OwnerOK
<1>4. CASE worker[w].pc \notin Resting
  BY <1>2, <1>4, OwnerGoesOn, Zenon
<1> QED BY <1>3, <1>4, ZenonT(30)

LEMMA RelyIf ==
    ASSUME WInv, NEW w, now' = now, issued \subseteq issued',
           \A e \in issued :
              /\ e \in DOMAIN record' => e \in DOMAIN record
              /\ Owns(w, e)' => Owns(w, e) /\ attempt'[e] = attempt[e]
              /\ Owns(w, e)' /\ HasStatus(e, {"running"})' => HasStatus(e, {"running"})
              /\ Owns(w, e) /\ claims[e].deadline > now => Owns(w, e)' /\ claims'[e] = claims[e]
    PROVE  Rely(w)
<1>1. now \in Nat /\ \A e \in DOMAIN claims : claims[e].deadline \in Nat
  BY Zenon DEF WInv, IInv, TypeOK
<1>2. \A e \in DOMAIN claims : claims[e].deadline >= claims[e].deadline
  BY <1>1
<1>3. \A e \in issued : Owns(w, e) /\ claims'[e] = claims[e] => claims'[e].deadline >= claims[e].deadline
  BY <1>2, Zenon DEF Owns
<1>4. now <= now' /\ now' \in Nat
  BY <1>1
<1> QED BY <1>1, <1>3, <1>4, Zenon DEF Rely

\* The calls of a worker, and what other workers can rely on meanwhile.
LEMMA RelyOnCalls ==
    ASSUME WInv, NEW v \in Workers, NEW w \in Workers, v # w,
           \/ \E got : Claim(v, DefaultLease, got) /\ attempt' = attempt
           \/ \E e \in issued : Renew(v, e, Lease) /\ attempt' = attempt
           \/ \E e \in issued, delay \in Delays : Release(v, e, delay) /\ attempt' = attempt
           \/ \E e \in issued : Ack(v, e) /\ attempt' = attempt
           \/ \E e \in issued : MarkRunning(v, e) /\ attempt' = [attempt EXCEPT ![e] = @ + 1]
           \/ \E e \in issued, outcome \in Outcomes : Settle(v, e, outcome) /\ attempt' = attempt
    PROVE  Rely(w)
<1>1. ASSUME UNCHANGED <<now, issued>>, DOMAIN record' = DOMAIN record,
             \A e \in issued :
                /\ Owns(w, e)' => Owns(w, e)
                /\ Owns(w, e) => Owns(w, e)' /\ claims'[e] = claims[e] /\ attempt'[e] = attempt[e]
                /\ Owns(w, e) /\ e \in DOMAIN record => record'[e] = record[e]
      PROVE  Rely(w)
  <2>1. \A e \in issued : Owns(w, e) /\ HasStatus(e, {"running"})' => HasStatus(e, {"running"})
    BY <1>1, Zenon DEF HasStatus
  <2>2. now' = now /\ issued \subseteq issued'
    BY <1>1, Zenon
  <2> QED BY <1>1, <2>1, <2>2, RelyIf, Zenon
<1>2. CASE \E got : Claim(v, DefaultLease, got) /\ attempt' = attempt
  <2>1. PICK got : Claim(v, DefaultLease, got) /\ attempt' = attempt
    BY <1>2, Zenon
  <2>2. \/ claims' = claims
        \/ got \notin DOMAIN claims /\ claims' = Zadd(claims, got, [owner |-> v, deadline |-> now + DefaultLease])
    BY <2>1, Zenon DEF Claim
  <2>3. /\ DOMAIN claims \subseteq DOMAIN claims' /\ \A e \in DOMAIN claims : claims'[e] = claims[e]
        /\ \A e \in DOMAIN claims' \ DOMAIN claims : claims'[e].owner = v
    BY <2>2 DEF Zadd
  <2>4. UNCHANGED <<record, now, issued>>
    BY <2>1, ZenonT(30) DEF Claim
  <2>5. \A f \in issued : /\ Owns(w, f)' => Owns(w, f)
                          /\ Owns(w, f) => Owns(w, f)' /\ claims'[f] = claims[f]
    <3> SUFFICES ASSUME NEW f \in issued
                 PROVE  /\ Owns(w, f)' => Owns(w, f)
                        /\ Owns(w, f) => Owns(w, f)' /\ claims'[f] = claims[f]
      BY Zenon
    <3>1. CASE f \in DOMAIN claims
      <4>1. claims'[f] = claims[f] /\ f \in DOMAIN claims'
        BY <2>3, <3>1, Zenon
      <4> QED BY <3>1, <4>1, Zenon DEF Owns
    <3>2. CASE f \notin DOMAIN claims
      <4>1. f \in DOMAIN claims' => claims'[f].owner = v
        BY <2>3, <3>2, Zenon
      <4> QED BY <3>2, <4>1, Zenon DEF Owns
    <3> QED BY <3>1, <3>2, Zenon
  <2> QED BY <1>1, <2>1, <2>4, <2>5, Zenon
<1>3. CASE \E e \in issued : Renew(v, e, Lease) /\ attempt' = attempt
  <2>1. PICK e \in issued : Renew(v, e, Lease) /\ attempt' = attempt
    BY <1>3, Zenon
  <2>2. /\ DOMAIN claims' = DOMAIN claims /\ claims[e].owner = v /\ claims'[e].owner = v
        /\ \A f \in DOMAIN claims \ {e} : claims'[f] = claims[f]
    BY <2>1, ZenonT(30) DEF Renew, CanRenew, Zadd, Owns
  <2>3. UNCHANGED <<record, now, issued>>
    BY <2>1, ZenonT(30) DEF Renew
  <2>4. \A f \in issued : /\ Owns(w, f)' => Owns(w, f)
                          /\ Owns(w, f) => Owns(w, f)' /\ claims'[f] = claims[f]
    BY <2>2, Zenon DEF Owns
  <2> QED BY <1>1, <2>1, <2>3, <2>4, Zenon
<1>4. ASSUME NEW e \in issued, Owns(v, e), Unclaim(e), UNCHANGED <<now, issued, attempt>>,
             DOMAIN record' = DOMAIN record, \A f \in DOMAIN record \ {e} : record'[f] = record[f]
      PROVE  Rely(w)
  <2>1. /\ DOMAIN claims' = DOMAIN claims \ {e} /\ claims[e].owner = v
        /\ \A f \in DOMAIN claims \ {e} : claims'[f] = claims[f]
    BY <1>4, Zenon DEF Unclaim, Without, Owns
  <2> QED BY <1>1, <1>4, <2>1, Zenon DEF Owns
<1>5. CASE \E e \in issued, delay \in Delays : Release(v, e, delay) /\ attempt' = attempt
  BY <1>4, <1>5, ZenonT(30) DEF Release
<1>6. CASE \E e \in issued : Ack(v, e) /\ attempt' = attempt
  BY <1>4, <1>6, ZenonT(30) DEF Ack
<1>7. CASE \E e \in issued : MarkRunning(v, e) /\ attempt' = [attempt EXCEPT ![e] = @ + 1]
  <2>1. PICK e \in issued : MarkRunning(v, e) /\ attempt' = [attempt EXCEPT ![e] = @ + 1]
    BY <1>7, Zenon
  <2>2. /\ claims' = claims /\ claims[e].owner = v /\ UNCHANGED <<now, issued>>
        /\ DOMAIN record' = DOMAIN record /\ \A f \in DOMAIN record \ {e} : record'[f] = record[f]
    BY <2>1, Zenon DEF MarkRunning, HasStatus, Zadd, Owns
  <2>3. \A f \in issued \ {e} : attempt'[f] = attempt[f]
    BY <2>1, Zenon DEF WInv, WTypeOK, IInv, TypeOK
  <2> QED BY <1>1, <2>2, <2>3, Zenon DEF Owns
<1>8. CASE \E e \in issued, outcome \in Outcomes : Settle(v, e, outcome) /\ attempt' = attempt
  <2>1. PICK e \in issued : \E outcome \in Outcomes : Settle(v, e, outcome) /\ attempt' = attempt
    BY <1>8, Zenon
  <2>2. DOMAIN record' = DOMAIN record /\ \A f \in DOMAIN record \ {e} : record'[f] = record[f]
    BY <2>1, ZenonT(30) DEF Settle, HasStatus, Zadd
  <2> QED BY <1>4, <2>1, <2>2, Zenon DEF Settle
<1> QED BY <1>2, <1>3, <1>5, <1>6, <1>7, <1>8, Zenon

\* No worker is disturbed by producers, pruning, lost records and time.
LEMMA RelyOnOthers ==
    ASSUME WInv, NEW w \in Workers, attempt' = attempt,
           \/ \E e \in Entries : StoreAndPush(e) \/ Prune(e) \/ RemoveRecord(e)
           \/ Tick \/ Recover \/ UNCHANGED vars
    PROVE  Rely(w)
<1>0. ASSUME now' = now, issued \subseteq issued', claims' = claims,
             \A e \in issued : e \in DOMAIN record' => e \in DOMAIN record /\ record'[e] = record[e]
      PROVE  Rely(w)
  BY <1>0, RelyIf, Zenon DEF Owns, HasStatus
<1>1. CASE \E e \in Entries : StoreAndPush(e)
  BY <1>0, <1>1, Zenon DEF StoreAndPush, Zadd
<1>2. CASE \E e \in Entries : Prune(e)
  BY <1>0, <1>2, Zenon DEF Prune, Without
<1>3. CASE \E e \in Entries : RemoveRecord(e)
  BY <1>0, <1>3, Zenon DEF RemoveRecord, Without
<1>4. CASE Tick
  <2>1. now \in Nat /\ now' = now + 1 /\ (\A e \in DOMAIN claims : claims[e].deadline \in Nat)
    BY <1>4, Zenon DEF Tick, WInv, IInv, TypeOK
  <2>2. now <= now' /\ now' \in Nat /\ (\A e \in DOMAIN claims : claims[e].deadline >= claims[e].deadline)
    BY <2>1
  <2>3. UNCHANGED <<record, claims, issued>>
    BY <1>4, Zenon DEF Tick, store
  <2>4. \A e : (Owns(w, e)' <=> Owns(w, e)) /\ (HasStatus(e, {"running"})' <=> HasStatus(e, {"running"}))
    BY <2>3, Zenon DEF Owns, HasStatus
  <2> QED BY <2>1, <2>2, <2>3, <2>4, Zenon DEF Rely, Owns
<1>5. CASE UNCHANGED vars
  BY <1>0, <1>5, Zenon DEF vars, store
<1>6. CASE Recover
  <2>1. PICK batch : RecoverBatch(LiveClaims(batch), batch \ LiveClaims(batch))
    BY <1>6, Zenon DEF Recover
  <2>2. /\ DOMAIN claims' \subseteq DOMAIN claims
        /\ \A e \in DOMAIN claims : claims[e].deadline > now => e \in DOMAIN claims'
        /\ \A e \in DOMAIN claims' : claims'[e] = claims[e]
    BY <2>1, Zenon DEF RecoverBatch, LiveClaims, Without
  <2>3. /\ DOMAIN record' = DOMAIN record
        /\ \A e \in DOMAIN record : record'[e] \in {"queued", record[e]}
    BY <2>1, Zenon DEF RecoverBatch
  <2>4. now' = now /\ issued' = issued
    BY <2>1, Zenon DEF RecoverBatch
  <2>5. \A e \in issued : HasStatus(e, {"running"})' => HasStatus(e, {"running"})
    BY <2>3, Zenon DEF HasStatus
  <2> QED BY <2>2, <2>3, <2>4, <2>5, RelyIf, Zenon DEF Owns
<1> QED BY <1>1, <1>2, <1>3, <1>4, <1>5, <1>6, Zenon

-------------------------------------------------------------------------------
\* The worker w moves: the facts about w are shown step by step, the others rely on
\* what w leaves alone.
Others(w) == \A x \in Workers \ {w} : worker'[x] = worker[x] /\ Rely(x)

LEMMA Compose ==
    ASSUME WInv, NEW w \in Workers, [Next]_vars, WTypeOK', deaf \subseteq deaf', Others(w),
           IInv' => LocalOK(w)' /\ OwnerOK(w)'
    PROVE  WInv'
<1>1. IInv'
  BY NextInv, Zenon DEF WInv
<1>2. \A x \in Workers \ {w} : LocalOK(x)' /\ OwnerOK(x)'
  BY <1>1, Undisturbed, Zenon DEF Others
<1> QED BY <1>1, <1>2, Zenon DEF WInv

\* The values of a worker's variables after its steps.
LEMMA LocalUpdates ==
    ASSUME WTypeOK, NEW w \in Workers
    PROVE  /\ \A where \in Awaits \cup {"stopped"}, c \in BOOLEAN :
                 [worker EXCEPT ![w] = AtRest(where, c)] \in [Workers -> Local]
           /\ \A where \in Awaits \cup {"stopped"}, entry \in Entries \cup {NoEntry}, n \in Nat :
                 [worker EXCEPT ![w].pc = where, ![w].entry = entry, ![w].lease_until = n] \in [Workers -> Local]
           /\ \A where \in Awaits \cup {"stopped"}, n \in Nat :
                 [worker EXCEPT ![w].pc = where, ![w].lease_until = n] \in [Workers -> Local]
           /\ \A where \in Awaits \cup {"stopped"}, renewal \in {"off", "on", "failed"}, n \in Nat :
                 [worker EXCEPT ![w].pc = where, ![w].renewal = renewal, ![w].mine = n] \in [Workers -> Local]
           /\ \A n \in Nat :
                 [worker EXCEPT ![w].lease_until = n] \in [Workers -> Local]
           /\ \A renewal \in {"off", "on", "failed"} :
                 [worker EXCEPT ![w].renewal = renewal] \in [Workers -> Local]
           /\ \A where \in Awaits \cup {"stopped"}, renewal \in {"off", "on", "failed"} :
                 [worker EXCEPT ![w].pc = where, ![w].renewal = renewal] \in [Workers -> Local]
           /\ \A where \in Awaits \cup {"stopped"}, outcome \in Outcomes :
                 [worker EXCEPT ![w].pc = where, ![w].outcome = outcome] \in [Workers -> Local]
           /\ \A where \in Awaits \cup {"stopped"} :
                 [worker EXCEPT ![w].pc = where] \in [Workers -> Local]
<1>1. worker \in [Workers -> Local] /\ worker[w] \in Local
  BY Zenon DEF WTypeOK, Local
<1>2. ASSUME NEW where \in Awaits \cup {"stopped"}, NEW c \in BOOLEAN
      PROVE  [worker EXCEPT ![w] = AtRest(where, c)] \in [Workers -> Local]
  <2>1. AtRest(where, c) \in Local
    BY Zenon DEF AtRest, Local
  <2> QED BY <1>1, <2>1, Zenon
<1>3. ASSUME NEW where \in Awaits \cup {"stopped"}, NEW entry \in Entries \cup {NoEntry}, NEW n \in Nat
      PROVE  [worker EXCEPT ![w].pc = where, ![w].entry = entry, ![w].lease_until = n] \in [Workers -> Local]
  <2>1. [worker[w] EXCEPT !.pc = where, !.entry = entry, !.lease_until = n] \in Local
    BY <1>1, Zenon DEF Local
  <2> QED BY <1>1, <2>1, Zenon
<1>4. ASSUME NEW where \in Awaits \cup {"stopped"}, NEW n \in Nat
      PROVE  [worker EXCEPT ![w].pc = where, ![w].lease_until = n] \in [Workers -> Local]
  <2>1. [worker[w] EXCEPT !.pc = where, !.lease_until = n] \in Local
    BY <1>1, Zenon DEF Local
  <2> QED BY <1>1, <2>1, Zenon
<1>5. ASSUME NEW where \in Awaits \cup {"stopped"}, NEW renewal \in {"off", "on", "failed"}, NEW n \in Nat
      PROVE  [worker EXCEPT ![w].pc = where, ![w].renewal = renewal, ![w].mine = n] \in [Workers -> Local]
  <2>1. [worker[w] EXCEPT !.pc = where, !.renewal = renewal, !.mine = n] \in Local
    BY <1>1, Zenon DEF Local
  <2> QED BY <1>1, <2>1, Zenon
<1>6. ASSUME NEW n \in Nat
      PROVE  [worker EXCEPT ![w].lease_until = n] \in [Workers -> Local]
  <2>1. [worker[w] EXCEPT !.lease_until = n] \in Local
    BY <1>1, Zenon DEF Local
  <2> QED BY <1>1, <2>1, Zenon
<1>7. ASSUME NEW renewal \in {"off", "on", "failed"}
      PROVE  [worker EXCEPT ![w].renewal = renewal] \in [Workers -> Local]
  <2>1. [worker[w] EXCEPT !.renewal = renewal] \in Local
    BY <1>1, Zenon DEF Local
  <2> QED BY <1>1, <2>1, Zenon
<1>8. ASSUME NEW where \in Awaits \cup {"stopped"}, NEW renewal \in {"off", "on", "failed"}
      PROVE  [worker EXCEPT ![w].pc = where, ![w].renewal = renewal] \in [Workers -> Local]
  <2>1. [worker[w] EXCEPT !.pc = where, !.renewal = renewal] \in Local
    BY <1>1, Zenon DEF Local
  <2> QED BY <1>1, <2>1, Zenon
<1>9. ASSUME NEW where \in Awaits \cup {"stopped"}, NEW outcome \in Outcomes
      PROVE  [worker EXCEPT ![w].pc = where, ![w].outcome = outcome] \in [Workers -> Local]
  <2>1. [worker[w] EXCEPT !.pc = where, !.outcome = outcome] \in Local
    BY <1>1, Zenon DEF Local
  <2> QED BY <1>1, <2>1, Zenon
<1>10. ASSUME NEW where \in Awaits \cup {"stopped"}
      PROVE  [worker EXCEPT ![w].pc = where] \in [Workers -> Local]
  <2>1. [worker[w] EXCEPT !.pc = where] \in Local
    BY <1>1, Zenon DEF Local
  <2> QED BY <1>1, <2>1, Zenon
<1> QED BY <1>2, <1>3, <1>4, <1>5, <1>6, <1>7, <1>8, <1>9, <1>10, Zenon

LEMMA TypeIs ==
    WTypeOK = /\ worker \in [Workers -> Local] /\ attempt \in [Entries -> Nat]
              /\ published \subseteq Entries /\ faults \in 0 .. MaxFaults /\ deaf \subseteq Workers
BY Zenon DEF WTypeOK, Local

\* History and bound of every step of w.
Bookkeeping(w) ==
    /\ worker' \in [Workers -> Local] /\ \A x \in Workers \ {w} : worker'[x] = worker[x]
    /\ published' \subseteq Entries /\ faults' \in 0 .. MaxFaults
    /\ deaf \subseteq deaf' /\ deaf' \subseteq Workers

\* A step of w that calls the store, and one that does not.
LEMMA CallStep ==
    ASSUME WInv, NEW w \in Workers, [Next]_vars, Bookkeeping(w), attempt' \in [Entries -> Nat],
           \A x \in Workers \ {w} : Rely(x),
           IInv' => LocalOK(w)' /\ OwnerOK(w)'
    PROVE  WInv'
<1>1. (WTypeOK = /\ worker \in [Workers -> Local] /\ attempt \in [Entries -> Nat]
                 /\ published \subseteq Entries /\ faults \in 0 .. MaxFaults /\ deaf \subseteq Workers)'
  BY TypeIs, PTL
<1>2. WTypeOK'
  BY <1>1, Zenon DEF Bookkeeping
<1>3. Others(w) /\ deaf \subseteq deaf'
  BY Zenon DEF Bookkeeping, Others
<1> QED BY <1>2, <1>3, Compose, Zenon

LEMMA QuietStep ==
    ASSUME WInv, NEW w \in Workers, UNCHANGED <<vars, attempt>>, Bookkeeping(w),
           IInv' => LocalOK(w)' /\ OwnerOK(w)'
    PROVE  WInv'
<1>1. \A x \in Workers : Rely(x)
  BY RelyOnOthers, Zenon
<1>2. attempt' \in [Entries -> Nat]
  BY Zenon DEF WInv, WTypeOK
<1> QED BY <1>1, <1>2, CallStep, Zenon

\* w goes on with the entry in its hands and makes no call, or ends its dispatch.
LEMMA GoesOn ==
    ASSUME WInv, NEW w \in Workers, UNCHANGED <<vars, attempt>>, Bookkeeping(w),
           worker[w].pc \notin Resting, worker'[w].pc \notin Resting,
           worker'[w].entry = worker[w].entry, worker'[w].mine = worker[w].mine,
           worker'[w].lease_until = worker[w].lease_until,
           worker'[w].pc \in Unstarted => worker[w].pc \in Unstarted,
           worker'[w].pc \in Started => worker[w].pc \in Started,
           worker'[w].pc \notin Unowned => worker[w].pc \notin Unowned,
           worker'[w].pc \in {"stop_renewal", "settle_find", "settle"} => worker'[w].outcome \in Outcomes,
           worker'[w].pc = "ack" => InHand(w) \notin DOMAIN record,
           worker'[w].cancelled /\ w \notin deaf' => worker'[w].closing
    PROVE  WInv'
<1>1. Rely(w)
  BY RelyOnOthers, Zenon
<1>2. LocalOK(w) /\ UNCHANGED <<record, issued>>
  BY Zenon DEF WInv, vars, store
<1>3. LocalOK(w)'
  BY <1>2, Zenon DEF LocalOK, InHand
<1>4. IInv' => OwnerOK(w)'
  BY <1>1, OwnerGoesOn, ZenonT(30)
<1> QED BY <1>3, <1>4, QuietStep, Zenon

LEMMA EndDispatchOK ==
    ASSUME WInv, NEW w \in Workers, worker[w].pc # "stopped", EndDispatch(w), deaf' = deaf
    PROVE  /\ worker' \in [Workers -> Local] /\ \A x \in Workers \ {w} : worker'[x] = worker[x]
           /\ IInv' => LocalOK(w)' /\ OwnerOK(w)'
<1>1. PICK c : c = worker[w].cancelled
  BY Zenon
<1>2. PICK where : where = IF worker[w].closing THEN "stopped" ELSE "recover"
  BY Zenon
<1>3. worker' = [worker EXCEPT ![w] = AtRest(where, c)]
  BY <1>1, <1>2, Zenon DEF EndDispatch
<1>0. WTypeOK /\ LocalOK(w)
  BY Zenon DEF WInv
<1>4. WTypeOK /\ LocalOK(w) /\ worker \in [Workers -> Local]
  BY <1>0, TypeIs, ZenonT(30)
<1>5. c \in BOOLEAN /\ where \in Resting /\ where \in Awaits \cup {"stopped"}
  BY <1>1, <1>2, <1>4, Zenon DEF Local, Resting, Awaits
<1>6. c /\ w \notin deaf' => where = "stopped"
  BY <1>1, <1>2, <1>4, Zenon DEF LocalOK
<1>7. worker' \in [Workers -> Local]
  BY <1>3, <1>4, <1>5, LocalUpdates, Zenon
<1>8. worker'[w] = AtRest(where, c) /\ \A x \in Workers \ {w} : worker'[x] = worker[x]
  BY <1>3, <1>4, Zenon
<1> QED BY <1>5, <1>6, <1>7, <1>8, AtRestOK, Zenon

LEMMA StopOK ==
    ASSUME WInv, NEW w \in Workers, NEW c \in BOOLEAN, worker' = [worker EXCEPT ![w] = AtRest("stopped", c)]
    PROVE  /\ worker' \in [Workers -> Local] /\ \A x \in Workers \ {w} : worker'[x] = worker[x]
           /\ IInv' => LocalOK(w)' /\ OwnerOK(w)'
<1>0. WTypeOK
  BY Zenon DEF WInv
<1>1. WTypeOK /\ worker \in [Workers -> Local]
  BY <1>0, TypeIs, Zenon
<1>2. worker' \in [Workers -> Local]
  BY <1>1, LocalUpdates, Zenon
<1>3. worker'[w] = AtRest("stopped", c) /\ \A x \in Workers \ {w} : worker'[x] = worker[x]
  BY <1>1, Zenon
<1>4. "stopped" \in Resting
  BY Zenon DEF Resting
<1> QED BY <1>2, <1>3, <1>4, AtRestOK, Zenon

\* The entry that w dispatches.
LEMMA Dispatching ==
    ASSUME WInv, NEW w \in Workers, worker[w].pc \notin Resting
    PROVE  /\ InHand(w) \in issued /\ InHand(w) \in Entries
           /\ worker[w].cancelled /\ w \notin deaf => worker[w].closing
<1>1. LocalOK(w) /\ issued \subseteq Entries
  BY Zenon DEF WInv, IInv, TypeOK
<1> QED BY <1>1, Zenon DEF LocalOK, Resting

-------------------------------------------------------------------------------
\* Every step of the workers and their environment is a step of the store, or
\* leaves the store alone: a release finds the entry unstarted, an ack no record.
LEMMA StoreStep ==
    ASSUME WInv, WNext
    PROVE  [Next]_vars
<1> USE WorkerConstantsOK
<1>1. ASSUME NEW w \in Workers, WorkerCall(w) PROVE [Next]_vars
  BY <1>1, Zenon DEF Next
<1>2. ASSUME NEW w \in Workers, NextRecover(w) PROVE [Next]_vars
  BY <1>2, Zenon DEF NextRecover, Next
<1>3. ASSUME NEW w \in Workers, NextClaim(w) PROVE [Next]_vars
  BY <1>1, <1>3, Zenon DEF NextClaim, WorkerCall
<1>4. ASSUME NEW w \in Workers, NextRenew(w) PROVE [Next]_vars
  <2>1. InHand(w) \in Entries
    BY <1>4, Dispatching, Zenon DEF NextRenew, At, Resting
  <2> QED BY <1>1, <1>4, <2>1, Zenon DEF NextRenew, WorkerCall
<1>5. ASSUME NEW w \in Workers, MarkRunningCall(w) PROVE [Next]_vars
  <2>1. InHand(w) \in Entries
    BY <1>5, Dispatching, Zenon DEF MarkRunningCall, At, Resting
  <2> QED BY <1>1, <1>5, <2>1, Zenon DEF MarkRunningCall, WorkerCall
<1>6. ASSUME NEW w \in Workers, ReleaseCall(w) PROVE [Next]_vars
  <2>1. InHand(w) \in Entries
    BY <1>6, Dispatching, Zenon DEF ReleaseCall, At, Resting
  <2>2. Owns(w, InHand(w)) => ~HasStatus(InHand(w), {"running"})
    BY <1>6, Zenon DEF ReleaseCall, At, WInv, OwnerOK, Unstarted
  <2>3. CASE Release(w, InHand(w), 0)
    BY <1>1, <2>1, <2>2, <2>3, Zenon DEF Release, WorkerCall
  <2> QED BY <1>6, <2>3, Zenon DEF ReleaseCall
<1>7. ASSUME NEW w \in Workers, DiscardMissing(w) PROVE [Next]_vars
  <2>1. InHand(w) \in Entries
    BY <1>7, Dispatching, Zenon DEF DiscardMissing, At, Resting
  <2>2. InHand(w) \notin DOMAIN record
    BY <1>7, Zenon DEF DiscardMissing, At, WInv, LocalOK
  <2> QED BY <1>1, <1>7, <2>1, <2>2, Zenon DEF DiscardMissing, WorkerCall
<1>8. ASSUME NEW w \in Workers, RenewClaim(w) PROVE [Next]_vars
  <2>1. LocalOK(w)
    BY Zenon DEF WInv
  <2>2. worker[w].pc \notin Resting
    BY <1>8, <2>1, Zenon DEF RenewClaim, LocalOK
  <2>3. InHand(w) \in Entries
    BY <2>2, Dispatching, Zenon
  <2> QED BY <1>1, <1>8, <2>3, Zenon DEF RenewClaim, WorkerCall
<1>9. ASSUME NEW w \in Workers, SettleCall(w) \/ SettleRaises(w) PROVE [Next]_vars
  <2>1. worker[w].pc \in {"settle_find", "settle"}
    BY <1>9, Zenon DEF SettleCall, SettleRaises, At
  <2>2. InHand(w) \in Entries
    BY <2>1, Dispatching, Zenon DEF Resting
  <2>3. worker[w].outcome \in Outcomes
    BY <2>1, Zenon DEF WInv, LocalOK
  <2> QED BY <1>1, <1>9, <2>2, <2>3, ZenonT(30) DEF SettleCall, SettleRaises, WorkerCall
<1>10. ASSUME NEW w \in Workers, PersistCall(w) PROVE [Next]_vars
  <2>1. InHand(w) \in Entries
    BY <1>10, Dispatching, Zenon DEF PersistCall, At, Resting
  <2>2. "failed" \in Outcomes
    BY Zenon DEF Outcomes
  <2> QED BY <1>1, <1>10, <2>1, <2>2, ZenonT(40) DEF PersistCall, WorkerCall
<1>11. ASSUME NEW w \in Workers,
              \/ NextSkipRecovery(w) \/ NextFind(w) \/ MarkRunningFind(w) \/ HandlerReturns(w)
              \/ BudgetExpires(w) \/ RenewalLost(w) \/ StopRenewalTask(w) \/ GraceEnds(w)
              \/ SettleFind(w) \/ Publish(w) \/ PersistFind(w)
              \/ RenewalRaises(w) \/ AckRaises(w) \/ Cancel(w) \/ Die(w)
       PROVE  [Next]_vars
  BY <1>11, Zenon DEF NextSkipRecovery, NextFind, MarkRunningFind, Find, HandlerReturns, BudgetExpires,
               RenewalLost, StopRenewalTask, GraceEnds, SettleFind, Publish, PersistFind,
               RenewalRaises, AckRaises, Cancel, Die
<1>12. ASSUME Environment PROVE [Next]_vars
  BY <1>12, Zenon DEF Environment, Next
<1> QED BY <1>2, <1>3, <1>4, <1>5, <1>6, <1>7, <1>8, <1>9, <1>10, <1>11, <1>12, Zenon DEF WNext, Step

-------------------------------------------------------------------------------
\* Every step preserves the invariant; one lemma per group of actions.
LEMMA BookSame ==
    ASSUME WInv, NEW w \in Workers, worker' \in [Workers -> Local],
           \A x \in Workers \ {w} : worker'[x] = worker[x], UNCHANGED <<published, faults, deaf>>
    PROVE  Bookkeeping(w)
BY Zenon DEF WInv, WTypeOK, Bookkeeping

LEMMA WorkerTypes ==
    ASSUME WInv, NEW w \in Workers
    PROVE  worker \in [Workers -> Local] /\ worker[w] \in Local /\ WTypeOK /\ LocalOK(w)
<1>1. WTypeOK /\ LocalOK(w)
  BY Zenon DEF WInv
<1> QED BY <1>1, TypeIs, Zenon

LEMMA RestMoves ==
    ASSUME WInv, NEW w \in Workers, worker[w].pc \in {"recover", "claim"},
           worker'[w].pc \in {"recover", "claim"}, worker'[w].entry = NoEntry,
           worker'[w].lease_until = 0, worker'[w].renewal = worker[w].renewal,
           worker'[w].closing = worker[w].closing, worker'[w].cancelled = worker[w].cancelled,
           deaf' = deaf
    PROVE  IInv' => LocalOK(w)' /\ OwnerOK(w)'
<1> SUFFICES ASSUME IInv' PROVE LocalOK(w)' /\ OwnerOK(w)'
  BY Zenon
<1>1. LocalOK(w) /\ now' \in Nat
  BY Zenon DEF WInv, IInv, TypeOK
<1>2. /\ worker'[w].pc \notin Unstarted /\ worker'[w].pc \notin Started
      /\ worker'[w].pc \notin {"stop_renewal", "settle_find", "settle", "ack", "stopped"}
      /\ worker[w].pc # "stopped" /\ worker[w].pc \in Resting /\ worker'[w].pc \in Resting
  BY Zenon DEF Unstarted, Started, Resting
<1>3. ~(worker'[w].lease_until > now')
  BY <1>1
<1>4. OwnerOK(w)'
  BY <1>2, <1>3, Zenon DEF OwnerOK
<1>5. LocalOK(w)'
  BY <1>1, <1>2, Zenon DEF LocalOK, InHand
<1> QED BY <1>4, <1>5, Zenon

LEMMA RecoverSteps ==
    ASSUME WInv, NEW w \in Workers, NextRecover(w) \/ NextSkipRecovery(w)
    PROVE  WInv'
<1>1. /\ worker[w].pc = "recover" /\ worker' = [worker EXCEPT ![w].pc = "claim"]
      /\ UNCHANGED <<attempt, published, faults, deaf>> /\ (Recover \/ UNCHANGED vars)
  BY Zenon DEF NextRecover, NextSkipRecovery, At, Goto
<1>2. worker \in [Workers -> Local] /\ worker[w] \in Local /\ WTypeOK /\ LocalOK(w)
  BY WorkerTypes, Zenon
<1>3. worker' \in [Workers -> Local]
  BY <1>1, <1>2, LocalUpdates, Zenon DEF Awaits
<1>4. Bookkeeping(w)
  BY <1>1, <1>2, <1>3, BookSame, Zenon
<1>5. IInv' => LocalOK(w)' /\ OwnerOK(w)'
  <2>1. worker[w].entry = NoEntry /\ worker[w].lease_until = 0
    BY <1>1, <1>2, Zenon DEF LocalOK, Resting, InHand
  <2>2. worker'[w].pc = "claim" /\ worker'[w].entry = NoEntry
        /\ worker'[w].lease_until = 0 /\ worker'[w].renewal = worker[w].renewal
        /\ worker'[w].closing = worker[w].closing /\ worker'[w].cancelled = worker[w].cancelled
    BY <1>1, <1>2, <2>1, Zenon DEF Local
  <2> QED BY <1>1, <2>2, RestMoves, Zenon
<1>6. [Next]_vars
  BY <1>1, Zenon DEF Next
<1>7. \A x \in Workers \ {w} : Rely(x)
  BY <1>1, RelyOnOthers, Zenon
<1>8. attempt' \in [Entries -> Nat]
  BY <1>1, <1>2, Zenon DEF WTypeOK
<1> QED BY <1>4, <1>5, <1>6, <1>7, <1>8, CallStep, Zenon

LEMMA ClaimStep ==
    ASSUME WInv, NEW w \in Workers, NextClaim(w)
    PROVE  WInv'
<1>1. PICK got \in Entries \cup {NoEntry} :
         /\ Claim(w, DefaultLease, got)
         /\ worker' = [worker EXCEPT ![w].pc = IF got = NoEntry THEN "recover" ELSE "find",
                                     ![w].entry = got,
                                     ![w].lease_until = IF got = NoEntry THEN 0 ELSE now + DefaultLease]
  BY Zenon DEF NextClaim
<1>2. worker[w].pc = "claim" /\ UNCHANGED <<attempt, published, faults, deaf>>
  BY Zenon DEF NextClaim, At
<1>3. worker \in [Workers -> Local] /\ worker[w] \in Local /\ WTypeOK /\ LocalOK(w)
  BY WorkerTypes, Zenon
<1>4. now + DefaultLease \in Nat /\ DefaultLease \in Leases
  BY WorkerConstantsOK, ConstantsOK DEF WInv, IInv, TypeOK
<1>5. PICK where : where = IF got = NoEntry THEN "recover" ELSE "find"
  BY Zenon
<1>6. PICK n : n = IF got = NoEntry THEN 0 ELSE now + DefaultLease
  BY Zenon
<1>7. where \in Awaits /\ n \in Nat
  BY <1>4, <1>5, <1>6, Zenon DEF Awaits
<1>8. worker' = [worker EXCEPT ![w].pc = where, ![w].entry = got, ![w].lease_until = n]
  BY <1>1, <1>5, <1>6, Zenon
<1>9. Bookkeeping(w)
  <2>1. worker' \in [Workers -> Local]
    BY <1>3, <1>7, <1>8, LocalUpdates, ZenonT(30)
  <2> QED BY <1>2, <1>3, <1>8, <2>1, BookSame, Zenon
<1>10. /\ worker'[w].pc = where /\ worker'[w].entry = got
       /\ worker'[w].lease_until = n /\ worker'[w].renewal = worker[w].renewal
       /\ worker'[w].closing = worker[w].closing /\ worker'[w].cancelled = worker[w].cancelled
  BY <1>3, <1>8, Zenon DEF Local
<1>11. IInv' => LocalOK(w)' /\ OwnerOK(w)'
  <2>1. CASE got = NoEntry
    BY <1>2, <1>5, <1>6, <1>10, <2>1, RestMoves, Zenon
  <2>2. CASE got # NoEntry
    <3> SUFFICES ASSUME IInv' PROVE LocalOK(w)' /\ OwnerOK(w)'
      BY Zenon
    <3>1. /\ got \notin DOMAIN claims /\ UNCHANGED <<record, now, issued>>
          /\ claims' = Zadd(claims, got, [owner |-> w, deadline |-> now + DefaultLease])
      BY <1>1, <2>2, Zenon DEF Claim
    <3>2. /\ got \in DOMAIN claims' /\ claims'[got].owner = w
          /\ claims'[got].deadline = now + DefaultLease
      BY <3>1, Zenon DEF Zadd
    <3>3. got \in issued' /\ ~HasStatus(got, {"running"})'
      BY <3>1, <3>2, Zenon DEF WInv, IInv, TypeOK, RunningIsClaimed, HasStatus
    <3>4. InHand(w)' = got /\ worker'[w].pc = "find" /\ worker'[w].lease_until = now + DefaultLease
      BY <1>5, <1>6, <1>10, <2>2, Zenon DEF InHand
    <3>5. LocalOK(w)'
      BY <1>2, <1>3, <1>10, <3>3, <3>4, ZenonT(30) DEF LocalOK, Resting
    <3>6. Owns(w, got)'
      BY <3>2, Zenon DEF Owns
    <3>7. OwnerOK(w)'
      <4>1. worker'[w].pc \notin Started
        BY <3>4, Zenon DEF Started
      <4>2. claims'[got].deadline >= worker'[w].lease_until
        BY <1>4, <3>2, <3>4, Ordering, Zenon
      <4> QED BY <3>3, <3>4, <3>6, <4>1, <4>2, Zenon DEF OwnerOK
    <3> QED BY <3>5, <3>7, Zenon
  <2> QED BY <2>1, <2>2, Zenon
<1>12. [Next]_vars
  BY <1>1, <1>4, Zenon DEF Next, WorkerCall
<1>13. \A x \in Workers \ {w} : Rely(x)
  BY <1>1, <1>2, RelyOnCalls, Zenon
<1>14. attempt' \in [Entries -> Nat]
  BY <1>2, <1>3, Zenon DEF WTypeOK
<1> QED BY <1>9, <1>11, <1>12, <1>13, <1>14, CallStep, Zenon

LEMMA FaultCount == WTypeOK /\ Fault => faults' \in 0 .. MaxFaults
<1>1. WTypeOK => faults \in 0 .. MaxFaults
  BY Zenon DEF WTypeOK
<1> QED BY <1>1, WorkerConstantsOK, SMT, SMTT(30) DEF Fault

\* The worker goes to another await with the entry in its hands and makes no call.
LEMMA GotoStep ==
    ASSUME WInv, NEW w \in Workers, NEW where \in Awaits \ Resting, Goto(w, where),
           UNCHANGED <<vars, attempt, published, deaf>>, faults' \in 0 .. MaxFaults,
           worker[w].pc \notin Resting,
           where \in Unstarted => worker[w].pc \in Unstarted,
           where \in Started => worker[w].pc \in Started,
           where \notin Unowned => worker[w].pc \notin Unowned,
           where \in {"stop_renewal", "settle_find", "settle"} => worker[w].outcome \in Outcomes,
           where = "ack" => InHand(w) \notin DOMAIN record
    PROVE  WInv'
<1>1. worker \in [Workers -> Local] /\ worker[w] \in Local /\ WTypeOK /\ LocalOK(w)
  BY WorkerTypes, Zenon
<1>2. worker' = [worker EXCEPT ![w].pc = where]
  BY Zenon DEF Goto
<1>3. worker' \in [Workers -> Local] /\ \A x \in Workers \ {w} : worker'[x] = worker[x]
  BY <1>1, <1>2, LocalUpdates, Zenon
<1>4. Bookkeeping(w)
  BY <1>1, <1>3, Zenon DEF Bookkeeping, WTypeOK
<1>5. /\ worker'[w].pc = where /\ worker'[w].entry = worker[w].entry
      /\ worker'[w].mine = worker[w].mine /\ worker'[w].lease_until = worker[w].lease_until
      /\ worker'[w].outcome = worker[w].outcome
      /\ worker'[w].closing = worker[w].closing /\ worker'[w].cancelled = worker[w].cancelled
  BY <1>1, <1>2, Zenon DEF Local
<1>6. worker'[w].cancelled /\ w \notin deaf' => worker'[w].closing
  BY <1>5, Dispatching, ZenonT(30)
<1> QED BY <1>4, <1>5, <1>6, GoesOn, ZenonT(30)

LEMMA FindSteps ==
    ASSUME WInv, NEW w \in Workers, NextFind(w) \/ MarkRunningFind(w) \/ SettleFind(w)
    PROVE  WInv'
<1>1. faults' \in 0 .. MaxFaults /\ UNCHANGED <<vars, attempt, published, deaf>>
  BY Zenon DEF NextFind, MarkRunningFind, SettleFind, Find, WInv, WTypeOK
<1>2. CASE NextFind(w)
  BY <1>1, <1>2, GotoStep, Zenon DEF NextFind, Find, At, Awaits, Resting, Unstarted, Started, Unowned
<1>3. CASE MarkRunningFind(w)
  BY <1>1, <1>3, GotoStep, Zenon DEF MarkRunningFind, Find, At, Awaits, Resting, Unstarted, Started, Unowned
<1>4. CASE SettleFind(w)
  <2>1. worker[w].outcome \in Outcomes
    BY <1>4, Zenon DEF SettleFind, Find, At, WInv, LocalOK
  <2> QED
    BY <1>1, <1>4, <2>1, GotoStep, Zenon DEF SettleFind, Find, At, Awaits, Resting, Unstarted, Started, Unowned
<1> QED BY <1>2, <1>3, <1>4, Zenon

\* The lease is renewed: claim and worker have the new deadline.
LEMMA RenewStep ==
    ASSUME WInv, NEW w \in Workers, Renew(w, InHand(w), Lease), worker[w].pc \notin Resting,
           NEW where \in Awaits \ Resting,
           worker' = [worker EXCEPT ![w].pc = where, ![w].lease_until = now + Lease],
           where \in Unstarted => worker[w].pc \in Unstarted,
           where \in Started => worker[w].pc \in Started,
           where \in {"stop_renewal", "settle_find", "settle"} => worker[w].outcome \in Outcomes,
           where = "ack" => InHand(w) \notin DOMAIN record,
           UNCHANGED <<attempt, published, faults, deaf>>
    PROVE  WInv'
<1>1. worker \in [Workers -> Local] /\ worker[w] \in Local /\ WTypeOK /\ LocalOK(w) /\ OwnerOK(w)
  BY WorkerTypes, Zenon DEF WInv
<1>2. PICK e : e = InHand(w)
  BY Zenon
<1>3. e \in issued /\ e \in Entries /\ (worker[w].cancelled /\ w \notin deaf => worker[w].closing)
  BY <1>2, Dispatching, Zenon
<1>4. now + Lease \in Nat /\ Lease \in Leases
  BY WorkerConstantsOK, ConstantsOK, SMT, SMTT(30) DEF WInv, IInv, TypeOK
<1>5. Bookkeeping(w)
  <2>1. worker' \in [Workers -> Local]
    BY <1>1, <1>4, LocalUpdates, Zenon
  <2> QED BY <1>1, <2>1, BookSame, Zenon
<1>6. /\ worker'[w].pc = where /\ worker'[w].entry = worker[w].entry
      /\ worker'[w].mine = worker[w].mine /\ worker'[w].lease_until = now + Lease
      /\ worker'[w].outcome = worker[w].outcome
      /\ worker'[w].closing = worker[w].closing /\ worker'[w].cancelled = worker[w].cancelled
  BY <1>1, Zenon DEF Local
<1>7. /\ e \in DOMAIN claims /\ claims[e].owner = w
      /\ e \in DOMAIN claims' /\ claims'[e].owner = w /\ claims'[e].deadline = now + Lease
      /\ UNCHANGED <<record, now, issued>>
  BY <1>2, Zenon DEF Renew, CanRenew, Owns, Zadd
<1>8. InHand(w)' = e
  BY <1>2, <1>6, Zenon DEF InHand
<1>9. LocalOK(w)'
  BY <1>1, <1>2, <1>3, <1>6, <1>7, <1>8, Zenon DEF LocalOK
<1>10. OwnerOK(w)'
  <2>1. Owns(w, e) /\ Owns(w, e)' /\ claims'[e].deadline >= worker'[w].lease_until
    BY <1>4, <1>6, <1>7, Ordering, Zenon DEF Owns
  <2>2. HasStatus(e, {"running"})' <=> HasStatus(e, {"running"})
    BY <1>7, Zenon DEF HasStatus
  <2>3. attempt' = attempt
    BY Zenon
  <2> QED BY <1>1, <1>2, <1>6, <1>8, <2>1, <2>2, <2>3, Zenon DEF OwnerOK
<1>11. [Next]_vars
  BY <1>2, <1>3, <1>4, Zenon DEF Next, WorkerCall
<1>12. \A x \in Workers \ {w} : Rely(x)
  BY <1>2, <1>3, RelyOnCalls, Zenon
<1>13. attempt' \in [Entries -> Nat]
  BY <1>1, Zenon DEF WTypeOK
<1> QED BY <1>5, <1>9, <1>10, <1>11, <1>12, <1>13, CallStep, Zenon

LEMMA EndStep ==
    ASSUME WInv, NEW w \in Workers, worker[w].pc \notin Resting, EndDispatch(w),
           UNCHANGED <<vars, attempt, deaf>>, published' \subseteq Entries, faults' \in 0 .. MaxFaults
    PROVE  WInv'
<1>1. worker[w].pc # "stopped"
  BY Zenon DEF Resting
<1>2. /\ worker' \in [Workers -> Local] /\ \A x \in Workers \ {w} : worker'[x] = worker[x]
      /\ IInv' => LocalOK(w)' /\ OwnerOK(w)'
  BY <1>1, EndDispatchOK, Zenon
<1>3. Bookkeeping(w)
  BY <1>2, Zenon DEF Bookkeeping, WInv, WTypeOK
<1> QED BY <1>2, <1>3, QuietStep, Zenon

LEMMA RenewSteps ==
    ASSUME WInv, NEW w \in Workers, NextRenew(w) \/ RenewClaim(w)
    PROVE  WInv'
<1>1. worker \in [Workers -> Local] /\ worker[w] \in Local /\ WTypeOK /\ LocalOK(w)
  BY WorkerTypes, Zenon
<1>2. UNCHANGED <<attempt, published, faults, deaf>> /\ published \subseteq Entries /\ faults \in 0 .. MaxFaults
  BY <1>1, Zenon DEF NextRenew, RenewClaim, WTypeOK
<1>3. CASE NextRenew(w)
  <2>1. worker[w].pc = "renew" /\ "mark_find" \in Awaits \ Resting
    BY <1>3, Zenon DEF NextRenew, At, Awaits, Resting
  <2>2. CASE /\ Renew(w, InHand(w), Lease)
             /\ worker' = [worker EXCEPT ![w].pc = "mark_find", ![w].lease_until = now + Lease]
    BY <1>2, <2>1, <2>2, RenewStep, Zenon DEF Resting, Unstarted, Started
  <2>3. CASE EndDispatch(w) /\ UNCHANGED vars
    BY <1>2, <2>1, <2>3, EndStep, Zenon DEF Resting
  <2> QED BY <1>3, <2>2, <2>3, Zenon DEF NextRenew
<1>4. CASE RenewClaim(w)
  <2>1. worker[w].pc \notin Resting /\ worker[w].pc \in Awaits \ Resting
    BY <1>1, <1>4, Zenon DEF RenewClaim, LocalOK, Local, Resting
  <2>2. CASE Renew(w, InHand(w), Lease) /\ worker' = [worker EXCEPT ![w].lease_until = now + Lease]
    <3>1. worker' = [worker EXCEPT ![w].pc = worker[w].pc, ![w].lease_until = now + Lease]
      BY <1>1, <2>2, Zenon DEF Local
    <3>2. /\ worker[w].pc \in {"stop_renewal", "settle_find", "settle"} => worker[w].outcome \in Outcomes
          /\ worker[w].pc = "ack" => InHand(w) \notin DOMAIN record
      BY <1>1, Zenon DEF LocalOK
    <3> QED BY <1>2, <2>1, <2>2, <3>1, <3>2, RenewStep, Zenon
  <2>3. CASE worker' = [worker EXCEPT ![w].renewal = "failed"] /\ UNCHANGED vars
    <3>1. worker' \in [Workers -> Local]
      BY <1>1, <2>3, LocalUpdates, Zenon
    <3>2. /\ worker'[w].pc = worker[w].pc /\ worker'[w].entry = worker[w].entry
          /\ worker'[w].mine = worker[w].mine /\ worker'[w].lease_until = worker[w].lease_until
          /\ worker'[w].outcome = worker[w].outcome
          /\ worker'[w].closing = worker[w].closing /\ worker'[w].cancelled = worker[w].cancelled
      BY <1>1, <2>3, Zenon DEF Local
    <3>3. Bookkeeping(w)
      BY <1>1, <1>2, <2>3, <3>1, BookSame, Zenon
    <3>4. worker'[w].cancelled /\ w \notin deaf' => worker'[w].closing
      BY <1>2, <2>1, <3>2, Dispatching, Zenon
    <3>5. /\ worker[w].pc \in {"stop_renewal", "settle_find", "settle"} => worker[w].outcome \in Outcomes
          /\ worker[w].pc = "ack" => InHand(w) \notin DOMAIN record
      BY <1>1, Zenon DEF LocalOK
    <3> QED BY <1>2, <2>1, <2>3, <3>2, <3>3, <3>4, <3>5, GoesOn, Zenon
  <2> QED BY <1>4, <2>2, <2>3, Zenon DEF RenewClaim
<1> QED BY <1>3, <1>4, Zenon

LEMMA MarkRunningStep ==
    ASSUME WInv, NEW w \in Workers, MarkRunningCall(w)
    PROVE  WInv'
<1>1. worker \in [Workers -> Local] /\ worker[w] \in Local /\ WTypeOK /\ LocalOK(w) /\ OwnerOK(w)
  BY WorkerTypes, Zenon DEF WInv
<1>2. worker[w].pc = "mark" /\ UNCHANGED <<published, faults, deaf>>
  BY Zenon DEF MarkRunningCall, At
<1>3. PICK e : e = InHand(w)
  BY Zenon
<1>4. e \in issued /\ e \in Entries /\ (worker[w].cancelled /\ w \notin deaf => worker[w].closing)
  BY <1>2, <1>3, Dispatching, Zenon DEF Resting
<1>5. CASE /\ MarkRunning(w, InHand(w))
           /\ attempt' = [attempt EXCEPT ![InHand(w)] = @ + 1]
           /\ worker' = [worker EXCEPT ![w].pc = "handler", ![w].renewal = "on",
                                       ![w].mine = attempt'[InHand(w)]]
  <2>1. attempt' = [attempt EXCEPT ![e] = @ + 1] /\ attempt' \in [Entries -> Nat]
    <3>1. attempt \in [Entries -> Nat]
      BY <1>1, Zenon DEF WTypeOK
    <3>2. attempt' = [attempt EXCEPT ![e] = @ + 1]
      BY <1>3, <1>5, Zenon
    <3> QED BY <1>4, <3>1, <3>2, SMT, SMTT(30)
  <2>2. PICK n : n = attempt'[e]
    BY Zenon
  <2>3. worker' = [worker EXCEPT ![w].pc = "handler", ![w].renewal = "on", ![w].mine = n] /\ n \in Nat
    BY <1>3, <1>4, <1>5, <2>1, <2>2, Zenon
  <2>4. Bookkeeping(w)
    <3>1. worker' \in [Workers -> Local]
      BY <1>1, <2>3, LocalUpdates, ZenonT(30) DEF Awaits
    <3> QED BY <1>1, <1>2, <2>3, <3>1, BookSame, Zenon
  <2>5. /\ worker'[w].pc = "handler" /\ worker'[w].entry = worker[w].entry
        /\ worker'[w].mine = n /\ worker'[w].lease_until = worker[w].lease_until
        /\ worker'[w].closing = worker[w].closing /\ worker'[w].cancelled = worker[w].cancelled
    BY <1>1, <2>3, Zenon DEF Local
  <2>6. InHand(w)' = e /\ UNCHANGED <<claims, now, issued>>
    BY <1>3, <1>5, <2>5, ZenonT(40) DEF InHand, MarkRunning
  <2>7. LocalOK(w)'
    BY <1>2, <1>4, <2>5, <2>6, Zenon DEF LocalOK, Resting
  <2>8. OwnerOK(w)'
    BY <1>1, <1>2, <1>3, <2>2, <2>5, <2>6, Zenon DEF OwnerOK, Owns, Unstarted, Started, Unowned
  <2>9. [Next]_vars
    BY <1>3, <1>4, <1>5, Zenon DEF Next, WorkerCall
  <2>10. \A x \in Workers \ {w} : Rely(x)
    BY <1>3, <1>4, <1>5, <2>1, RelyOnCalls, Zenon
  <2> QED BY <2>1, <2>4, <2>7, <2>8, <2>9, <2>10, CallStep, Zenon
<1>6. CASE Goto(w, "release") /\ UNCHANGED <<vars, attempt>>
  <2>1. faults' \in 0 .. MaxFaults
    BY <1>1, <1>2, Zenon DEF WTypeOK
  <2> QED BY <1>2, <1>6, <2>1, GotoStep, ZenonT(30) DEF Awaits, Resting, Unstarted, Started, Unowned
<1> QED BY <1>5, <1>6, Zenon DEF MarkRunningCall

\* The worker ends the claim and then its dispatch, or has lost the claim.
LEMMA GiveBackSteps ==
    ASSUME WInv, NEW w \in Workers, ReleaseCall(w) \/ DiscardMissing(w)
    PROVE  WInv'
<1>1. worker \in [Workers -> Local] /\ worker[w] \in Local /\ WTypeOK
  BY WorkerTypes, ZenonT(40)
<1>2. /\ worker[w].pc \in {"release", "ack"} /\ EndDispatch(w)
      /\ UNCHANGED <<attempt, published, faults, deaf>>
  BY Zenon DEF ReleaseCall, DiscardMissing, At
<1>3. PICK e : e = InHand(w)
  BY Zenon
<1>4. e \in issued
  BY <1>2, <1>3, Dispatching, ZenonT(30) DEF Resting
<1>5. /\ worker' \in [Workers -> Local] /\ \A x \in Workers \ {w} : worker'[x] = worker[x]
      /\ IInv' => LocalOK(w)' /\ OwnerOK(w)'
  BY <1>2, EndDispatchOK, Zenon
<1>6. Bookkeeping(w)
  BY <1>2, <1>5, BookSame, Zenon
<1>7. [Next]_vars
  BY StoreStep, Zenon DEF WNext, Step
<1>8. attempt' \in [Entries -> Nat]
  BY <1>1, <1>2, Zenon DEF WTypeOK
<1>9. \A x \in Workers \ {w} : Rely(x)
  <2>1. CASE Release(w, e, 0) \/ Ack(w, e)
    BY <1>2, <1>4, <2>1, RelyOnCalls, WorkerConstantsOK, ZenonT(30)
  <2>2. CASE UNCHANGED vars
    BY <1>2, <2>2, RelyOnOthers, Zenon
  <2> QED BY <1>3, <2>1, <2>2, Zenon DEF ReleaseCall, DiscardMissing
<1> QED BY <1>5, <1>6, <1>7, <1>8, <1>9, CallStep, Zenon

\* The outcome of the handler, of its budget or of its grace period is noted.
LEMMA OutcomeSteps ==
    ASSUME WInv, NEW w \in Workers, HandlerReturns(w) \/ BudgetExpires(w) \/ GraceEnds(w)
    PROVE  WInv'
<1>1. worker \in [Workers -> Local] /\ worker[w] \in Local /\ WTypeOK
  BY WorkerTypes, Zenon
<1>2. /\ worker[w].pc \in {"handler", "grace"}
      /\ UNCHANGED <<vars, attempt, published, faults, deaf>>
  BY Zenon DEF HandlerReturns, BudgetExpires, GraceEnds, At
<1>3. PICK where \in {"stop_renewal", "settle_find"} : \E outcome \in Outcomes :
         worker' = [worker EXCEPT ![w].pc = where, ![w].outcome = outcome]
  BY Zenon DEF HandlerReturns, BudgetExpires, GraceEnds, Outcomes
<1>4. PICK outcome \in Outcomes : worker' = [worker EXCEPT ![w].pc = where, ![w].outcome = outcome]
  BY <1>3, Zenon
<1>5. worker' \in [Workers -> Local]
  BY <1>1, <1>4, LocalUpdates, Zenon DEF Awaits
<1>6. Bookkeeping(w)
  BY <1>1, <1>2, <1>4, <1>5, BookSame, Zenon
<1>7. /\ worker'[w].pc = where /\ worker'[w].entry = worker[w].entry
      /\ worker'[w].mine = worker[w].mine /\ worker'[w].lease_until = worker[w].lease_until
      /\ worker'[w].outcome = outcome
      /\ worker'[w].closing = worker[w].closing /\ worker'[w].cancelled = worker[w].cancelled
  BY <1>1, <1>4, Zenon DEF Local
<1>8. worker'[w].cancelled /\ w \notin deaf' => worker'[w].closing
  BY <1>2, <1>7, Dispatching, Zenon DEF Resting
<1> QED BY <1>2, <1>6, <1>7, <1>8, GoesOn, ZenonT(30) DEF Resting, Unstarted, Started, Unowned

\* The renewal task ends, by itself or because it is stopped.
LEMMA RenewalSteps ==
    ASSUME WInv, NEW w \in Workers, StopRenewalTask(w) \/ RenewalRaises(w)
    PROVE  WInv'
<1>1. worker \in [Workers -> Local] /\ worker[w] \in Local /\ WTypeOK /\ LocalOK(w)
  BY WorkerTypes, Zenon
<1>2. worker[w].pc \notin Resting /\ UNCHANGED <<vars, attempt, published, deaf>>
  BY <1>1, Zenon DEF StopRenewalTask, RenewalRaises, At, LocalOK, Resting
<1>3. faults' \in 0 .. MaxFaults
  BY <1>1, FaultCount, Zenon DEF StopRenewalTask, RenewalRaises, WTypeOK
<1>4. PICK where : where = IF StopRenewalTask(w) THEN "settle_find" ELSE worker[w].pc
  BY Zenon
<1>5. PICK renewal \in {"off", "failed"} :
         worker' = [worker EXCEPT ![w].pc = where, ![w].renewal = renewal]
  <2>1. CASE StopRenewalTask(w)
    BY <1>4, <2>1, Zenon DEF StopRenewalTask
  <2>2. CASE ~StopRenewalTask(w)
    BY <1>1, <1>4, <2>2, Zenon DEF RenewalRaises, Local
  <2> QED BY <2>1, <2>2, Zenon
<1>6. where \in Awaits \cup {"stopped"}
  BY <1>1, <1>4, Zenon DEF Local, Awaits
<1>7. worker' \in [Workers -> Local] /\ \A x \in Workers \ {w} : worker'[x] = worker[x]
  BY <1>1, <1>5, <1>6, LocalUpdates, ZenonT(30)
<1>8. Bookkeeping(w)
  BY <1>1, <1>2, <1>3, <1>7, Zenon DEF Bookkeeping, WTypeOK
<1>9. /\ worker'[w].pc = where /\ worker'[w].entry = worker[w].entry
      /\ worker'[w].mine = worker[w].mine /\ worker'[w].lease_until = worker[w].lease_until
      /\ worker'[w].outcome = worker[w].outcome
      /\ worker'[w].closing = worker[w].closing /\ worker'[w].cancelled = worker[w].cancelled
  BY <1>1, <1>5, Zenon DEF Local
<1>10. worker'[w].cancelled /\ w \notin deaf' => worker'[w].closing
  BY <1>2, <1>9, Dispatching, ZenonT(30)
<1>11. CASE ~StopRenewalTask(w)
  BY <1>1, <1>2, <1>4, <1>8, <1>9, <1>10, <1>11, GoesOn, Zenon DEF LocalOK
<1>12. CASE StopRenewalTask(w)
  <2>1. worker[w].pc = "stop_renewal"
    BY <1>12, Zenon DEF StopRenewalTask, At
  <2>2. worker[w].outcome \in Outcomes
    BY <1>1, <2>1, Zenon DEF LocalOK
  <2> QED
    BY <1>2, <1>4, <1>8, <1>9, <1>10, <1>12, <2>1, <2>2, GoesOn, Zenon DEF Resting, Unstarted, Started, Unowned
<1> QED BY <1>11, <1>12, Zenon

\* The dispatch ends without a call.
LEMMA EndSteps ==
    ASSUME WInv, NEW w \in Workers, RenewalLost(w) \/ AckRaises(w) \/ Publish(w)
    PROVE  WInv'
<1>1. WTypeOK
  BY WorkerTypes, Zenon
<1>2. /\ worker[w].pc \notin Resting /\ EndDispatch(w) /\ UNCHANGED <<vars, attempt, deaf>>
  BY Zenon DEF RenewalLost, AckRaises, Publish, At, Resting
<1>3. faults' \in 0 .. MaxFaults
  BY <1>1, FaultCount, Zenon DEF RenewalLost, AckRaises, Publish, WTypeOK
<1>4. published' \subseteq Entries
  <2>1. published \subseteq Entries /\ InHand(w) \in Entries
    BY <1>1, <1>2, Dispatching, Zenon DEF WTypeOK
  <2>2. published' = published \/ published' = published \cup {InHand(w)}
    BY Zenon DEF RenewalLost, AckRaises, Publish
  <2> QED BY <2>1, <2>2, Zenon
<1> QED BY <1>2, <1>3, <1>4, EndStep, Zenon

\* The entry is settled, and with it the claim ends.
LEMMA SettledStep ==
    ASSUME WInv, NEW w \in Workers, NEW outcome \in Outcomes, Settle(w, InHand(w), outcome),
           worker[w].pc \notin Resting, NEW where \in {"publish", "persist_find"}, Goto(w, where),
           UNCHANGED <<attempt, published, deaf>>, faults' \in 0 .. MaxFaults
    PROVE  WInv'
<1>1. worker \in [Workers -> Local] /\ worker[w] \in Local /\ WTypeOK
  BY WorkerTypes, Zenon
<1>2. PICK e : e = InHand(w)
  BY Zenon
<1>3. e \in issued /\ e \in Entries /\ (worker[w].cancelled /\ w \notin deaf => worker[w].closing)
  BY <1>2, Dispatching, Zenon
<1>4. worker' = [worker EXCEPT ![w].pc = where]
  BY Zenon DEF Goto
<1>5. worker' \in [Workers -> Local] /\ \A x \in Workers \ {w} : worker'[x] = worker[x]
  BY <1>1, <1>4, LocalUpdates, Zenon DEF Awaits
<1>6. Bookkeeping(w)
  BY <1>1, <1>5, Zenon DEF Bookkeeping, WTypeOK
<1>7. /\ worker'[w].pc = where /\ worker'[w].entry = worker[w].entry
      /\ worker'[w].closing = worker[w].closing /\ worker'[w].cancelled = worker[w].cancelled
  BY <1>1, <1>4, Zenon DEF Local
<1>8. InHand(w)' = e /\ issued' = issued /\ e \notin DOMAIN claims'
  BY <1>2, <1>7, Zenon DEF InHand, Settle, Unclaim, Without
<1>9. LocalOK(w)'
  BY <1>3, <1>7, <1>8, ZenonT(30) DEF LocalOK, Resting
<1>10. OwnerOK(w)'
  BY <1>7, <1>8, ZenonT(30) DEF OwnerOK, Owns, Unstarted, Unowned
<1>11. [Next]_vars
  BY <1>2, <1>3, Zenon DEF Next, WorkerCall
<1>12. \A x \in Workers \ {w} : Rely(x)
  BY <1>2, <1>3, RelyOnCalls, Zenon
<1>13. attempt' \in [Entries -> Nat]
  BY <1>1, Zenon DEF WTypeOK
<1> QED BY <1>6, <1>9, <1>10, <1>11, <1>12, <1>13, CallStep, Zenon

LEMMA StopStep ==
    ASSUME WInv, NEW w \in Workers, NEW c \in BOOLEAN, worker' = [worker EXCEPT ![w] = AtRest("stopped", c)],
           UNCHANGED <<vars, attempt, published, deaf>>, faults' \in 0 .. MaxFaults
    PROVE  WInv'
<1>1. /\ worker' \in [Workers -> Local] /\ \A x \in Workers \ {w} : worker'[x] = worker[x]
      /\ IInv' => LocalOK(w)' /\ OwnerOK(w)'
  BY StopOK, Zenon
<1>2. Bookkeeping(w)
  BY <1>1, Zenon DEF Bookkeeping, WInv, WTypeOK
<1> QED BY <1>1, <1>2, QuietStep, Zenon

LEMMA SettleSteps ==
    ASSUME WInv, NEW w \in Workers,
           SettleCall(w) \/ PersistFind(w) \/ PersistCall(w) \/ SettleRaises(w)
    PROVE  WInv'
<1>1. worker \in [Workers -> Local] /\ worker[w] \in Local /\ WTypeOK /\ LocalOK(w)
  BY WorkerTypes, Zenon
<1>2. faults' \in 0 .. MaxFaults /\ faults \in 0 .. MaxFaults /\ published \subseteq Entries
  BY <1>1, FaultCount, Zenon DEF SettleCall, PersistFind, PersistCall, SettleRaises, WTypeOK
<1>3. worker[w].pc \notin Resting /\ UNCHANGED <<attempt, published, deaf>>
  BY Zenon DEF SettleCall, PersistFind, PersistCall, SettleRaises, At, Resting
<1>4. worker[w].cancelled \in BOOLEAN
  BY <1>1, Zenon DEF Local
<1>5. ASSUME Stop(w), UNCHANGED vars PROVE WInv'
  <2>1. worker' = [worker EXCEPT ![w] = AtRest("stopped", worker[w].cancelled)]
    BY <1>5, Zenon DEF Stop
  <2> QED BY <1>2, <1>3, <1>4, <1>5, <2>1, StopStep, ZenonT(30)
<1>6. ASSUME EndDispatch(w), UNCHANGED vars PROVE WInv'
  BY <1>2, <1>3, <1>6, EndStep, Zenon
<1>7. CASE SettleCall(w)
  <2>1. worker[w].outcome \in Outcomes
    BY <1>1, <1>7, Zenon DEF SettleCall, At, LocalOK
  <2>2. CASE Settle(w, InHand(w), worker[w].outcome) /\ Goto(w, "publish")
    BY <1>2, <1>3, <2>1, <2>2, SettledStep, Zenon
  <2> QED BY <1>6, <1>7, <2>2, Zenon DEF SettleCall
<1>8. CASE PersistFind(w)
  <2>1. CASE Goto(w, "persist") /\ UNCHANGED vars
    BY <1>2, <1>3, <1>8, <2>1, GotoStep, ZenonT(30)
       DEF PersistFind, At, Awaits, Resting, Unstarted, Started, Unowned
  <2> QED BY <1>5, <1>6, <1>8, <2>1, Zenon DEF PersistFind
<1>9. CASE PersistCall(w)
  <2>1. "failed" \in Outcomes
    BY Zenon DEF Outcomes
  <2>2. CASE Settle(w, InHand(w), "failed") /\ Goto(w, "publish")
    BY <1>2, <1>3, <2>1, <2>2, SettledStep, Zenon
  <2> QED BY <1>5, <1>9, <2>2, Zenon DEF PersistCall
<1>10. CASE SettleRaises(w)
  <2>1. worker[w].outcome \in Outcomes /\ worker[w].pc \in {"settle_find", "settle"}
    BY <1>1, <1>10, Zenon DEF SettleRaises, At, LocalOK
  <2>2. CASE Settle(w, InHand(w), worker[w].outcome)
    BY <1>2, <1>3, <1>10, <2>1, <2>2, SettledStep, Zenon DEF SettleRaises
  <2>3. CASE UNCHANGED vars
    <3>1. Goto(w, "persist_find") /\ "persist_find" \in Awaits \ Resting
      BY <1>10, Zenon DEF SettleRaises, Awaits, Resting
    <3> QED BY <1>2, <1>3, <2>1, <2>3, <3>1, GotoStep, ZenonT(30) DEF Unstarted, Started, Unowned
  <2> QED BY <1>10, <2>2, <2>3, Zenon DEF SettleRaises
<1> QED BY <1>7, <1>8, <1>9, <1>10, Zenon

LEMMA EndOfWorkerSteps ==
    ASSUME WInv, NEW w \in Workers, Cancel(w) \/ Die(w)
    PROVE  WInv'
<1>1. worker \in [Workers -> Local] /\ worker[w] \in Local /\ WTypeOK /\ LocalOK(w)
  BY WorkerTypes, Zenon
<1>a. faults \in 0 .. MaxFaults /\ faults < MaxFaults /\ faults' = faults + 1
  BY <1>1, Zenon DEF Cancel, Die, Fault, WTypeOK
<1>2. /\ faults' \in 0 .. MaxFaults /\ UNCHANGED <<vars, attempt, published>>
      /\ worker[w].cancelled \in BOOLEAN
  <2>1. faults' \in 0 .. MaxFaults
    BY <1>a, WorkerConstantsOK
  <2>2. UNCHANGED <<vars, attempt, published>>
    BY Zenon DEF Cancel, Die
  <2>3. worker[w].cancelled \in BOOLEAN
    BY <1>1, Zenon DEF Local
  <2> QED BY <2>1, <2>2, <2>3, Zenon
<1>3. CASE Die(w)
  BY <1>2, <1>3, StopStep, Zenon DEF Die, Stop
<1>4. CASE Cancel(w) /\ worker[w].pc = "handler"
  <2>1. worker' = [worker EXCEPT ![w] = [worker[w] EXCEPT !.pc = "grace", !.closing = TRUE, !.cancelled = TRUE]]
    BY <1>1, <1>4, Zenon DEF Cancel
  <2>2. [worker[w] EXCEPT !.pc = "grace", !.closing = TRUE, !.cancelled = TRUE] \in Local
    BY <1>1, ZenonT(30) DEF Local, Awaits
  <2>3. worker' \in [Workers -> Local] /\ \A x \in Workers \ {w} : worker'[x] = worker[x]
    BY <1>1, <2>1, <2>2, Zenon
  <2>4. Bookkeeping(w)
    BY <1>1, <1>2, <1>4, <2>3, Zenon DEF Bookkeeping, WTypeOK, Cancel
  <2>5. /\ worker'[w].pc = "grace" /\ worker'[w].entry = worker[w].entry
        /\ worker'[w].mine = worker[w].mine /\ worker'[w].lease_until = worker[w].lease_until
        /\ worker'[w].closing
    BY <1>1, <2>1, Zenon DEF Local
  <2> QED BY <1>2, <1>4, <2>4, <2>5, GoesOn, Zenon DEF Resting, Unstarted, Started, Unowned
<1>5. CASE Cancel(w) /\ worker[w].pc = "stop_renewal"
  <2>1. worker' = [worker EXCEPT ![w] = [worker[w] EXCEPT !.cancelled = TRUE]]
    BY <1>1, <1>5, Zenon DEF Cancel
  <2>2. [worker[w] EXCEPT !.cancelled = TRUE] \in Local
    BY <1>1, Zenon DEF Local
  <2>3. worker' \in [Workers -> Local] /\ \A x \in Workers \ {w} : worker'[x] = worker[x]
    BY <1>1, <2>1, <2>2, Zenon
  <2>4. Bookkeeping(w) /\ w \in deaf'
    BY <1>1, <1>2, <1>5, <2>3, Zenon DEF Bookkeeping, WTypeOK, Cancel, At
  <2>5. /\ worker'[w].pc = "stop_renewal" /\ worker'[w].entry = worker[w].entry
        /\ worker'[w].mine = worker[w].mine /\ worker'[w].lease_until = worker[w].lease_until
        /\ worker'[w].outcome = worker[w].outcome
    BY <1>1, <1>5, <2>1, Zenon DEF Local
  <2>6. worker[w].outcome \in Outcomes
    BY <1>1, <1>5, Zenon DEF LocalOK
  <2> QED BY <1>2, <1>5, <2>4, <2>5, <2>6, GoesOn, Zenon DEF Resting, Unstarted, Started, Unowned
<1>6. CASE Cancel(w) /\ worker[w].pc \notin {"handler", "stop_renewal"}
  <2>1. worker' = [worker EXCEPT ![w] = AtRest("stopped", TRUE)]
    BY <1>1, <1>6, Zenon DEF Cancel
  <2>2. deaf' = deaf
    BY <1>6, Zenon DEF Cancel, At
  <2> QED BY <1>2, <2>1, <2>2, StopStep, Zenon
<1> QED BY <1>3, <1>4, <1>5, <1>6, Zenon

LEMMA EnvironmentStep ==
    ASSUME WInv, Environment \/ UNCHANGED allvars
    PROVE  WInv'
<1>1. UNCHANGED wvars /\ [Next]_vars
  BY Zenon DEF Environment, allvars, Next
<1>2. UNCHANGED <<worker, attempt, published, faults, deaf>>
  BY <1>1, Zenon DEF wvars
<1>3. \A w \in Workers : Rely(w)
  BY <1>2, RelyOnOthers, Zenon DEF Environment, allvars
<1>4. IInv'
  BY <1>1, NextInv, Zenon DEF WInv
<1>5. \A w \in Workers : LocalOK(w)' /\ OwnerOK(w)'
  BY <1>2, <1>3, <1>4, Undisturbed, Zenon
<1>6. WTypeOK'
  BY <1>2, Zenon DEF WInv, WTypeOK
<1> QED BY <1>4, <1>5, <1>6, Zenon DEF WInv

-------------------------------------------------------------------------------
LEMMA WInitInv == WInit => WInv
<1> SUFFICES ASSUME WInit PROVE WInv
  BY Zenon
<1>1. IInv
  BY InitInv, Zenon DEF WInit
<1>2. AtRest("recover", FALSE) \in Local
  BY Zenon DEF AtRest, Local, Awaits
<1>3. WTypeOK
  <2>1. worker \in [Workers -> Local] /\ attempt \in [Entries -> Nat]
    BY <1>2, Zenon DEF WInit
  <2>2. published \subseteq Entries /\ faults \in 0 .. MaxFaults /\ deaf \subseteq Workers
    BY WorkerConstantsOK DEF WInit
  <2> QED BY <2>1, <2>2, TypeIs, Zenon
<1>4. \A w \in Workers : worker[w] = AtRest("recover", FALSE)
  BY Zenon DEF WInit
<1>5. now \in Nat
  BY <1>1, Zenon DEF IInv, TypeOK
<1>6. ASSUME NEW w \in Workers PROVE LocalOK(w) /\ OwnerOK(w)
  <2>1. /\ worker[w].pc = "recover" /\ worker[w].entry = NoEntry /\ worker[w].renewal = "off"
        /\ worker[w].closing = FALSE /\ worker[w].cancelled = FALSE /\ worker[w].lease_until = 0
    <3>1. worker[w] = AtRest("recover", FALSE)
      BY <1>4, Zenon
    <3> QED BY <3>1, AtRestAtFirst, Zenon
  <2>2. LocalOK(w)
    <3>1. worker[w].pc \notin {"stop_renewal", "settle_find", "settle", "ack"} /\ worker[w].pc \in Resting
      BY <2>1, Zenon DEF Resting
    <3> QED BY <2>1, <3>1, Zenon DEF LocalOK, InHand
  <2>3. ~(worker[w].lease_until > now)
    BY <2>1, <1>5
  <2>4. OwnerOK(w)
    BY <2>1, <2>3, Zenon DEF OwnerOK, Unstarted, Started
  <2> QED BY <2>2, <2>4, Zenon
<1> QED BY <1>1, <1>3, <1>6, Zenon DEF WInv

LEMMA WNextInv == WInv /\ [WNext]_allvars => WInv'
<1> SUFFICES ASSUME WInv, [WNext]_allvars PROVE WInv'
  BY Zenon
<1>1. CASE Environment \/ UNCHANGED allvars
  BY <1>1, EnvironmentStep, Zenon
<1>2. ASSUME NEW w \in Workers, Step(w) PROVE WInv'
  BY <1>2, RecoverSteps, ClaimStep, FindSteps, RenewSteps, MarkRunningStep, GiveBackSteps,
     OutcomeSteps, RenewalSteps, EndSteps, SettleSteps, Zenon DEF Step
<1>3. ASSUME NEW w \in Workers, \/ RenewClaim(w) \/ SettleRaises(w) \/ RenewalRaises(w)
                                \/ AckRaises(w) \/ Cancel(w) \/ Die(w)
      PROVE  WInv'
  BY <1>3, RenewSteps, SettleSteps, RenewalSteps, EndSteps, EndOfWorkerSteps, Zenon
<1> QED BY <1>1, <1>2, <1>3, Zenon DEF WNext

LEMMA WInvariant == WSpec => []WInv
BY WInitInv, WNextInv, PTL DEF WSpec

\* A worker's step leaves the others where they are.
LEMMA OthersStay ==
    ASSUME NEW x \in Workers, NEW w \in Workers, w # x, WTypeOK,
           \/ Step(x) \/ RenewClaim(x)
           \/ SettleRaises(x) \/ RenewalRaises(x) \/ AckRaises(x) \/ Cancel(x) \/ Die(x)
    PROVE  worker'[w] = worker[w]
<1>1. DOMAIN worker = Workers
  BY Zenon DEF WTypeOK
<1>2. ASSUME EndDispatch(x) \/ Stop(x) \/ \E where : Goto(x, where) PROVE worker'[w] = worker[w]
  BY <1>1, <1>2, Zenon DEF EndDispatch, Stop, Goto
<1>3. CASE NextRecover(x) \/ NextSkipRecovery(x) \/ NextFind(x) \/ MarkRunningFind(x) \/ SettleFind(x)
  BY <1>2, <1>3, Zenon DEF NextRecover, NextSkipRecovery, NextFind, MarkRunningFind, SettleFind, Find
<1>4. CASE NextClaim(x)
  BY <1>1, <1>4, Zenon DEF NextClaim
<1>5. CASE NextRenew(x) \/ RenewClaim(x)
  BY <1>1, <1>2, <1>5, Zenon DEF NextRenew, RenewClaim
<1>6. CASE MarkRunningCall(x)
  BY <1>1, <1>2, <1>6, Zenon DEF MarkRunningCall
<1>7. CASE ReleaseCall(x) \/ DiscardMissing(x) \/ RenewalLost(x) \/ AckRaises(x) \/ Publish(x)
  BY <1>2, <1>7, Zenon DEF ReleaseCall, DiscardMissing, RenewalLost, AckRaises, Publish
<1>8. CASE HandlerReturns(x) \/ BudgetExpires(x) \/ GraceEnds(x) \/ StopRenewalTask(x) \/ RenewalRaises(x)
  BY <1>1, <1>8, Zenon DEF HandlerReturns, BudgetExpires, GraceEnds, StopRenewalTask, RenewalRaises
<1>9. CASE SettleCall(x) \/ PersistFind(x) \/ PersistCall(x) \/ SettleRaises(x)
  BY <1>2, <1>9, Zenon DEF SettleCall, PersistFind, PersistCall, SettleRaises
<1>10. CASE Cancel(x)
  BY <1>1, <1>10, Zenon DEF Cancel
<1>11. CASE Die(x)
  BY <1>2, <1>11, Zenon DEF Die
<1> QED BY <1>3, <1>4, <1>5, <1>6, <1>7, <1>8, <1>9, <1>10, <1>11, Zenon DEF Step

LEMMA CancelledStep ==
    ASSUME WInv, [WNext]_allvars, NEW w \in Workers,
           worker[w].cancelled, w \notin deaf, InHand(w) = NoEntry
    PROVE  worker'[w].entry = NoEntry
<1>1. LocalOK(w) /\ WTypeOK
  BY Zenon DEF WInv
<1>2. worker[w].pc \in Resting
  BY <1>1, Dispatching, ConstantsOK, Zenon
<1>3. worker[w].pc = "stopped" /\ worker[w].renewal = "off"
  BY <1>1, <1>2, Zenon DEF LocalOK
<1>4. CASE Environment \/ UNCHANGED allvars
  BY <1>4, Zenon DEF Environment, allvars, wvars, InHand
<1>5. ASSUME NEW x \in Workers, x # w,
             \/ Step(x) \/ RenewClaim(x)
             \/ SettleRaises(x) \/ RenewalRaises(x) \/ AckRaises(x) \/ Cancel(x) \/ Die(x)
      PROVE  worker'[w].entry = NoEntry
  BY <1>1, <1>5, OthersStay, Zenon DEF InHand
<1>6. ~Step(w)
  BY <1>3, Zenon DEF Step, NextRecover, NextSkipRecovery, NextClaim, NextFind, NextRenew, MarkRunningFind,
     MarkRunningCall, ReleaseCall, DiscardMissing, HandlerReturns, BudgetExpires, RenewalLost,
     StopRenewalTask, GraceEnds, SettleFind, SettleCall, Publish, PersistFind, PersistCall, Find, At
<1>7. ~(RenewClaim(w) \/ SettleRaises(w) \/ RenewalRaises(w) \/ AckRaises(w) \/ Cancel(w) \/ Die(w))
  BY <1>3, Zenon DEF RenewClaim, SettleRaises, RenewalRaises, AckRaises, Cancel, Die, At, Awaits
<1> QED BY <1>4, <1>5, <1>6, <1>7, Zenon DEF WNext

\* Records change from running to a terminal status in the settlement of the
\* worker whose execution is the last one.
LEMMA SettlingStep ==
    ASSUME WInv, [WNext]_allvars
    PROVE  LatestAttemptSettles
<1> SUFFICES ASSUME NEW e \in DOMAIN record \cap DOMAIN record', record[e] = "running",
                    record'[e] \in Terminal
             PROVE  \E w \in Workers : Settling(w) /\ InHand(w) = e /\ worker[w].mine = attempt[e]
  BY Zenon DEF LatestAttemptSettles
<1>1. record'[e] \notin {"running", "queued"}
  BY Zenon DEF Terminal
<1>2. ~(UNCHANGED vars) /\ record' # record
  BY <1>1, Zenon DEF vars, store
<1>3. ~(Environment \/ UNCHANGED allvars)
  BY <1>1, <1>2, ZenonT(30) DEF Environment, allvars, StoreAndPush, Prune, RemoveRecord, Tick, Zadd, Without, store
<1>4. ASSUME NEW w \in Workers, NEW outcome, Settle(w, InHand(w), outcome),
             worker[w].pc \in {"settle", "persist"}, Goto(w, "publish") \/ Goto(w, "persist_find")
      PROVE  \E x \in Workers : Settling(x) /\ InHand(x) = e /\ worker[x].mine = attempt[e]
  <2>1. InHand(w) = e
    BY <1>1, <1>4, Zenon DEF Settle, Zadd
  <2>2. Owns(w, e) /\ HasStatus(e, {"running"})
    BY <1>4, <2>1, ZenonT(30) DEF Settle
  <2>3. worker[w].mine = attempt[e]
    BY <1>4, <2>1, <2>2, ZenonT(30) DEF WInv, OwnerOK, Started
  <2>4. w \in DOMAIN worker /\ "pc" \in DOMAIN worker[w]
    BY Zenon DEF WInv, WTypeOK
  <2>5. worker'[w].pc \in {"publish", "persist_find"}
    BY <1>4, <2>4, Zenon DEF Goto
  <2>6. Settling(w)
    BY <1>4, <2>5, Zenon DEF Settling
  <2> QED BY <2>1, <2>3, <2>6, Zenon
<1>5. ~Recover
  BY <1>1, Zenon DEF Recover, RecoverBatch
<1>6. ASSUME NEW w \in Workers PROVE ~(NextRecover(w) \/ NextSkipRecovery(w))
  BY <1>2, <1>5, Zenon DEF NextRecover, NextSkipRecovery
<1>7. ASSUME NEW w \in Workers PROVE ~(NextClaim(w) \/ NextRenew(w) \/ RenewClaim(w))
  BY <1>2, Zenon DEF NextClaim, NextRenew, RenewClaim, Claim, Renew, vars, store
<1>8. ASSUME NEW w \in Workers PROVE ~(NextFind(w) \/ MarkRunningFind(w) \/ SettleFind(w))
  BY <1>2, Zenon DEF NextFind, MarkRunningFind, SettleFind, Find
<1>9. ASSUME NEW w \in Workers PROVE ~MarkRunningCall(w)
  BY <1>1, <1>2, Zenon DEF MarkRunningCall, MarkRunning, Zadd
<1>10. ASSUME NEW w \in Workers PROVE ~(ReleaseCall(w) \/ DiscardMissing(w))
  BY <1>2, Zenon DEF ReleaseCall, DiscardMissing, Release, Ack
<1>11. ASSUME NEW w \in Workers
       PROVE  ~(\/ HandlerReturns(w) \/ BudgetExpires(w) \/ RenewalLost(w) \/ StopRenewalTask(w)
                \/ GraceEnds(w) \/ Publish(w) \/ PersistFind(w)
                \/ RenewalRaises(w) \/ AckRaises(w) \/ Cancel(w) \/ Die(w))
  BY <1>2, ZenonT(30) DEF HandlerReturns, BudgetExpires, RenewalLost, StopRenewalTask, GraceEnds, Publish,
     PersistFind, RenewalRaises, AckRaises, Cancel, Die
<1>12. ASSUME NEW w \in Workers, SettleCall(w) \/ PersistCall(w) \/ SettleRaises(w)
       PROVE  \E x \in Workers : Settling(x) /\ InHand(x) = e /\ worker[x].mine = attempt[e]
  <2>1. \E outcome : /\ Settle(w, InHand(w), outcome) /\ worker[w].pc \in {"settle", "persist"}
                     /\ Goto(w, "publish") \/ Goto(w, "persist_find")
    BY <1>2, <1>12, Zenon DEF SettleCall, PersistCall, SettleRaises, At
  <2> QED BY <1>4, <2>1, Zenon
<1> QED BY <1>3, <1>6, <1>7, <1>8, <1>9, <1>10, <1>11, <1>12, Zenon DEF WNext, Step

-------------------------------------------------------------------------------
\* Whatever a worker learned before an await, its calls keep to the protocol of
\* the store: it gives back no running entry (_mark_running, release) and drops
\* no claim of an entry that has its record (_discard_missing, ack).
THEOREM WorkersKeepTheProtocol == WSpec => StoreSpec
<1>1. WInit => Init
  BY Zenon DEF WInit
<1>2. WInv /\ [WNext]_allvars => [Next]_vars
  BY StoreStep, Zenon DEF allvars
<1> QED BY <1>1, <1>2, WInvariant, PTL DEF WSpec, StoreSpec, Spec

\* While the lease a worker counts on is running, it owns the entry in its
\* hands, for every number of workers, leases and faults (_renew_claim, _next).
THEOREM LeaseMeansOwner == WSpec => []LeaseMeansOwnership
<1>1. WInv => LeaseMeansOwnership
  BY Zenon DEF WInv, OwnerOK, LeaseMeansOwnership, Unowned
<1> QED BY <1>1, WInvariant, PTL

\* A running entry is settled only by the worker that started its last
\* execution (_settle_terminal), although settle does not look at the lease.
THEOREM LatestExecutionSettles == WSpec => AlwaysLatestAttemptSettles
<1>1. WInv /\ [WNext]_allvars => [LatestAttemptSettles]_allvars
  BY SettlingStep, Zenon
<1> QED BY <1>1, WInvariant, PTL DEF WSpec, AlwaysLatestAttemptSettles

\* A cancelled worker takes no further entry (_finish_cancellation), unless it
\* suppressed its cancellation while it stopped the renewal task.
THEOREM CancelledStaysIdle == WSpec => CancelledTakesNoEntry
<1>1. WInv /\ [WNext]_allvars
      => [\A w \in Workers : worker[w].cancelled /\ w \notin deaf /\ InHand(w) = NoEntry
                             => worker'[w].entry = NoEntry]_allvars
  BY CancelledStep, Zenon
<1> QED BY <1>1, WInvariant, PTL DEF WSpec, CancelledTakesNoEntry

===============================================================================
