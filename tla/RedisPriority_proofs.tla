-------------------------- MODULE RedisPriority_proofs -------------------------
(***************************************************************************)
(* Proof that the priority ZSET of RedisPriority.tla ranks entries by      *)
(* priority and then by arrival, for every score space, every set of       *)
(* priorities, entries and workers, and every batch size.                  *)
(***************************************************************************)
EXTENDS RedisPriority, RedisValues_proofs

-------------------------------------------------------------------------------
\* The inductive invariant: the score of an ID is that of its priority with a
\* sequence number that has been given out since the ZSET was last empty, and
\* of two IDs of the same priority the one pushed first has the higher score.
Rank ==
    /\ sequence \in Nat
    /\ pushed_as \in [DOMAIN priorities -> Int]
    /\ priorities \in [DOMAIN priorities -> Int]
    /\ earlier \subseteq (DOMAIN priorities) \X (DOMAIN priorities)
    /\ \A e \in DOMAIN priorities : \E n \in 1 .. sequence : priorities[e] = Score(pushed_as[e], n)
    /\ \A e, f \in DOMAIN priorities :
           <<e, f>> \in earlier /\ pushed_as[e] = pushed_as[f] => priorities[e] > priorities[f]

\* What the ranking needs to know of the rest of the store.
Shape ==
    /\ issued \subseteq Entries /\ IsFiniteSet(issued)
    /\ DOMAIN record \subseteq issued
    /\ DOMAIN scheduled \subseteq issued
    /\ DOMAIN claims \subseteq issued
    /\ DOMAIN claim_deadlines \subseteq issued
    /\ DOMAIN priorities \subseteq issued
    /\ pending = <<>> /\ DOMAIN delayed = {}
    /\ prio \in [issued -> Priorities]

\* A higher priority has the higher score, whatever the sequence numbers are, as
\* long as they fit the space.
LEMMA ScoreOrder ==
    ASSUME NEW p \in Int, NEW q \in Int, p > q,
           NEW m \in 1 .. Space, NEW n \in 1 .. Space
    PROVE  Score(p, m) > Score(q, n)
<1>1. Space \in Nat /\ Space > 0
  BY PriorityConstantsOK
<1>2. PICK d \in Nat : p = q + 1 + d
  <2>1. p - q - 1 \in Nat /\ p = q + 1 + (p - q - 1)
    OBVIOUS
  <2> QED
    BY <2>1, Zenon
<1>3. p * Space = q * Space + Space + d * Space
  BY <1>1, <1>2
<1>4. d * Space >= 0 /\ d * Space \in Int /\ q * Space \in Int
  BY <1>1, <1>2
<1> QED
  BY <1>1, <1>3, <1>4 DEF Score

\* A score is a number.
LEMMA ScoreType == ASSUME NEW p \in Int, NEW n \in Int PROVE Score(p, n) \in Int
<1>1. Space \in Int
  BY PriorityConstantsOK
<1>2. p * Space \in Int
  BY <1>1
<1> QED
  BY <1>2 DEF Score

\* The higher score belongs to the higher priority, or to the same one and the
\* smaller sequence number.
LEMMA ScoreAtMost ==
    ASSUME NEW p \in Int, NEW q \in Int, NEW m \in 1 .. Space, NEW n \in 1 .. Space,
           Score(p, m) <= Score(q, n)
    PROVE  p <= q /\ (m < n => p < q)
<1>1. m \in Int /\ n \in Int /\ Space \in Int
  BY PriorityConstantsOK
<1>2. Score(p, m) \in Int /\ Score(q, n) \in Int
  BY <1>1, ScoreType, Zenon
<1>3. ~(p > q)
  <2>1. p > q => Score(p, m) > Score(q, n)
    BY ScoreOrder, Zenon
  <2> QED
    BY <1>2, <2>1
<1>4. ASSUME p = q PROVE ~(m < n)
  <2>1. p * Space \in Int /\ p * Space - m <= p * Space - n
    BY <1>1, <1>4 DEF Score
  <2> QED
    BY <1>1, <2>1
<1> QED
  BY <1>1, <1>3, <1>4

\* The invariant gives the ranking.
LEMMA RankRanked == Rank => Ranked
<1> SUFFICES ASSUME Rank, sequence <= Space,
                    NEW e \in DOMAIN priorities, NEW f \in DOMAIN priorities, Ahead(e, f)
             PROVE  priorities[e] > priorities[f]
  BY Zenon DEF Ranked
<1>1. PICK m \in 1 .. sequence : priorities[e] = Score(pushed_as[e], m)
  BY Zenon DEF Rank
<1>2. PICK n \in 1 .. sequence : priorities[f] = Score(pushed_as[f], n)
  BY Zenon DEF Rank
<1>3. /\ m \in 1 .. Space /\ n \in 1 .. Space
      /\ pushed_as[e] \in Int /\ pushed_as[f] \in Int
  BY PriorityConstantsOK DEF Rank
<1>4. CASE pushed_as[e] > pushed_as[f]
  BY <1>1, <1>2, <1>3, <1>4, ScoreOrder, Zenon
<1>5. CASE pushed_as[e] = pushed_as[f] /\ <<e, f>> \in earlier
  BY <1>5, Zenon DEF Rank
<1> QED
  BY <1>4, <1>5, Zenon DEF Ahead

\* Pushing the IDs of at, in their order, and then taking out the IDs S keeps the
\* invariant, also when the sequence starts again because nothing is left.
LEMMA PushThenTake ==
    ASSUME Rank, NEW at, NEW p, NEW S, NEW n \in Nat,
           \A e \in DOMAIN at : at[e] \in 1 .. n /\ p[e] \in Int,
           DOMAIN priorities' = (DOMAIN priorities \cup DOMAIN at) \ S,
           priorities' = [e \in DOMAIN priorities' |-> Pushed(at, p)[e]],
           sequence' \in Nat,
           sequence' = sequence + n \/ DOMAIN priorities' = {},
           Recorded(at, p, S)
    PROVE  Rank'
<1> DEFINE D == DOMAIN priorities
           A == DOMAIN at
           D2 == (D \cup A) \ S
           fresh == [e \in A |-> Score(p[e], sequence + at[e])]
<1>0. /\ Space \in Nat /\ sequence \in Nat
      /\ pushed_as \in [D -> Int] /\ priorities \in [D -> Int]
  BY PriorityConstantsOK, Zenon DEF Rank
<1>1. \A e \in A : /\ at[e] \in 1 .. n /\ p[e] \in Int
                   /\ Score(p[e], sequence + at[e]) \in Int
  BY <1>0 DEF Score
<1>2. /\ DOMAIN priorities' = D2
      /\ \A e \in D2 : priorities'[e] =
             IF e \in A THEN Score(p[e], sequence + at[e]) ELSE priorities[e]
  BY Zenon DEF Pushed
<1>3. /\ pushed_as' = [e \in D2 |-> IF e \in A THEN p[e] ELSE pushed_as[e]]
      /\ earlier' = {ef \in Arrivals(at) : ef[1] \notin S /\ ef[2] \notin S}
  BY Zenon DEF Recorded
<1>4. pushed_as' \in [D2 -> Int]
  BY <1>0, <1>1, <1>3, Zenon
<1>5. priorities' \in [D2 -> Int]
  <2>1. \A e \in D2 : priorities'[e] \in Int
    BY <1>0, <1>1, <1>2, Zenon
  <2>2. priorities' = [e \in D2 |-> priorities'[e]]
    BY <1>2, Zenon
  <2> QED
    BY <2>1, <2>2, Zenon
<1>6. earlier' \subseteq D2 \X D2
  BY <1>3, Zenon DEF Arrivals, Rank
<1>7. \A e \in D2 : \E k \in 1 .. sequence' : priorities'[e] = Score(pushed_as'[e], k)
  <2> SUFFICES ASSUME NEW e \in D2
               PROVE  \E k \in 1 .. sequence' : priorities'[e] = Score(pushed_as'[e], k)
    BY Zenon
  <2>0. sequence' = sequence + n
    BY <1>2, Zenon
  <2>1. CASE e \in A
    <3>1. sequence + at[e] \in 1 .. sequence'
      BY <1>0, <1>1, <2>0, <2>1
    <3>2. priorities'[e] = Score(pushed_as'[e], sequence + at[e])
      BY <1>2, <1>3, <2>1, Zenon
    <3> QED
      BY <3>1, <3>2, Zenon
  <2>2. CASE e \notin A
    <3>1. PICK k \in 1 .. sequence : priorities[e] = Score(pushed_as[e], k)
      BY <2>2, Zenon DEF Rank
    <3>2. k \in 1 .. sequence'
      BY <1>0, <2>0
    <3>3. priorities'[e] = Score(pushed_as'[e], k)
      BY <1>2, <1>3, <2>2, <3>1, Zenon
    <3> QED
      BY <3>2, <3>3, Zenon
  <2> QED
    BY <2>1, <2>2, Zenon
<1>8. ASSUME NEW e \in D2, NEW f \in D2, <<e, f>> \in earlier', pushed_as'[e] = pushed_as'[f]
      PROVE  priorities'[e] > priorities'[f]
  <2>1. <<e, f>> \in Arrivals(at)
    BY <1>3, <1>8, Zenon
  <2>2. \/ <<e, f>> \in earlier /\ e \notin A /\ f \notin A
        \/ e \in D /\ e \notin A /\ f \in A
        \/ e \in A /\ f \in A /\ at[e] < at[f]
    BY <2>1, Zenon DEF Arrivals
  <2>3. CASE <<e, f>> \in earlier /\ e \notin A /\ f \notin A
    BY <1>2, <1>3, <1>8, <2>3, Zenon DEF Rank
  <2>4. CASE e \in D /\ e \notin A /\ f \in A
    <3>1. PICK k \in 1 .. sequence : priorities[e] = Score(pushed_as[e], k)
      BY <2>4, Zenon DEF Rank
    <3>2. pushed_as[e] = p[f] /\ p[f] * Space \in Int
      BY <1>0, <1>1, <1>3, <1>8, <2>4, SMT, SMTT(30)
    <3>3. Score(p[f], k) > Score(p[f], sequence + at[f])
      BY <1>0, <1>1, <2>4, <3>2 DEF Score
    <3> QED
      BY <1>2, <2>4, <3>1, <3>2, <3>3, Zenon
  <2>5. CASE e \in A /\ f \in A /\ at[e] < at[f]
    <3>1. p[e] = p[f] /\ p[f] * Space \in Int
      BY <1>0, <1>1, <1>3, <1>8, <2>5, SMT, SMTT(30)
    <3>2. Score(p[e], sequence + at[e]) > Score(p[f], sequence + at[f])
      BY <1>0, <1>1, <2>5, <3>1 DEF Score
    <3> QED
      BY <1>2, <2>5, <3>2, Zenon
  <2> QED
    BY <2>2, <2>3, <2>4, <2>5, Zenon
<1> HIDE DEF D2
<1> QED
  BY <1>2, <1>4, <1>5, <1>6, <1>7, <1>8, Zenon DEF Rank

-------------------------------------------------------------------------------
\* A push by itself keeps the invariant.
LEMMA PushAllRank ==
    ASSUME Rank, NEW at, NEW p, Cardinality(DOMAIN at) \in Nat,
           \A e \in DOMAIN at : at[e] \in 1 .. Cardinality(DOMAIN at) /\ p[e] \in Int,
           PushAll(at, p)
    PROVE  Rank' /\ DOMAIN priorities' = DOMAIN priorities \cup DOMAIN at
<1>1. /\ priorities' = Pushed(at, p)
      /\ sequence' = sequence + Cardinality(DOMAIN at)
      /\ Recorded(at, p, {})
  BY Zenon DEF PushAll, Push
<1>2. DOMAIN priorities' = (DOMAIN priorities \cup DOMAIN at) \ {}
  BY <1>1, Zenon DEF Pushed
<1>3. priorities' = [e \in DOMAIN priorities' |-> Pushed(at, p)[e]]
  BY <1>1, Zenon DEF Pushed
<1>4. sequence' \in Nat
  BY <1>1 DEF Rank
<1>5. Rank'
  BY <1>1, <1>2, <1>3, <1>4, PushThenTake, Zenon
<1> QED
  BY <1>2, <1>5, Zenon

\* A push of one ID keeps the invariant.
LEMMA PushOneRank ==
    ASSUME Rank, NEW e, NEW q \in Int, PushOne(e, q)
    PROVE  Rank' /\ DOMAIN priorities' = DOMAIN priorities \cup {e}
<1> DEFINE at == [x \in {e} |-> 1]
           p == [x \in {e} |-> q]
<1>1. Cardinality(DOMAIN at) = 1
  BY FS_Singleton, Zenon
<1>2. \A x \in DOMAIN at : at[x] \in 1 .. Cardinality(DOMAIN at) /\ p[x] \in Int
  BY <1>1
<1>3. PushAll(at, p) /\ DOMAIN at = {e} /\ Cardinality(DOMAIN at) \in Nat
  BY <1>1 DEF PushOne
<1> HIDE DEF at, p
<1>4. Rank' /\ DOMAIN priorities' = DOMAIN priorities \cup DOMAIN at
  BY <1>2, <1>3, PushAllRank, Zenon
<1> QED
  BY <1>3, <1>4, Zenon

\* The entry that promote_one_scheduled_priority chooses, if any.
LEMMA ChosenFacts ==
    ASSUME Shape
    PROVE  /\ Chosen \subseteq issued /\ DOMAIN ChosenAt = Chosen
           /\ Cardinality(Chosen) \in Nat
           /\ \A e \in Chosen : ChosenAt[e] \in 1 .. Cardinality(Chosen) /\ ChosenPriority[e] \in Int
           /\ DOMAIN ScheduledLeft \subseteq issued
<1>1. Chosen \subseteq issued
  BY Zenon DEF Chosen, Promotable, EarliestDue, Due, DueAt, Shape
<1>2. IsFiniteSet(Chosen)
  BY <1>1, FS_Subset, Zenon DEF Shape
<1>3. Cardinality(Chosen) \in Nat /\ (Cardinality(Chosen) = 0 <=> Chosen = {})
  BY <1>2, FS_CardinalityType, FS_EmptySet, Zenon
<1>4. \A e \in Chosen : prio[e] \in Int
  BY <1>1, PriorityConstantsOK, Zenon DEF Shape
<1>5. \A e \in Chosen : ChosenAt[e] \in 1 .. Cardinality(Chosen) /\ ChosenPriority[e] \in Int
  BY <1>3, <1>4 DEF ChosenAt, ChosenPriority
<1>6. DOMAIN ScheduledLeft \subseteq issued
  BY Zenon DEF ScheduledLeft, Without, Shape
<1> QED
  BY <1>1, <1>3, <1>5, <1>6, Zenon DEF ChosenAt

\* Promoting it.
LEMMA PromoteRank ==
    ASSUME Rank, Shape, PushAll(ChosenAt, ChosenPriority)
    PROVE  /\ Rank' /\ DOMAIN priorities' \subseteq issued
           /\ DOMAIN priorities' = DOMAIN priorities \cup Chosen
  BY ChosenFacts, PushAllRank, Zenon DEF Shape

\* Promoting it and then taking out an ID.
LEMMA PromoteTakeRank ==
    ASSUME Rank, Shape, NEW got,
           Take(Pushed(ChosenAt, ChosenPriority), sequence + Cardinality(Chosen), got),
           Recorded(ChosenAt, ChosenPriority, {got})
    PROVE  /\ Rank' /\ DOMAIN priorities' \subseteq issued
           /\ DOMAIN priorities' = (DOMAIN priorities \cup Chosen) \ {got}
<1> DEFINE z == Pushed(ChosenAt, ChosenPriority)
<1>1. DOMAIN z = DOMAIN priorities \cup DOMAIN ChosenAt
  BY Zenon DEF Pushed
<1>2. /\ priorities' = [x \in DOMAIN z \ {got} |-> z[x]]
      /\ sequence' = IF DOMAIN z \ {got} = {} THEN 0 ELSE sequence + Cardinality(Chosen)
  BY Zenon DEF Take, Without
<1> HIDE DEF z
<1>3. /\ DOMAIN priorities' = (DOMAIN priorities \cup DOMAIN ChosenAt) \ {got}
      /\ priorities' = [x \in DOMAIN priorities' |-> z[x]]
  BY <1>1, <1>2, Zenon
<1>4. /\ sequence' \in Nat
      /\ sequence' = sequence + Cardinality(Chosen) \/ DOMAIN priorities' = {}
  BY <1>2, ChosenFacts DEF Rank
<1>5. Rank'
  BY <1>3, <1>4, ChosenFacts, PushThenTake, Zenon DEF z
<1> QED
  BY <1>3, <1>5, ChosenFacts, Zenon DEF Shape

-------------------------------------------------------------------------------
\* Each Function keeps the ranking and the shape of the store.
PInv == Rank /\ Shape

\* An entry is stored and pushed.
LEMMA StoreAndPushPriorityInv ==
    ASSUME PInv, NEW e \in Entries, NEW p \in Priorities, StoreAndPushPriority(e, p)
    PROVE  PInv'
<1>1. PushOne(e, p) /\ p \in Int
  BY PriorityConstantsOK, Zenon DEF StoreAndPushPriority
<1>2. Rank' /\ DOMAIN priorities' = DOMAIN priorities \cup {e}
  BY <1>1, PushOneRank, Zenon DEF PInv
<1>3. IsFiniteSet(issued \cup {e})
  BY FS_AddElement, Zenon DEF PInv, Shape
<1>4. Shape'
  BY <1>2, <1>3, Zenon DEF PInv, Shape, StoreAndPushPriority, Zadd
<1> QED
  BY <1>2, <1>4, Zenon DEF PInv

\* An entry is stored and scheduled, or pushed when its time has come.
LEMMA StoreAvailablePriorityInv ==
    ASSUME PInv, NEW e \in Entries, NEW p \in Priorities, NEW at,
           StoreAvailablePriority(e, p, at)
    PROVE  PInv'
<1>1. p \in Int
  BY PriorityConstantsOK, Zenon
<1>2. IsFiniteSet(issued \cup {e})
  BY FS_AddElement, Zenon DEF PInv, Shape
<1>3. CASE at > now
  <2>1. Rank'
    BY <1>3, Zenon DEF PInv, Rank, StoreAvailablePriority, queue, history
  <2>2. Shape'
    BY <1>2, <1>3, Zenon DEF PInv, Shape, StoreAvailablePriority, queue, history, Zadd
  <2> QED
    BY <2>1, <2>2, Zenon DEF PInv
<1>4. CASE ~(at > now)
  <2>1. Rank' /\ DOMAIN priorities' = DOMAIN priorities \cup {e}
    BY <1>1, <1>4, PushOneRank, Zenon DEF PInv, StoreAvailablePriority
  <2>2. Shape'
    BY <1>2, <1>4, <2>1, Zenon DEF PInv, Shape, StoreAvailablePriority, Zadd
  <2> QED
    BY <2>1, <2>2, Zenon DEF PInv
<1> QED
  BY <1>3, <1>4, Zenon

\* A due entry is promoted.
LEMMA PromoteScheduledPriorityInv == ASSUME PInv, PromoteScheduledPriority PROVE PInv'
<1>1. Rank' /\ DOMAIN priorities' \subseteq issued
  BY PromoteRank, Zenon DEF PInv, PromoteScheduledPriority
<1>2. Shape'
  BY <1>1, ChosenFacts, Zenon DEF PInv, Shape, PromoteScheduledPriority
<1> QED
  BY <1>1, <1>2, Zenon DEF PInv

\* A direct consumer takes the top.
LEMMA DequeuePriorityInv == ASSUME PInv, NEW got, DequeuePriority(got) PROVE PInv'
<1> DEFINE z == Pushed(ChosenAt, ChosenPriority)
<1>1. \/ DOMAIN z = {} /\ UNCHANGED <<priorities, sequence>>
      \/ Take(z, sequence + Cardinality(Chosen), got)
  BY Zenon DEF DequeuePriority
<1>2. Recorded(ChosenAt, ChosenPriority, {got})
  BY Zenon DEF DequeuePriority
<1>3. Rank' /\ DOMAIN priorities' \subseteq issued
  <2>1. CASE DOMAIN z = {} /\ UNCHANGED <<priorities, sequence>>
    <3>1. DOMAIN priorities = {} /\ DOMAIN ChosenAt = {}
      BY <2>1, Zenon DEF Pushed
    <3>2. /\ earlier' = {} /\ DOMAIN pushed_as' = {}
          /\ pushed_as' \in [{} -> Int]
      BY <1>2, <3>1, Zenon DEF Recorded, Arrivals, PInv, Rank
    <3> QED
      BY <2>1, <3>1, <3>2, Zenon DEF PInv, Rank, Shape
  <2>2. CASE Take(z, sequence + Cardinality(Chosen), got)
    BY <1>2, <2>2, PromoteTakeRank, Zenon DEF PInv
  <2> QED
    BY <1>1, <2>1, <2>2, Zenon
<1>4. Shape'
  BY <1>3, ChosenFacts, Zenon DEF PInv, Shape, DequeuePriority
<1> QED
  BY <1>3, <1>4, Zenon DEF PInv

\* In a priority queue the pending list and the delayed ZSET stay empty, so that a
\* claim takes the top of the ZSET or nothing.
LEMMA ClaimOutcomes ==
    ASSUME PInv, NEW w, NEW lease, NEW got, ClaimPriority(w, lease, got)
    PROVE  /\ scheduled' = ScheduledLeft
           /\ DOMAIN delayed' = {} /\ pending' = <<>>
           /\ UNCHANGED <<record, now, issued, lost, dequeued, prio>>
           /\ \/ PushAll(ChosenAt, ChosenPriority) /\ UNCHANGED <<claims, claim_deadlines>>
              \/ /\ got \in Top(Pushed(ChosenAt, ChosenPriority)) /\ got \notin DOMAIN claims
                 /\ Take(Pushed(ChosenAt, ChosenPriority), sequence + Cardinality(Chosen), got)
                 /\ Recorded(ChosenAt, ChosenPriority, {got})
                 /\ DOMAIN claims' = DOMAIN claims \cup {got}
                 /\ DOMAIN claim_deadlines' = DOMAIN claim_deadlines \cup {got}
<1> DEFINE z == Pushed(ChosenAt, ChosenPriority)
           n == sequence + Cardinality(Chosen)
<1>0. /\ scheduled' = ScheduledLeft
      /\ delayed' = Without(delayed, Due(delayed))
      /\ UNCHANGED <<record, now, issued, lost, dequeued, prio>>
  BY Zenon DEF ClaimPriority
<1>1. PICK redelivered \in Ranged(delayed, Due(delayed)) :
        LET list == pending \o redelivered
            next == IF list # <<>> THEN {Head(list)} ELSE Top(z)
        IN
        \/ /\ next \subseteq DOMAIN claims /\ got = NoEntry
           /\ pending' = list /\ PushAll(ChosenAt, ChosenPriority)
           /\ UNCHANGED <<claims, claim_deadlines>>
        \/ /\ got \in next /\ got \notin DOMAIN claims
           /\ IF list # <<>>
              THEN pending' = Tail(list) /\ PushAll(ChosenAt, ChosenPriority)
              ELSE /\ pending' = list
                   /\ Take(z, n, got) /\ Recorded(ChosenAt, ChosenPriority, {got})
           /\ claims' = Zadd(claims, got, [owner |-> w, deadline |-> now + lease])
           /\ claim_deadlines' = Zadd(claim_deadlines, got, now + lease)
  BY Zenon DEF ClaimPriority
<1>2. pending \o redelivered = <<>>
  <2>1. Due(delayed) = {}
    BY Zenon DEF Due, DueAt, PInv, Shape
  <2>2. redelivered \in Seq({})
    BY <2>1, FS_EmptySet, RangedList, Zenon
  <2>3. redelivered = <<>>
    BY <2>2
  <2> QED
    BY <2>3 DEF PInv, Shape
<1>3. DOMAIN delayed' = {}
  BY <1>0, Zenon DEF Without, PInv, Shape
<1> HIDE DEF z, n
<1>4. \/ /\ pending' = <<>> /\ PushAll(ChosenAt, ChosenPriority)
         /\ UNCHANGED <<claims, claim_deadlines>>
      \/ /\ got \in Top(z) /\ got \notin DOMAIN claims
         /\ pending' = <<>> /\ Take(z, n, got) /\ Recorded(ChosenAt, ChosenPriority, {got})
         /\ claims' = Zadd(claims, got, [owner |-> w, deadline |-> now + lease])
         /\ claim_deadlines' = Zadd(claim_deadlines, got, now + lease)
  BY <1>1, <1>2, Zenon
<1> QED
  BY <1>0, <1>3, <1>4, Zenon DEF Zadd, z, n

\* A worker claims the top.
LEMMA ClaimPriorityInv ==
    ASSUME PInv, NEW w, NEW lease, NEW got, ClaimPriority(w, lease, got)
    PROVE  PInv'
<1> DEFINE z == Pushed(ChosenAt, ChosenPriority)
<1>1. CASE PushAll(ChosenAt, ChosenPriority) /\ UNCHANGED <<claims, claim_deadlines>>
  <2>1. Rank' /\ DOMAIN priorities' \subseteq issued
    BY <1>1, PromoteRank, Zenon DEF PInv
  <2>2. Shape'
    BY <1>1, <2>1, ClaimOutcomes, ChosenFacts, Zenon DEF PInv, Shape
  <2> QED
    BY <2>1, <2>2, Zenon DEF PInv
<1>2. CASE /\ got \in Top(z)
           /\ Take(z, sequence + Cardinality(Chosen), got)
           /\ Recorded(ChosenAt, ChosenPriority, {got})
           /\ DOMAIN claims' = DOMAIN claims \cup {got}
           /\ DOMAIN claim_deadlines' = DOMAIN claim_deadlines \cup {got}
  <2>1. Rank' /\ DOMAIN priorities' \subseteq issued
    BY <1>2, PromoteTakeRank, Zenon DEF PInv
  <2>2. got \in issued
    BY <1>2, ChosenFacts, Zenon DEF Top, Pushed, PInv, Shape
  <2>3. Shape'
    <3>1. DOMAIN claims' \subseteq issued /\ DOMAIN claim_deadlines' \subseteq issued
      BY <1>2, <2>2, Zenon DEF PInv, Shape
    <3>2. /\ DOMAIN scheduled' \subseteq issued /\ DOMAIN delayed' = {} /\ pending' = <<>>
          /\ UNCHANGED <<record, issued, prio>>
      BY ClaimOutcomes, ChosenFacts, Zenon DEF PInv
    <3> QED
      BY <2>1, <3>1, <3>2, Zenon DEF PInv, Shape
  <2> QED
    BY <2>1, <2>3, Zenon DEF PInv
<1> QED
  BY <1>1, <1>2, ClaimOutcomes, Zenon

\* A worker gives its entry back.
LEMMA ReleasePriorityInv ==
    ASSUME PInv, NEW w, NEW e, ReleasePriority(w, e)
    PROVE  PInv'
<1>1. e \in issued /\ PriorityOf(e) \in Int
  BY PriorityConstantsOK, Zenon DEF ReleasePriority, Owns, PriorityOf, PInv, Shape
<1>2. Rank' /\ DOMAIN priorities' = DOMAIN priorities \cup {e}
  BY <1>1, PushOneRank, Zenon DEF PInv, ReleasePriority
<1>3. Shape'
  BY <1>1, <1>2, Zenon DEF PInv, Shape, ReleasePriority, Unclaim, Without
<1> QED
  BY <1>2, <1>3, Zenon DEF PInv

\* A batch of lost claims is pushed back.
LEMMA RecoverPriorityInv == ASSUME PInv, RecoverPriority PROVE PInv'
<1>1. PICK batch \in FirstDue(claim_deadlines, Batch) :
        RecoverPriorityBatch(LiveClaims(batch), batch \ LiveClaims(batch))
  BY Zenon DEF RecoverPriority
<1> DEFINE gone == batch \ LiveClaims(batch)
           R == Requeued(gone)
           p == [e \in R |-> prio[e]]
<1>2. PICK at \in Places(claim_deadlines, R) : PushAll(at, p)
  BY <1>1, Zenon DEF RecoverPriorityBatch
<1>3. /\ DOMAIN record' = DOMAIN record
      /\ DOMAIN claims' \subseteq DOMAIN claims
      /\ DOMAIN claim_deadlines' \subseteq DOMAIN claim_deadlines
      /\ UNCHANGED <<pending, delayed, scheduled, now, issued, lost, dequeued, prio>>
  BY <1>1, Zenon DEF RecoverPriorityBatch, Without
<1>4. R \subseteq issued
  BY Zenon DEF Requeued, HasStatus, PInv, Shape
<1>5. Cardinality(R) \in Nat
  BY <1>4, FS_Subset, FS_CardinalityType, Zenon DEF PInv, Shape
<1>6. at \in [R -> 1 .. Cardinality(R)] /\ \A e \in R : p[e] \in Int
  BY <1>4, PriorityConstantsOK, Zenon DEF Places, PInv, Shape
<1> HIDE DEF R, p
<1>7. /\ DOMAIN at = R /\ Cardinality(DOMAIN at) \in Nat
      /\ \A e \in DOMAIN at : at[e] \in 1 .. Cardinality(DOMAIN at) /\ p[e] \in Int
  BY <1>5, <1>6, Zenon
<1>8. Rank' /\ DOMAIN priorities' = DOMAIN priorities \cup DOMAIN at
  BY <1>2, <1>7, PushAllRank, Zenon DEF PInv
<1>9. Shape'
  BY <1>3, <1>4, <1>7, <1>8, Zenon DEF PInv, Shape
<1> QED
  BY <1>8, <1>9, Zenon DEF PInv

\* An entry is failed, wherever it is.
LEMMA StoreAndDiscardInv == ASSUME PInv, NEW e, StoreAndDiscard(e) PROVE PInv'
<1>1. Take(priorities, sequence, e) /\ Recorded(<<>>, <<>>, {e})
  BY Zenon DEF StoreAndDiscard
<1>2. DOMAIN <<>> = {}
  OBVIOUS
<1>3. priorities' = [x \in DOMAIN priorities \ {e} |-> priorities[x]]
  BY <1>1, Zenon DEF Take, Without
<1>4. /\ DOMAIN priorities' = (DOMAIN priorities \cup DOMAIN <<>>) \ {e}
      /\ priorities' = [x \in DOMAIN priorities' |-> Pushed(<<>>, <<>>)[x]]
  BY <1>2, <1>3, Zenon DEF Pushed
<1>5. /\ sequence' \in Nat
      /\ sequence' = sequence + 0 \/ DOMAIN priorities' = {}
  <2>1. sequence \in Nat
    BY Zenon DEF PInv, Rank
  <2>2. sequence' = IF DOMAIN priorities \ {e} = {} THEN 0 ELSE sequence
    BY <1>1, Zenon DEF Take
  <2>3. DOMAIN priorities' = DOMAIN priorities \ {e}
    BY <1>3, Zenon
  <2> QED
    BY <2>1, <2>2, <2>3
<1>6. Rank'
  BY <1>1, <1>2, <1>4, <1>5, PushThenTake, Zenon DEF PInv
<1>7. pending' = <<>>
  BY LremAbsent DEF StoreAndDiscard, PInv, Shape, Range
<1>8. e \in issued
  BY Zenon DEF StoreAndDiscard
<1>9. Shape'
  BY <1>3, <1>7, <1>8, Zenon DEF StoreAndDiscard, PInv, Shape, Zadd, Without
<1> QED
  BY <1>6, <1>9, Zenon DEF PInv

\* The Functions that leave the ZSET alone.
LEMMA SharedInv == ASSUME PInv, Shared PROVE PInv'
<1>1. Rank'
  BY Zenon DEF Shared, queue, history, PInv, Rank
<1>2. UNCHANGED <<priorities, prio>>
  BY Zenon DEF Shared, queue
<1>3. ASSUME NEW w \in Workers, NEW e \in Entries, NEW lease \in Leases, Renew(w, e, lease)
      PROVE  Shape'
  BY <1>2, <1>3, Zenon DEF Renew, CanRenew, Owns, Zadd, PInv, Shape
<1>4. ASSUME NEW w \in Workers, NEW e \in Entries, Ack(w, e)
      PROVE  Shape'
  BY <1>2, <1>4, Zenon DEF Ack, Unclaim, Without, PInv, Shape
<1>5. ASSUME NEW w \in Workers, NEW e \in Entries, MarkRunning(w, e)
      PROVE  Shape'
  BY <1>2, <1>5, Zenon DEF MarkRunning, HasStatus, Zadd, PInv, Shape
<1>6. ASSUME NEW w \in Workers, NEW e \in Entries, Settle(w, e, "succeeded")
      PROVE  Shape'
  BY <1>2, <1>6, Zenon DEF Settle, Unclaim, HasStatus, Zadd, Without, PInv, Shape
<1>7. ASSUME NEW e \in Entries, Prune(e)
      PROVE  Shape'
  <2>1. pending' = <<>>
    BY <1>7, LremAbsent DEF Prune, PInv, Shape, Range
  <2> QED
    BY <1>2, <1>7, <2>1, Zenon DEF Prune, Without, PInv, Shape
<1>8. ASSUME NEW e \in Entries, RemoveRecord(e)
      PROVE  Shape'
  BY <1>2, <1>8, Zenon DEF RemoveRecord, Without, PInv, Shape
<1>9. ASSUME Tick
      PROVE  Shape'
  BY <1>2, <1>9, Zenon DEF Tick, store, PInv, Shape
<1>10. Shape'
  BY <1>3, <1>4, <1>5, <1>6, <1>7, <1>8, <1>9, Zenon DEF Shared
<1> QED
  BY <1>1, <1>10, Zenon DEF PInv

\* The invariant holds at first and in every step.
LEMMA PInitInv == PInit => PInv
<1> SUFFICES ASSUME PInit PROVE PInv
  BY Zenon
<1>1. /\ DOMAIN record = {} /\ DOMAIN scheduled = {} /\ DOMAIN claims = {}
      /\ DOMAIN claim_deadlines = {} /\ DOMAIN delayed = {}
      /\ DOMAIN priorities = {} /\ issued = {} /\ pending = <<>>
      /\ sequence = 0 /\ earlier = {}
      /\ prio \in [{} -> Priorities]
      /\ pushed_as \in [{} -> Int] /\ priorities \in [{} -> Int]
  BY DEF PInit, Init
<1> QED
  BY <1>1, FS_EmptySet, Zenon DEF PInv, Rank, Shape

\* Every step keeps the invariant.
LEMMA PNextInv == PInv /\ [PNext]_pvars => PInv'
<1> SUFFICES ASSUME PInv, [PNext]_pvars PROVE PInv'
  BY Zenon
<1>1. ASSUME NEW e \in Entries, NEW p \in Priorities, StoreAndPushPriority(e, p) PROVE PInv'
  BY <1>1, StoreAndPushPriorityInv, Zenon
<1>2. ASSUME NEW e \in Entries, NEW p \in Priorities, NEW delay \in Delays,
             StoreAvailablePriority(e, p, now + delay)
      PROVE  PInv'
  BY <1>2, StoreAvailablePriorityInv, Zenon
<1>3. ASSUME PromoteScheduledPriority PROVE PInv'
  BY <1>3, PromoteScheduledPriorityInv, Zenon
<1>4. ASSUME NEW got \in Entries \cup {NoEntry}, DequeuePriority(got) PROVE PInv'
  BY <1>4, DequeuePriorityInv, Zenon
<1>5. ASSUME NEW w \in Workers, NEW lease \in Leases, NEW got \in Entries \cup {NoEntry},
             ClaimPriority(w, lease, got)
      PROVE  PInv'
  BY <1>5, ClaimPriorityInv, Zenon
<1>6. ASSUME NEW w \in Workers, NEW e \in Entries, ReleasePriority(w, e) PROVE PInv'
  BY <1>6, ReleasePriorityInv, Zenon
<1>7. ASSUME RecoverPriority PROVE PInv'
  BY <1>7, RecoverPriorityInv, Zenon
<1>8. ASSUME NEW e \in Failing, StoreAndDiscard(e) PROVE PInv'
  BY <1>8, StoreAndDiscardInv, Zenon
<1>9. ASSUME Shared PROVE PInv'
  BY <1>9, SharedInv, Zenon
<1>10. ASSUME UNCHANGED pvars PROVE PInv'
  BY <1>10, Zenon DEF pvars, vars, store, queue, history, PInv, Rank, Shape
<1> QED
  BY <1>1, <1>2, <1>3, <1>4, <1>5, <1>6, <1>7, <1>8, <1>9, <1>10, Zenon
     DEF PNext, Pushing, Enqueue, WorkerPriorityCall

\* The inductive invariant holds in every state.
THEOREM PriorityInvariant == PSpec => []PInv
<1> QED
  BY PInitInv, PNextInv, PTL DEF PSpec

\* The ranking theorem: whatever the order of pushes, promotions, claims, releases
\* and recoveries, the ZSET ranks entries by priority and arrival while the
\* sequence fits its space.
THEOREM PriorityRanking == PSpec => []Ranked
<1> QED
  BY PriorityInvariant, RankRanked, PTL DEF PInv

-------------------------------------------------------------------------------
\* Where an entry is.  Besides OneHome: claim keys and claim deadlines are kept
\* together, and an entry is running only under a claim, so that the schedule
\* never drops an unfinished one.
Home ==
    /\ OneHome
    /\ DOMAIN claims = DOMAIN claim_deadlines
    /\ dequeued \subseteq issued
    /\ \A e \in DOMAIN record : record[e] = "running" => e \in DOMAIN claims

\* What a promotion does to the places of entries.
LEMMA PromotionPlaces ==
    /\ Chosen \subseteq DOMAIN scheduled
    /\ \A e \in Chosen : e \in DOMAIN record /\ record[e] = "queued"
    /\ DOMAIN ScheduledLeft \subseteq DOMAIN scheduled
    /\ DOMAIN ScheduledLeft \cap Chosen = {}
    /\ \A e \in DOMAIN scheduled :
           e \in DOMAIN record /\ record[e] = "queued" => e \in Chosen \cup DOMAIN ScheduledLeft
  BY Zenon DEF Chosen, Promotable, EarliestDue, Due, DueAt, HasStatus, ScheduledLeft, Without

\* An ID that was not issued before is nowhere, so one place is one home.
LEMMA NewHome ==
    ASSUME PInv, Home, NEW e, e \notin issued,
           record' = Zadd(record, e, "queued"), issued' = issued \cup {e},
           UNCHANGED <<claims, claim_deadlines, dequeued>>,
           \/ DOMAIN priorities' = DOMAIN priorities \cup {e} /\ scheduled' = scheduled
           \/ DOMAIN scheduled' = DOMAIN scheduled \cup {e} /\ priorities' = priorities
    PROVE  Home'
<1>1. e \notin DOMAIN priorities \cup DOMAIN scheduled \cup DOMAIN claims \cup dequeued
  BY ZenonT(30) DEF PInv, Shape, Home
<1>2. /\ DOMAIN record' = DOMAIN record \cup {e} /\ record'[e] = "queued"
      /\ \A x \in DOMAIN record' : x # e => x \in DOMAIN record /\ record'[x] = record[x]
  BY Zenon DEF Zadd
<1>3. \A x \in DOMAIN record' : record'[x] \in {"queued", "running"} =>
        x \in DOMAIN priorities' \cup DOMAIN scheduled' \cup DOMAIN claims' \cup dequeued'
  BY <1>2, Zenon DEF Home, OneHome
<1>4. OneHome'
  BY <1>1, <1>3 DEF Home, OneHome
<1>5. \A x \in DOMAIN record' : record'[x] = "running" => x \in DOMAIN claims'
  BY <1>2, Zenon DEF Home
<1> QED
  BY <1>4, <1>5, ZenonT(30) DEF Home

\* A new entry gets one home.
LEMMA EnqueueHome ==
    ASSUME PInv, Home, NEW e \in Entries, NEW p \in Priorities,
           \/ StoreAndPushPriority(e, p)
           \/ \E at : StoreAvailablePriority(e, p, at)
    PROVE  Home'
<1>0. p \in Int
  BY PriorityConstantsOK, Zenon
<1>1. CASE StoreAndPushPriority(e, p)
  <2>1. DOMAIN priorities' = DOMAIN priorities \cup {e}
    BY <1>0, <1>1, PushOneRank, Zenon DEF PInv, StoreAndPushPriority
  <2> QED
    BY <1>1, <2>1, NewHome, Zenon DEF StoreAndPushPriority
<1>2. ASSUME NEW at, StoreAvailablePriority(e, p, at) PROVE Home'
  <2>1. CASE at > now
    <3>1. DOMAIN scheduled' = DOMAIN scheduled \cup {e} /\ priorities' = priorities
      BY <1>2, <2>1, Zenon DEF StoreAvailablePriority, Zadd, queue
    <3> QED
      BY <1>2, <3>1, NewHome, Zenon DEF StoreAvailablePriority
  <2>2. CASE ~(at > now)
    <3>1. DOMAIN priorities' = DOMAIN priorities \cup {e}
      BY <1>0, <1>2, <2>2, PushOneRank, Zenon DEF PInv, StoreAvailablePriority
    <3> QED
      BY <1>2, <2>2, <3>1, NewHome, Zenon DEF StoreAvailablePriority
  <2> QED
    BY <2>1, <2>2, Zenon
<1> QED
  BY <1>1, <1>2, Zenon

\* A promoted entry moves from the schedule to the ZSET.
LEMMA PromoteHome == ASSUME PInv, Home, PromoteScheduledPriority PROVE Home'
<1>1. DOMAIN priorities' = DOMAIN priorities \cup Chosen
  BY PromoteRank, Zenon DEF PInv, PromoteScheduledPriority
<1> QED
  BY <1>1, PromotionPlaces, Zenon DEF PromoteScheduledPriority, Home, OneHome

\* IDs that leave the ZSET, after a promotion, have one home with their taker.
LEMMA TakenHome ==
    ASSUME PInv, Home, NEW got, got \subseteq DOMAIN priorities \cup Chosen,
           DOMAIN priorities' = (DOMAIN priorities \cup Chosen) \ got,
           scheduled' = ScheduledLeft, UNCHANGED <<record, issued>>,
           \/ /\ DOMAIN claims' = DOMAIN claims \cup got
              /\ DOMAIN claim_deadlines' = DOMAIN claim_deadlines \cup got
              /\ UNCHANGED dequeued
           \/ dequeued' = dequeued \cup got /\ UNCHANGED <<claims, claim_deadlines>>
    PROVE  Home'
<1> DEFINE all == DOMAIN priorities \cup Chosen
           left == DOMAIN ScheduledLeft
<1>1. all \cap left = {} /\ all \cap DOMAIN claims = {} /\ all \cap dequeued = {} /\ all \subseteq issued
  BY PromotionPlaces, ChosenFacts, Zenon DEF Home, OneHome, PInv, Shape
<1>2. left \cap DOMAIN claims = {} /\ left \cap dequeued = {} /\ DOMAIN claims \cap dequeued = {}
  BY PromotionPlaces, Zenon DEF Home, OneHome
<1>3. ASSUME NEW e \in DOMAIN record, record[e] \in {"queued", "running"}
      PROVE  e \in all \cup left \cup DOMAIN claims \cup dequeued
  BY <1>3, PromotionPlaces, Zenon DEF Home, OneHome
<1> HIDE DEF all, left
<1>4. DOMAIN priorities' = all \ got /\ DOMAIN scheduled' = left /\ got \subseteq all
  BY Zenon DEF all, left
<1>5. OneHome'
  BY <1>1, <1>2, <1>3, <1>4, Zenon DEF OneHome
<1> QED
  BY <1>1, <1>4, <1>5, Zenon DEF Home

\* A dequeued entry leaves the ZSET for its consumer.
LEMMA DequeueHome ==
    ASSUME PInv, Home, NEW got \in Entries \cup {NoEntry}, DequeuePriority(got)
    PROVE  Home'
<1> DEFINE z == Pushed(ChosenAt, ChosenPriority)
<1>1. DOMAIN z = DOMAIN priorities \cup Chosen
  BY ChosenFacts, Zenon DEF Pushed, PInv
<1>2. \/ got = NoEntry /\ DOMAIN z = {} /\ UNCHANGED <<priorities, sequence>>
      \/ got \in DOMAIN z /\ Take(z, sequence + Cardinality(Chosen), got)
  BY Zenon DEF DequeuePriority, Top
<1>3. /\ DOMAIN priorities' = (DOMAIN priorities \cup Chosen) \ {got}
      /\ {got} \ {NoEntry} \subseteq DOMAIN priorities \cup Chosen
  <2>1. CASE got = NoEntry /\ DOMAIN z = {} /\ UNCHANGED <<priorities, sequence>>
    BY <1>1, <2>1, Zenon
  <2>2. CASE got \in DOMAIN z /\ Take(z, sequence + Cardinality(Chosen), got)
    BY <1>1, <2>2, PromoteTakeRank, Zenon DEF DequeuePriority, PInv
  <2> QED
    BY <1>2, <2>1, <2>2, Zenon
<1>4. /\ scheduled' = ScheduledLeft
      /\ dequeued' = dequeued \cup ({got} \ {NoEntry})
      /\ UNCHANGED <<record, claims, claim_deadlines, issued>>
  BY Zenon DEF DequeuePriority
<1>5. NoEntry \notin DOMAIN priorities \cup Chosen
  BY ConstantsOK, ChosenFacts, Zenon DEF PInv, Shape
<1> HIDE DEF z
<1>6. DOMAIN priorities' = (DOMAIN priorities \cup Chosen) \ ({got} \ {NoEntry})
  BY <1>3, <1>5, Zenon
<1> QED
  BY <1>3, <1>4, <1>6, TakenHome, Zenon

\* A claimed entry leaves the ZSET for its claim.
LEMMA ClaimHome ==
    ASSUME PInv, Home, NEW w, NEW lease, NEW got, ClaimPriority(w, lease, got)
    PROVE  Home'
<1> DEFINE z == Pushed(ChosenAt, ChosenPriority)
<1>1. DOMAIN z = DOMAIN priorities \cup Chosen
  BY ChosenFacts, Zenon DEF Pushed, PInv
<1>2. CASE PushAll(ChosenAt, ChosenPriority) /\ UNCHANGED <<claims, claim_deadlines>>
  <2>1. DOMAIN priorities' = DOMAIN priorities \cup Chosen
    BY <1>2, PromoteRank, Zenon DEF PInv
  <2> QED
    BY <1>2, <2>1, ClaimOutcomes, PromotionPlaces, Zenon DEF Home, OneHome
<1>3. CASE /\ got \in Top(z)
           /\ Take(z, sequence + Cardinality(Chosen), got)
           /\ Recorded(ChosenAt, ChosenPriority, {got})
           /\ DOMAIN claims' = DOMAIN claims \cup {got}
           /\ DOMAIN claim_deadlines' = DOMAIN claim_deadlines \cup {got}
  <2>1. /\ DOMAIN priorities' = (DOMAIN priorities \cup Chosen) \ {got}
        /\ got \in DOMAIN priorities \cup Chosen
    BY <1>1, <1>3, PromoteTakeRank, Zenon DEF PInv, Top
  <2>2. /\ scheduled' = ScheduledLeft
        /\ UNCHANGED <<record, issued, dequeued>>
    BY ClaimOutcomes, Zenon
  <2> QED
    BY <1>3, <2>1, <2>2, TakenHome, Zenon
<1> QED
  BY <1>2, <1>3, ClaimOutcomes, Zenon

\* A released entry moves from its claim to the ZSET.
LEMMA ReleaseHome ==
    ASSUME PInv, Home, NEW w, NEW e, ~HasStatus(e, {"running"}), ReleasePriority(w, e)
    PROVE  Home'
<1>1. e \in issued /\ PriorityOf(e) \in Int /\ e \in DOMAIN claims
  BY PriorityConstantsOK, Zenon DEF ReleasePriority, Owns, PriorityOf, PInv, Shape
<1>2. DOMAIN priorities' = DOMAIN priorities \cup {e}
  BY <1>1, PushOneRank, Zenon DEF PInv, ReleasePriority
<1> QED
  <2>1. e \notin DOMAIN scheduled \cup dequeued
    BY <1>1, Zenon DEF Home, OneHome
  <2>2. /\ DOMAIN claims' = DOMAIN claims \ {e} /\ DOMAIN claim_deadlines' = DOMAIN claim_deadlines \ {e}
        /\ UNCHANGED <<record, scheduled, dequeued, issued>>
    BY Zenon DEF ReleasePriority, Unclaim, Without
  <2>3. OneHome'
    BY <1>2, <2>1, <2>2 DEF Home, OneHome
  <2> QED
    BY <2>2, <2>3, Zenon DEF HasStatus, Home

\* A recovered entry moves from its claim to the ZSET, and no other one does.
LEMMA RecoverHome == ASSUME PInv, Home, RecoverPriority PROVE Home'
<1>1. PICK batch \in FirstDue(claim_deadlines, Batch) :
        RecoverPriorityBatch(LiveClaims(batch), batch \ LiveClaims(batch))
  BY Zenon DEF RecoverPriority
<1> DEFINE gone == batch \ LiveClaims(batch)
           R == Requeued(gone)
           p == [e \in R |-> prio[e]]
<1>2. PICK at \in Places(claim_deadlines, R) : PushAll(at, p)
  BY <1>1, Zenon DEF RecoverPriorityBatch
<1>3. DOMAIN at = R
  BY Zenon DEF Places
<1>4. DOMAIN priorities' = DOMAIN priorities \cup R
  BY <1>2, <1>3, Zenon DEF PushAll, Push, Pushed
<1>5. gone \subseteq DOMAIN claims
  BY Zenon DEF FirstDue, Due, DueAt, Home
<1>6. /\ R \subseteq gone
      /\ \A e \in gone : e \in DOMAIN record /\ record[e] \in {"queued", "running"} => e \in R
  BY Zenon DEF Requeued, HasStatus
<1>7. /\ record' = [e \in DOMAIN record |-> IF e \in R THEN "queued" ELSE record[e]]
      /\ DOMAIN claims' = DOMAIN claims \ gone
      /\ DOMAIN claim_deadlines' = DOMAIN claim_deadlines \ gone
      /\ UNCHANGED <<scheduled, issued, dequeued>>
  BY <1>1, ZenonT(30) DEF RecoverPriorityBatch, Without
<1> HIDE DEF R, gone
<1> QED
  BY <1>4, <1>5, <1>6, <1>7, Zenon DEF Home, OneHome

\* A failed entry has no home.
LEMMA DiscardHome == ASSUME PInv, Home, NEW e, StoreAndDiscard(e) PROVE Home'
<1>1. DOMAIN priorities' = DOMAIN priorities \ {e}
  BY Zenon DEF StoreAndDiscard, Take, Without
<1> QED
  BY <1>1, Zenon DEF StoreAndDiscard, Zadd, Without, Home, OneHome

\* The other Functions keep an unfinished entry where it is.
LEMMA SharedHome == ASSUME PInv, Home, Shared PROVE Home'
<1>1. UNCHANGED priorities
  BY Zenon DEF Shared, queue
<1>2. ASSUME NEW w \in Workers, NEW e \in Entries, NEW lease \in Leases, Renew(w, e, lease)
      PROVE  Home'
  BY <1>1, <1>2 DEF Renew, CanRenew, Owns, Zadd, Home, OneHome
<1>3. ASSUME NEW w \in Workers, NEW e \in Entries, e \notin DOMAIN record, Ack(w, e)
      PROVE  Home'
  BY <1>1, <1>3, Zenon DEF Ack, Unclaim, Without, Home, OneHome
<1>4. ASSUME NEW w \in Workers, NEW e \in Entries, MarkRunning(w, e)
      PROVE  Home'
  BY <1>1, <1>4, Zenon DEF MarkRunning, Owns, HasStatus, Zadd, Home, OneHome
<1>5. ASSUME NEW w \in Workers, NEW e \in Entries, Settle(w, e, "succeeded")
      PROVE  Home'
  BY <1>1, <1>5, Zenon DEF Settle, Unclaim, HasStatus, Zadd, Without, Home, OneHome
<1>6. ASSUME NEW e \in Entries, Prune(e)
      PROVE  Home'
  BY <1>1, <1>6, Zenon DEF Prune, Without, Home, OneHome
<1>7. ASSUME NEW e \in Entries, RemoveRecord(e)
      PROVE  Home'
  BY <1>1, <1>7, Zenon DEF RemoveRecord, Without, Home, OneHome
<1>8. ASSUME Tick
      PROVE  Home'
  BY <1>1, <1>8, Zenon DEF Tick, store, Home, OneHome
<1> QED
  BY <1>2, <1>3, <1>4, <1>5, <1>6, <1>7, <1>8, Zenon DEF Shared

\* Every step keeps every entry in one home.
LEMMA PNextHome == PInv /\ Home /\ [PNext]_pvars => Home'
<1> SUFFICES ASSUME PInv, Home, [PNext]_pvars PROVE Home'
  BY Zenon
<1>1. ASSUME Enqueue PROVE Home'
  BY <1>1, EnqueueHome, Zenon DEF Enqueue
<1>2. ASSUME NEW w \in Workers, WorkerPriorityCall(w) PROVE Home'
  BY <1>2, ClaimHome, ReleaseHome, Zenon DEF WorkerPriorityCall
<1>3. ASSUME UNCHANGED pvars PROVE Home'
  BY <1>3, Zenon DEF pvars, vars, store, queue, Home, OneHome
<1> QED
  BY <1>1, <1>2, <1>3, PromoteHome, DequeueHome, RecoverHome, DiscardHome, SharedHome, Zenon
     DEF PNext, Pushing

\* There are no entries at first.
LEMMA PInitHome == PInit => Home
  BY DEF PInit, Init, Home, OneHome

\* No unfinished entry of a priority queue is lost or in two places.
THEOREM PriorityEntryHasOneHome == PSpec => []OneHome
<1>1. PSpec => []Home
  BY PriorityInvariant, PInitHome, PNextHome, PTL DEF PSpec
<1>2. Home => OneHome
  BY Zenon DEF Home
<1> QED
  BY <1>1, <1>2, PTL

-------------------------------------------------------------------------------
\* At most one entry is promoted in a step: IDs are ordered.
LEMMA ChosenIsOne ==
    ASSUME Shape, NEW e \in Chosen, NEW f \in Chosen
    PROVE  e = f
<1>1. /\ e \in Nat /\ f \in Nat
      /\ prio[e] \in Int /\ prio[f] \in Int
  BY ChosenFacts, ConstantsOK, PriorityConstantsOK, Zenon DEF Shape
<1>2. /\ prio[e] > prio[f] \/ (prio[e] = prio[f] /\ e <= f)
      /\ prio[f] > prio[e] \/ (prio[f] = prio[e] /\ f <= e)
  BY Zenon DEF Chosen
<1> QED
  BY <1>1, <1>2

\* The top of the ZSET, after a promotion, is ahead of what stays in it.
LEMMA TopIsBest ==
    ASSUME PInv, Home, sequence < Space,
           NEW got \in Top(Pushed(ChosenAt, ChosenPriority)),
           Take(Pushed(ChosenAt, ChosenPriority), sequence + Cardinality(Chosen), got),
           Recorded(ChosenAt, ChosenPriority, {got}),
           NEW f \in DOMAIN priorities'
    PROVE  IF got \in DOMAIN priorities
           THEN IF f \in DOMAIN priorities THEN ~Ahead(f, got) ELSE pushed_as'[f] <= pushed_as[got]
           ELSE pushed_as'[f] < prio[got]
<1> DEFINE z == Pushed(ChosenAt, ChosenPriority)
           D == DOMAIN priorities
<1>0. /\ Rank /\ Shape /\ Rank'
      /\ DOMAIN priorities' = (D \cup Chosen) \ {got}
      /\ D \cap Chosen = {}
  <2>1. D \cap Chosen = {}
    BY PromotionPlaces, Zenon DEF Home, OneHome
  <2> QED
    BY <2>1, PromoteTakeRank, ZenonT(30) DEF PInv
<1>1. /\ got \in D \cup Chosen /\ f \in D \cup Chosen /\ f # got
      /\ Before(z, f, got)
  BY <1>0, ChosenFacts, Zenon DEF Top, Pushed
<1>2. \A x \in D : /\ z[x] = priorities[x] /\ z[x] \in Int /\ pushed_as[x] \in Int
                   /\ \E n \in 1 .. Space : n <= sequence /\ priorities[x] = Score(pushed_as[x], n)
  <2> SUFFICES ASSUME NEW x \in D
               PROVE  /\ z[x] = priorities[x] /\ z[x] \in Int /\ pushed_as[x] \in Int
                      /\ \E n \in 1 .. Space : n <= sequence /\ priorities[x] = Score(pushed_as[x], n)
    BY Zenon
  <2>1. z[x] = priorities[x]
    BY <1>0, ChosenFacts, Zenon DEF Pushed
  <2>2. PICK n \in 1 .. sequence : priorities[x] = Score(pushed_as[x], n)
    BY <1>0, Zenon DEF Rank
  <2>3. n \in 1 .. Space /\ n <= sequence
    BY <1>0, <2>2, PriorityConstantsOK, SMT, SMTT(30) DEF Rank
  <2> QED
    BY <1>0, <2>1, <2>2, <2>3, Zenon DEF Rank
<1>3. \A x \in Chosen : /\ z[x] = Score(prio[x], sequence + 1) /\ prio[x] \in Int
                        /\ sequence + 1 \in 1 .. Space
  <2>1. \A x \in Chosen : prio[x] \in Int
    BY <1>0, ChosenFacts, PriorityConstantsOK, Zenon DEF Shape
  <2>2. sequence + 1 \in 1 .. Space
    BY <1>0, PriorityConstantsOK DEF Rank
  <2>3. \A x \in Chosen : z[x] = Score(prio[x], sequence + 1)
    BY <1>0, ChosenFacts, Zenon DEF Pushed, ChosenAt, ChosenPriority
  <2> QED
    BY <2>1, <2>2, <2>3, Zenon
<1>4. z[f] <= z[got] /\ ~(z[f] > z[got])
  <2>1. \A x \in D : z[x] \in Int
    BY <1>2, Zenon
  <2>2. \A x \in Chosen : z[x] \in Int
    <3>1. sequence + 1 \in Int
      BY <1>0 DEF Rank
    <3> QED
      BY <3>1, <1>3, ScoreType, Zenon
  <2>3. z[f] \in Int /\ z[got] \in Int
    BY <1>1, <2>1, <2>2, Zenon
  <2>4. z[f] < z[got] \/ z[f] = z[got]
    BY <1>1, Zenon DEF Before
  <2>5. \A a, b \in Int : a < b \/ a = b => a <= b /\ ~(a > b)
    OBVIOUS
  <2> QED
    BY <2>3, <2>4, <2>5, Zenon
<1>5. /\ f \in D => pushed_as'[f] = pushed_as[f]
      /\ f \in Chosen => pushed_as'[f] = prio[f]
  BY <1>0, <1>1, ChosenFacts, ZenonT(30) DEF Recorded, ChosenPriority
<1> HIDE DEF z, D
<1>6. ASSUME got \in D, f \in D PROVE ~Ahead(f, got)
  <2>1. sequence <= Space
    BY <1>0, PriorityConstantsOK, SMT, SMTT(30) DEF Rank
  <2>2. Ahead(f, got) => priorities[f] > priorities[got]
    BY <1>0, <1>6, <2>1, RankRanked, Zenon DEF Ranked, D
  <2>3. z[f] = priorities[f] /\ z[got] = priorities[got]
    BY <1>2, <1>6, Zenon
  <2> QED
    BY <1>4, <2>2, <2>3, Zenon
<1>7. ASSUME got \in D, f \in Chosen PROVE prio[f] <= pushed_as[got]
  <2>1. PICK n \in 1 .. Space : priorities[got] = Score(pushed_as[got], n)
    BY <1>2, <1>7, Zenon
  <2>2. z[got] = priorities[got] /\ z[f] = Score(prio[f], sequence + 1)
    BY <1>2, <1>3, <1>7, Zenon
  <2>3. Score(prio[f], sequence + 1) <= Score(pushed_as[got], n)
    BY <1>4, <2>1, <2>2, Zenon
  <2>4. prio[f] \in Int /\ pushed_as[got] \in Int /\ sequence + 1 \in 1 .. Space
    BY <1>2, <1>3, <1>7, Zenon
  <2> QED
    BY <2>3, <2>4, ScoreAtMost, Zenon
<1>8. ASSUME got \in Chosen PROVE f \in D /\ pushed_as[f] < prio[got]
  <2>0. f \in D
    BY <1>0, <1>1, <1>8, ChosenIsOne, Zenon
  <2>1. PICK n \in 1 .. Space : n <= sequence /\ priorities[f] = Score(pushed_as[f], n)
    BY <1>2, <2>0, Zenon
  <2>2. z[f] = priorities[f] /\ z[got] = Score(prio[got], sequence + 1)
    BY <1>2, <1>3, <1>8, <2>0, Zenon
  <2>3. Score(pushed_as[f], n) <= Score(prio[got], sequence + 1)
    BY <1>4, <2>1, <2>2, Zenon
  <2>4. pushed_as[f] \in Int /\ prio[got] \in Int /\ sequence + 1 \in 1 .. Space
    BY <1>2, <1>3, <1>8, <2>0, Zenon
  <2>5. n < sequence + 1
    <3>1. sequence \in Int
      BY <1>0 DEF Rank
    <3> QED
      BY <3>1, <2>1, SMT, SMTT(30)
  <2> QED
    BY <2>0, <2>3, <2>4, <2>5, ScoreAtMost, Zenon
<1> QED
  BY <1>0, <1>1, <1>5, <1>6, <1>7, <1>8, Zenon DEF D

\* Only a claim and a dequeue hand an entry to a consumer.
LEMMA NextBestFirst == PInv /\ Home /\ [PNext]_pvars => BestFirst
<1> SUFFICES ASSUME PInv, Home, [PNext]_pvars, sequence < Space,
                    NEW e \in Taken, NEW f \in DOMAIN priorities'
             PROVE  IF e \in DOMAIN priorities
                    THEN IF f \in DOMAIN priorities THEN ~Ahead(f, e) ELSE pushed_as'[f] <= pushed_as[e]
                    ELSE pushed_as'[f] < prio[e]
  BY Zenon DEF BestFirst
<1> DEFINE z == Pushed(ChosenAt, ChosenPriority)
           Taking(got) == /\ got \in Top(z)
                          /\ Take(z, sequence + Cardinality(Chosen), got)
                          /\ Recorded(ChosenAt, ChosenPriority, {got})
<1>1. ASSUME NEW got \in Entries \cup {NoEntry}, DequeuePriority(got)
      PROVE  e = got /\ Taking(got)
  BY <1>1, Zenon DEF DequeuePriority, Taken
<1>2. ASSUME NEW w \in Workers, NEW lease \in Leases, NEW got \in Entries \cup {NoEntry},
             ClaimPriority(w, lease, got)
      PROVE  e = got /\ Taking(got)
  <2>1. /\ dequeued' = dequeued
        /\ UNCHANGED <<claims, claim_deadlines>> \/ (Taking(got) /\ DOMAIN claims' = DOMAIN claims \cup {got})
    BY <1>2, ClaimOutcomes, Zenon
  <2> HIDE DEF Taking
  <2> QED
    BY <2>1, Zenon DEF Taken
<1>3. ASSUME Enqueue \/ PromoteScheduledPriority \/ RecoverPriority \/ Shared
                \/ (\E x \in Failing : StoreAndDiscard(x))
                \/ (\E w \in Workers, x \in Entries : ReleasePriority(w, x))
                \/ UNCHANGED pvars
      PROVE  FALSE
  <2>1. ASSUME Enqueue \/ PromoteScheduledPriority \/ (\E x \in Failing : StoreAndDiscard(x))
                  \/ UNCHANGED pvars
        PROVE  FALSE
    BY <2>1, ZenonT(30) DEF Enqueue, StoreAndPushPriority, StoreAvailablePriority, PromoteScheduledPriority,
                StoreAndDiscard, pvars, vars, store, Taken
  <2>2. ASSUME RecoverPriority PROVE FALSE
    BY <2>2, Zenon DEF RecoverPriority, RecoverPriorityBatch, Without, Taken
  <2>3. ASSUME NEW w \in Workers, NEW x \in Entries, ReleasePriority(w, x) PROVE FALSE
    BY <2>3, Zenon DEF ReleasePriority, Unclaim, Without, Taken
  <2>4. ASSUME Shared PROVE FALSE
    <3>1. DOMAIN claims' \subseteq DOMAIN claims /\ dequeued' = dequeued
      BY <2>4, Zenon DEF Shared, Renew, CanRenew, Owns, Ack, MarkRunning, Settle, Prune, RemoveRecord,
                  Tick, store, Unclaim, Without, Zadd
    <3> QED
      BY <3>1, Zenon DEF Taken
  <2> QED
    BY <1>3, <2>1, <2>2, <2>3, <2>4, Zenon
<1>4. PICK got : e = got /\ Taking(got)
  BY <1>1, <1>2, <1>3, Zenon DEF PNext, Pushing, WorkerPriorityCall
<1> QED
  BY <1>4, TopIsBest, ZenonT(30)

\* The clock and the due times are numbers.
Times == now \in Nat /\ scheduled \in [DOMAIN scheduled -> Nat]

\* They are at first, and every step keeps them so.
LEMMA TimesInv == (PInit => Times) /\ (Times /\ [PNext]_pvars => Times')
<1>1. PInit => Times
  BY DEF PInit, Init, Times
<1>2. ASSUME Times, [PNext]_pvars PROVE Times'
  <2>1. ASSUME now' = now,
               scheduled' = scheduled \/ \E S : scheduled' = Without(scheduled, S)
        PROVE  Times'
    BY <1>2, <2>1, Zenon DEF Times, Without
  <2>2. ASSUME NEW e \in Entries, NEW p \in Priorities, NEW delay \in Delays,
               StoreAvailablePriority(e, p, now + delay)
        PROVE  Times'
    <3>1. now' = now /\ (scheduled' = scheduled \/ scheduled' = Zadd(scheduled, e, now + delay))
      BY <2>2, Zenon DEF StoreAvailablePriority
    <3>2. now + delay \in Nat
      BY <1>2, ConstantsOK DEF Times
    <3> QED
      BY <1>2, <3>1, <3>2, Zenon DEF Times, Zadd
  <2>3. ASSUME \/ \E e \in Entries, p \in Priorities : StoreAndPushPriority(e, p)
               \/ PromoteScheduledPriority
               \/ \E got \in Entries \cup {NoEntry} : DequeuePriority(got)
               \/ \E w \in Workers : WorkerPriorityCall(w)
               \/ RecoverPriority
               \/ \E e \in Failing : StoreAndDiscard(e)
               \/ UNCHANGED pvars
        PROVE  Times'
    BY <2>1, <2>3, Zenon DEF StoreAndPushPriority, PromoteScheduledPriority, DequeuePriority, ScheduledLeft,
       WorkerPriorityCall, ClaimPriority, ReleasePriority, RecoverPriority, RecoverPriorityBatch,
       StoreAndDiscard, pvars, vars, store
  <2>4. ASSUME Shared PROVE Times'
    <3>1. scheduled' = scheduled /\ (now' = now \/ now' = now + 1)
      BY <2>4, ZenonT(30) DEF Shared, Renew, Ack, MarkRunning, Settle, Prune, RemoveRecord, Tick, store
    <3> QED
      BY <1>2, <3>1 DEF Times
  <2> QED
    BY <1>2, <2>2, <2>3, <2>4, Zenon DEF PNext, Pushing, Enqueue
<1> QED
  BY <1>1, <1>2, Zenon

\* Only a promotion takes a queued entry out of the schedule.
LEMMA NextScheduleOrder == PInv /\ Times /\ [PNext]_pvars => ScheduleOrder
<1> SUFFICES ASSUME PInv, Times, [PNext]_pvars, NEW e \in DOMAIN scheduled, NEW f \in DOMAIN scheduled,
                    e \notin DOMAIN scheduled', HasStatus(e, {"queued"})', HasStatus(f, {"queued"}),
                    \/ scheduled[f] < scheduled[e]
                    \/ scheduled[f] = scheduled[e] /\ prio[f] > prio[e]
             PROVE  FALSE
  BY Zenon DEF ScheduleOrder
<1>1. /\ scheduled[e] \in Nat /\ scheduled[f] \in Nat /\ now \in Nat
      /\ HasStatus(e, {"queued"}) => prio[e] \in Int
      /\ prio[f] \in Int
  BY PriorityConstantsOK, Zenon DEF PInv, Shape, Times, HasStatus
<1>2. ASSUME scheduled' = ScheduledLeft, record' = record PROVE FALSE
  <2>1. HasStatus(e, {"queued"})
    BY <1>2, Zenon DEF HasStatus
  <2>2. e \in EarliestDue /\ e \in Chosen
    BY <1>2, <2>1, Zenon DEF ScheduledLeft, Without, Promotable, Chosen
  <2>3. f \in EarliestDue
    BY <1>1, <2>2, SMT, SMTT(30) DEF EarliestDue, Due, DueAt
  <2>4. scheduled[f] = scheduled[e] /\ prio[f] > prio[e]
    BY <1>1, <2>2, <2>3, SMT, SMTT(30) DEF EarliestDue
  <2>5. f \in Promotable
    BY <2>3, Zenon DEF Promotable
  <2> QED
    BY <1>1, <2>1, <2>2, <2>4, <2>5, SMT, SMTT(30) DEF Chosen
<1>3. ASSUME \/ PromoteScheduledPriority
             \/ \E got \in Entries \cup {NoEntry} : DequeuePriority(got)
             \/ \E w \in Workers, lease \in Leases, got \in Entries \cup {NoEntry} : ClaimPriority(w, lease, got)
      PROVE  FALSE
  BY <1>2, <1>3, ZenonT(30) DEF PromoteScheduledPriority, DequeuePriority, ClaimPriority
<1>4. ASSUME NEW x \in Failing, StoreAndDiscard(x) PROVE FALSE
  BY <1>4, ZenonT(30) DEF StoreAndDiscard, HasStatus, Zadd, Without
<1>5. ASSUME Enqueue \/ RecoverPriority \/ (\E w \in Workers, x \in Entries : ReleasePriority(w, x))
                \/ UNCHANGED pvars
      PROVE  FALSE
  <2>1. DOMAIN scheduled \subseteq DOMAIN scheduled'
    BY <1>5, ZenonT(30) DEF Enqueue, StoreAndPushPriority, StoreAvailablePriority, Zadd, RecoverPriority,
                RecoverPriorityBatch, ReleasePriority, pvars, vars, store
  <2> QED
    BY <2>1, Zenon
<1>6. ASSUME Shared PROVE FALSE
  <2>1. DOMAIN scheduled \subseteq DOMAIN scheduled' \cup {x \in DOMAIN scheduled : x \notin DOMAIN record'}
    BY <1>6, Zenon DEF Shared, Renew, Ack, MarkRunning, Settle, Prune, RemoveRecord, Tick, store, Unclaim, Without
  <2> QED
    BY <2>1, Zenon DEF HasStatus
<1> QED
  BY <1>3, <1>4, <1>5, <1>6, Zenon DEF PNext, Pushing, WorkerPriorityCall

\* Consumers get the best entry first: a claim or a dequeue never passes over an
\* entry of a higher priority, or of the same priority that has waited longer, and
\* scheduled entries become available in the order of their due times.
THEOREM PriorityInOrder == PSpec => AlwaysInOrder
<1>1. PSpec => []Home
  BY PriorityInvariant, PInitHome, PNextHome, PTL DEF PSpec
<1>2. PSpec => []Times
  BY TimesInv, PTL DEF PSpec
<1> QED
  BY <1>1, <1>2, PriorityInvariant, NextBestFirst, NextScheduleOrder, PTL DEF PSpec, AlwaysInOrder

===============================================================================
