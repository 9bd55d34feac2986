----------------------- MODULE MemoryEventWorker_proofs -----------------------
(***************************************************************************)
(* Proofs about the in-process store of MemoryEvents.tla and the event     *)
(* workers of MemoryEventWorker.tla, for every set of events, workers and  *)
(* listeners, every lifetime, lease and delay, and however late the calls  *)
(* reach the lock.                                                         *)
(***************************************************************************)
EXTENDS MemoryEventWorker, RedisValues_proofs

\* What the invariant says of the tables, in the form the proofs use.
LEMMA TableFacts ==
    ASSUME NoEventStranded
    PROVE  /\ issued \subseteq Events /\ IsFiniteSet(issued) /\ entries \subseteq issued
           /\ pending \in Seq(issued) /\ Injective(pending) /\ Range(pending) \cap DOMAIN claims = {}
           /\ DOMAIN claims \subseteq entries /\ DOMAIN claim_deadlines \subseteq DOMAIN claims
           /\ DOMAIN unclaimed_remaining = DOMAIN claims
           /\ DOMAIN unclaimed_deadlines = entries \ DOMAIN claims
           /\ now \in Nat
  BY Zenon DEF NoEventStranded, TypeOK, OnePlace, LifetimeTables

\* What is left between two readings of the clock.
LEMMA Durations ==
    /\ \A a, b \in Nat : ~(a <= b) => a - b > 0
    /\ \A a, b \in Nat : (a + b) - a = b
    /\ \A a, b \in Nat : a - (b + 1) = (a - b) - 1
  OBVIOUS

\* A list of all the events of a finite set, in some order.
LEMMA ListingFacts ==
    ASSUME NEW S, IsFiniteSet(S), NEW list \in [1 .. Cardinality(S) -> S], Injective(list)
    PROVE  list \in Seq(S) /\ Range(list) = S
<1>1. Cardinality(S) \in Nat
  BY FS_CardinalityType, Zenon
<1>2. IsFiniteSet(1 .. Cardinality(S)) /\ Cardinality(1 .. Cardinality(S)) = Cardinality(S)
  BY <1>1, FS_Interval
<1>3. list \in Injection(1 .. Cardinality(S), S)
  BY Zenon DEF Injective, Injection, IsInjective
<1>4. list \in Surjection(1 .. Cardinality(S), S)
  BY <1>2, <1>3, FS_Injection, Zenon
<1>5. Range(list) = S
  BY <1>4, Zenon DEF Surjection, Range
<1>6. list \in Seq(S)
  BY <1>1
<1> QED BY <1>5, <1>6, Zenon

\* _recover_expired_claims: the lapsed events are listed once, behind the pending
\* ones, and their lifetimes run on.
LEMMA RecoveryFacts ==
    ASSUME NoEventStranded, NEW t \in Readings, NEW back \in Returned(t)
    PROVE  LET list == pending \o back IN
           /\ t \in Nat /\ t <= now
           /\ Lapsed(t) \subseteq DOMAIN claim_deadlines
           /\ list \in Seq(issued) /\ Injective(list) /\ Range(list) = Range(pending) \cup Lapsed(t)
           /\ DOMAIN Held(t) = DOMAIN claims \ Lapsed(t)
           /\ \A e \in DOMAIN Held(t) : Held(t)[e] = claims[e]
           /\ DOMAIN Resumed(t) = entries \ DOMAIN Held(t)
           /\ Resumed(t) \in [DOMAIN Resumed(t) -> Nat]
           /\ Range(list) \cap (storing \cup DOMAIN Held(t)) = {}
           /\ entries \subseteq storing \cup Range(list) \cup DOMAIN Held(t)
<1> DEFINE list == pending \o back
<1>1. t \in Nat /\ t <= now
  BY TableFacts DEF Readings
<1>2. /\ Lapsed(t) \subseteq DOMAIN claim_deadlines /\ Lapsed(t) \subseteq DOMAIN claims
      /\ Lapsed(t) \cap entries = Lapsed(t) /\ Lapsed(t) \subseteq issued
  BY TableFacts, Zenon DEF Lapsed, DueAt
<1>3. back \in Seq(Lapsed(t)) /\ Range(back) = Lapsed(t) /\ Injective(back)
  <2>1. IsFiniteSet(Lapsed(t))
    BY <1>2, TableFacts, FS_Subset, Zenon
  <2>2. back \in [1 .. Cardinality(Lapsed(t)) -> Lapsed(t)] /\ Injective(back)
    BY <1>2, Zenon DEF Returned
  <2> QED BY <2>1, <2>2, ListingFacts, Zenon
<1>4. list \in Seq(issued) /\ Injective(list) /\ Range(list) = Range(pending) \cup Lapsed(t)
  <2>1. issued \cup Lapsed(t) = issued /\ Range(pending) \cap Lapsed(t) = {}
    BY <1>2, TableFacts, Zenon
  <2> QED BY <1>3, <2>1, TableFacts, ConcatLists
<1>5. /\ DOMAIN Held(t) = DOMAIN claims \ Lapsed(t)
      /\ \A e \in DOMAIN Held(t) : Held(t)[e] = claims[e]
  BY Zenon DEF Held, Without
<1>6. /\ DOMAIN Resumed(t) = entries \ DOMAIN Held(t)
      /\ Resumed(t) \in [DOMAIN Resumed(t) -> Nat]
  <2>1. Lapsed(t) \cap entries \cap DOMAIN unclaimed_remaining = Lapsed(t)
    BY <1>2, TableFacts, Zenon
  <2>2. Resumed(t) = [e \in DOMAIN unclaimed_deadlines \cup Lapsed(t) |->
            IF e \in Lapsed(t) THEN t + unclaimed_remaining[e] ELSE unclaimed_deadlines[e]]
    BY <2>1, Zenon DEF Resumed
  <2>3. DOMAIN unclaimed_deadlines \cup Lapsed(t) = entries \ DOMAIN Held(t)
    BY <1>2, <1>5, TableFacts, Zenon
  <2>4. \A e \in Lapsed(t) : t + unclaimed_remaining[e] \in Nat
    BY <1>1, <1>2, TableFacts DEF NoEventStranded, TypeOK
  <2>5. \A e \in DOMAIN unclaimed_deadlines : unclaimed_deadlines[e] \in Nat
    BY Zenon DEF NoEventStranded, TypeOK
  <2> QED BY <2>2, <2>3, <2>4, <2>5
<1>7. Range(list) \cap (storing \cup DOMAIN Held(t)) = {}
  BY <1>2, <1>4, <1>5, Zenon DEF NoEventStranded, OnePlace
<1>8. entries \subseteq storing \cup Range(list) \cup DOMAIN Held(t)
  BY <1>4, <1>5, Zenon DEF NoEventStranded, OnePlace
<1> QED BY <1>1, <1>2, <1>4, <1>5, <1>6, <1>7, <1>8, Zenon

\* A call that recovers, lets the events S go, and lists what it has not let go.
LEMMA RecoveredInv ==
    ASSUME NoEventStranded, NEW t \in Readings, NEW back \in Returned(t),
           NEW S, S \subseteq Range(pending \o back), Recovered(t, S),
           pending' \in Seq(issued), Injective(pending'),
           Range(pending') \subseteq Range(pending \o back) \ S,
           (Range(pending \o back) \ S) \cap entries \subseteq Range(pending'),
           ended' \in [issued \ (entries \ S) -> {"consumed", "expired", "cleared"}],
           UNCHANGED <<now, lag, storing, issued>>
    PROVE  NoEventStranded'
<1> DEFINE list == pending \o back
<1>1. /\ entries' = entries \ S
      /\ available_at' = Without(available_at, S)
      /\ unclaimed_deadlines' = Without(Resumed(t), S)
      /\ unclaimed_remaining' = Without(unclaimed_remaining, Lapsed(t) \cup S)
      /\ claims' = Held(t)
      /\ claim_deadlines' = Without(claim_deadlines, Lapsed(t))
  BY Zenon DEF Recovered
<1>2. /\ Lapsed(t) \subseteq DOMAIN claim_deadlines
      /\ DOMAIN Held(t) = DOMAIN claims \ Lapsed(t)
      /\ \A e \in DOMAIN Held(t) : Held(t)[e] = claims[e]
      /\ DOMAIN Resumed(t) = entries \ DOMAIN Held(t)
      /\ Resumed(t) \in [DOMAIN Resumed(t) -> Nat]
      /\ Range(list) \cap (storing \cup DOMAIN Held(t)) = {}
      /\ entries \subseteq storing \cup Range(list) \cup DOMAIN Held(t)
      /\ Range(list) = Range(pending) \cup Lapsed(t)
  BY RecoveryFacts, Zenon
<1> HIDE DEF list
<1>3. /\ DOMAIN available_at' = DOMAIN available_at \ S
      /\ DOMAIN unclaimed_deadlines' = (entries \ DOMAIN Held(t)) \ S
      /\ DOMAIN unclaimed_remaining' = DOMAIN claims \ (Lapsed(t) \cup S)
      /\ DOMAIN claims' = DOMAIN claims \ Lapsed(t)
      /\ DOMAIN claim_deadlines' = DOMAIN claim_deadlines \ Lapsed(t)
  BY <1>1, <1>2, TableFacts, Zenon DEF Without
<1>4. S \cap DOMAIN claims' = {} /\ S \subseteq Range(list)
  BY <1>1, <1>2, Zenon DEF list
<1>5. TypeOK'
  <2>1. /\ available_at' \in [DOMAIN available_at' -> Nat]
        /\ unclaimed_deadlines' \in [DOMAIN unclaimed_deadlines' -> Nat]
    BY <1>1, <1>2, Zenon DEF Without, NoEventStranded, TypeOK
  <2>2. /\ unclaimed_remaining' \in [DOMAIN unclaimed_remaining' -> Nat \ {0}]
        /\ claim_deadlines' \in [DOMAIN claim_deadlines' -> Nat]
    BY <1>1, Zenon DEF Without, NoEventStranded, TypeOK
  <2>3. claims' \in [DOMAIN claims' -> Workers]
    BY <1>1, <1>2, Zenon DEF Held, Without, NoEventStranded, TypeOK
  <2> QED BY <2>1, <2>2, <2>3, <1>1, TableFacts, Zenon DEF NoEventStranded, TypeOK
<1>6. OnePlace'
  <2>1. Range(pending') \subseteq Range(list) \ S /\ (Range(list) \ S) \cap entries \subseteq Range(pending')
    BY Zenon DEF list
  <2> QED BY <2>1, <1>1, <1>2, <1>3, <1>4, Zenon DEF NoEventStranded, OnePlace
<1>7. LifetimeTables'
  BY <1>1, <1>2, <1>3, <1>4, Zenon DEF NoEventStranded, LifetimeTables
<1> QED BY <1>5, <1>6, <1>7, Zenon DEF NoEventStranded

-------------------------------------------------------------------------------
\* astore_event: a new ID is in no other place.
LEMMA AstoreEventInv ==
    ASSUME NoEventStranded, NEW t \in Readings, NEW e \in Events, NEW life \in Lifetimes,
           AstoreEvent(e, life, t), UNCHANGED lag
    PROVE  NoEventStranded'
<1>1. /\ e \notin issued /\ issued' = issued \cup {e}
      /\ entries' = entries \cup {e} /\ storing' = storing \cup {e}
      /\ unclaimed_deadlines' = Zadd(unclaimed_deadlines, e, t + life)
      /\ UNCHANGED <<pending, available_at, unclaimed_remaining, claims, claim_deadlines, now, ended>>
  BY Zenon DEF AstoreEvent
<1>2. t + life \in Nat
  <2>1. t \in Nat /\ life \in Nat
    BY MemoryConstantsOK, TableFacts DEF Readings
  <2> QED BY <2>1
<1>3. /\ DOMAIN unclaimed_deadlines' = DOMAIN unclaimed_deadlines \cup {e}
      /\ unclaimed_deadlines' \in [DOMAIN unclaimed_deadlines' -> Nat]
  BY <1>1, <1>2, Zenon DEF Zadd, NoEventStranded, TypeOK
<1>4. IsFiniteSet(issued') /\ issued' \ entries' = issued \ entries
  BY <1>1, TableFacts, FS_AddElement
<1>5. pending' \in Seq(issued')
  BY <1>1, TableFacts
<1>6. TypeOK'
  BY <1>1, <1>3, <1>4, <1>5, Zenon DEF NoEventStranded, TypeOK
<1>7. e \notin Range(pending) /\ e \notin DOMAIN claims
  BY <1>1, TableFacts DEF Range
<1>8. OnePlace'
  BY <1>1, <1>7, Zenon DEF NoEventStranded, OnePlace
<1>9. LifetimeTables'
  BY <1>1, <1>3, <1>7, Zenon DEF NoEventStranded, LifetimeTables
<1> QED BY <1>6, <1>8, <1>9, Zenon DEF NoEventStranded

\* apush: the ID that is on its way arrives, its record there or gone.
LEMMA ApushInv ==
    ASSUME NoEventStranded, NEW e, Apush(e), UNCHANGED lag
    PROVE  NoEventStranded'
<1>1. /\ e \in storing /\ storing' = storing \ {e} /\ pending' = Append(pending, e)
      /\ UNCHANGED <<tables, now, issued, ended>>
  BY Zenon DEF Apush
<1>2. UNCHANGED <<entries, available_at, unclaimed_deadlines, unclaimed_remaining, claims,
                  claim_deadlines, now, issued, ended>>
  BY <1>1, Zenon DEF tables
<1>3. e \notin Range(pending) /\ e \notin DOMAIN claims /\ e \in issued
  BY <1>1, Zenon DEF NoEventStranded, OnePlace, TypeOK
<1>4. Range(pending') = Range(pending) \cup {e} /\ Injective(pending') /\ pending' \in Seq(issued)
  BY <1>1, <1>3, TableFacts, AppendList, SMT, SMTT(30)
<1>5. TypeOK'
  BY <1>1, <1>2, <1>4, Zenon DEF NoEventStranded, TypeOK
<1>6. OnePlace'
  BY <1>1, <1>2, <1>3, <1>4, Zenon DEF NoEventStranded, OnePlace
<1>7. LifetimeTables'
  BY <1>2, Zenon DEF NoEventStranded, LifetimeTables
<1> QED BY <1>5, <1>6, <1>7, Zenon DEF NoEventStranded

\* What adequeue does once the lapsed events back are listed again: it consumes the
\* event of it, if any, and the dead ones that it met are forgotten.
DequeueOutcome(got, t, back, it, dead) ==
    /\ it = {got} \/ (it = {} /\ got = NoEvent)
    /\ it \subseteq entries /\ it \cap dead = {}
    /\ \A e \in it : ~Dead(e, t)
    /\ \A e \in dead \cap entries : Dead(e, t)
    /\ it \cup dead \subseteq Range(pending \o back)
    /\ pending' \in Seq(issued) /\ Injective(pending')
    /\ Range(pending') = Range(pending \o back) \ (it \cup dead)
    /\ Recovered(t, it \cup dead)
    /\ ended' = [e \in DOMAIN ended \cup ((it \cup dead) \cap entries) |->
           IF e \in it THEN "consumed"
           ELSE IF e \in (it \cup dead) \cap entries THEN "expired" ELSE ended[e]]
    /\ UNCHANGED <<now, storing, issued>>

\* What adequeue does, step by step: of the events that it passes over it lists
\* those again that wait.
LEMMA AdequeueCases ==
    ASSUME NoEventStranded, NEW t \in Readings, NEW got, Adequeue(got, t)
    PROVE  \E back \in Returned(t) : \E it, dead \in SUBSET issued : DequeueOutcome(got, t, back, it, dead)
<1>a. PICK back \in Returned(t) : \E n \in 1 .. Len(pending \o back) + 1 :
        LET list == pending \o back
            skipped == {e \in Range(list) : Waiting(e, t) \/ e \in DOMAIN Held(t)}
            dead == {e \in Range(list) \ skipped : e \notin entries \/ Dead(e, t)}
            passed == SubSeq(list, 1, n - 1)
            it == IF n > Len(list) THEN {} ELSE {list[n]}
            out == it \cup (dead \cap Range(passed))
        IN
        /\ FirstOutside(list, skipped \cup dead, n)
        /\ got = IF it = {} THEN NoEvent ELSE list[n]
        /\ pending' = SubSeq(list, n + 1, Len(list)) \o Keep(passed, skipped)
        /\ Recovered(t, out)
        /\ ended' = [e \in DOMAIN ended \cup (out \cap entries) |->
               IF e \in it THEN "consumed"
               ELSE IF e \in out \cap entries THEN "expired" ELSE ended[e]]
        /\ UNCHANGED <<now, storing, issued>>
  BY Zenon DEF Adequeue
<1> DEFINE list == pending \o back
           skipped == {e \in Range(list) : Waiting(e, t) \/ e \in DOMAIN Held(t)}
           dead == {e \in Range(list) \ skipped : e \notin entries \/ Dead(e, t)}
<1>b. PICK n \in 1 .. Len(list) + 1 :
        LET passed == SubSeq(list, 1, n - 1)
            it == IF n > Len(list) THEN {} ELSE {list[n]}
            out == it \cup (dead \cap Range(passed))
        IN
        /\ FirstOutside(list, skipped \cup dead, n)
        /\ got = IF it = {} THEN NoEvent ELSE list[n]
        /\ pending' = SubSeq(list, n + 1, Len(list)) \o Keep(passed, skipped)
        /\ Recovered(t, out)
        /\ ended' = [e \in DOMAIN ended \cup (out \cap entries) |->
               IF e \in it THEN "consumed"
               ELSE IF e \in out \cap entries THEN "expired" ELSE ended[e]]
        /\ UNCHANGED <<now, storing, issued>>
  BY <1>a, Zenon
<1> DEFINE passed == SubSeq(list, 1, n - 1)
           behind == SubSeq(list, n + 1, Len(list))
           it == IF n > Len(list) THEN {} ELSE {list[n]}
           out == it \cup (dead \cap Range(passed))
<1>1. /\ FirstOutside(list, skipped \cup dead, n)
      /\ got = IF it = {} THEN NoEvent ELSE list[n]
      /\ pending' = behind \o Keep(passed, skipped)
      /\ Recovered(t, out)
      /\ ended' = [e \in DOMAIN ended \cup (out \cap entries) |->
             IF e \in it THEN "consumed"
             ELSE IF e \in out \cap entries THEN "expired" ELSE ended[e]]
      /\ UNCHANGED <<now, storing, issued>>
      /\ n \in 1 .. Len(list) + 1
  BY <1>b, Zenon
<1>2. list \in Seq(issued) /\ Injective(list)
  BY RecoveryFacts, Zenon
<1>3. /\ dead \cap skipped = {}
      /\ \A e \in dead \cap entries : Dead(e, t)
      /\ \A e \in Range(list) \ (skipped \cup dead) : e \in entries /\ ~Dead(e, t)
  BY Zenon
<1> HIDE DEF list, skipped, dead
<1>4. /\ passed \in Seq(issued) /\ behind \in Seq(issued)
      /\ Range(list) = Range(passed) \cup it \cup Range(behind)
      /\ Injective(passed) /\ Injective(behind)
      /\ Range(passed) \cap (it \cup Range(behind)) = {} /\ it \cap Range(behind) = {}
  BY <1>1, <1>2, SplitList, Zenon
<1>5. Range(passed) \subseteq skipped \cup dead
  <2>1. DOMAIN passed = 1 .. (n - 1) /\ \A i \in 1 .. (n - 1) : passed[i] = list[i]
    BY <1>1, <1>2, SMT, SMTT(30)
  <2> HIDE DEF passed
  <2> QED BY <2>1, <1>1, Zenon DEF FirstOutside, Range
<1>10. it \cap (skipped \cup dead) = {} /\ (it = {got} \/ (it = {} /\ got = NoEvent))
  <2>1. n <= Len(list) => list[n] \notin skipped \cup dead
    BY <1>1, Zenon DEF FirstOutside
  <2>2. n > Len(list) \/ n <= Len(list)
    BY <1>1, <1>2
  <2>3. CASE n > Len(list)
    BY <1>1, <2>3, Zenon
  <2>4. CASE ~(n > Len(list))
    <3>1. it = {list[n]} /\ list[n] \notin skipped \cup dead
      BY <2>1, <2>2, <2>4, Zenon
    <3>2. got = list[n]
      BY <1>1, <3>1, Zenon
    <3> HIDE DEF it
    <3> QED BY <3>1, <3>2, Zenon
  <2> QED BY <2>3, <2>4, Zenon
<1> HIDE DEF passed, behind, it
<1>6. /\ Keep(passed, skipped) \in Seq(issued) /\ Injective(Keep(passed, skipped))
      /\ Range(Keep(passed, skipped)) = Range(passed) \cap skipped
  BY <1>4, KeepList
<1>7. /\ pending' \in Seq(issued) /\ Injective(pending')
      /\ Range(pending') = Range(behind) \cup (Range(passed) \cap skipped)
  <2>1. Range(behind) \cap Range(Keep(passed, skipped)) = {}
    BY <1>4, <1>6, Zenon
  <2> QED BY <2>1, <1>1, <1>4, <1>6, ConcatSame
<1>8. Range(pending') = Range(list) \ out /\ out \subseteq Range(list)
  <2>1. Range(passed) \cap skipped = Range(passed) \ out
    BY <1>3, <1>4, <1>5, Zenon
  <2>2. Range(behind) \cap out = {}
    BY <1>4, Zenon
  <2> QED BY <1>4, <1>7, <2>1, <2>2, Zenon
<1> DEFINE gone == dead \cap Range(passed)
<1>11. it \subseteq Range(list) \ (skipped \cup dead)
  BY <1>4, <1>10, Zenon
<1>12. it \in SUBSET issued /\ gone \in SUBSET issued
  BY <1>2, <1>4 DEF Range
<1>13. DequeueOutcome(got, t, back, it, gone)
  <2>1. it \subseteq entries /\ it \cap gone = {} /\ \A e \in it : ~Dead(e, t)
    BY <1>3, <1>11, Zenon
  <2>2. \A e \in gone \cap entries : Dead(e, t)
    BY <1>3, Zenon
  <2> HIDE DEF gone
  <2>3. out = it \cup gone
    BY Zenon DEF gone
  <2> HIDE DEF out
  <2> QED BY <1>1, <1>7, <1>8, <1>10, <2>1, <2>2, <2>3, Zenon DEF DequeueOutcome, list
<1> HIDE DEF gone
<1> QED BY <1>12, <1>13, Zenon

\* adequeue: what it passes over is listed again or forgotten altogether.
LEMMA AdequeueInv ==
    ASSUME NoEventStranded, NEW t \in Readings, NEW got, Adequeue(got, t), UNCHANGED lag
    PROVE  NoEventStranded'
<1>a. PICK back \in Returned(t) : \E it, dead \in SUBSET issued : DequeueOutcome(got, t, back, it, dead)
  BY AdequeueCases, Zenon
<1>b. PICK it, dead \in SUBSET issued : DequeueOutcome(got, t, back, it, dead)
  BY <1>a, Zenon
<1> DEFINE out == it \cup dead
<1>1. /\ out \subseteq Range(pending \o back)
      /\ pending' \in Seq(issued) /\ Injective(pending')
      /\ Range(pending') = Range(pending \o back) \ out
      /\ Recovered(t, out)
      /\ ended' = [e \in DOMAIN ended \cup (out \cap entries) |->
             IF e \in it THEN "consumed" ELSE IF e \in out \cap entries THEN "expired" ELSE ended[e]]
      /\ UNCHANGED <<now, storing, issued>>
  BY <1>b, Zenon DEF DequeueOutcome
<1>2. ended' \in [issued \ (entries \ out) -> {"consumed", "expired", "cleared"}]
  <2>1. out \subseteq issued /\ it \subseteq out
    BY Zenon
  <2>2. DOMAIN ended \cup (out \cap entries) = issued \ (entries \ out)
    BY <2>1, TableFacts, Zenon DEF NoEventStranded, TypeOK
  <2>3. \A e \in DOMAIN ended : ended[e] \in {"consumed", "expired", "cleared"}
    BY Zenon DEF NoEventStranded, TypeOK
  <2> HIDE DEF out
  <2>4. \A e \in issued \ (entries \ out) : e \in DOMAIN ended \/ e \in out \cap entries
    BY <2>2, Zenon
  <2> QED BY <1>1, <2>2, <2>3, <2>4, Zenon
<1> HIDE DEF out
<1> QED BY <1>1, <1>2, RecoveredInv, Zenon

\* What _aclaim does once the lapsed events back are listed again: it takes the
\* event of it, if any, off the list and discards it, deletes it or claims it.
ClaimOutcome(w, lease, got, t, back, rest, it) ==
    /\ Injective(rest) /\ Range(rest) = Range(pending \o back) \ it
    /\ it \subseteq Range(pending \o back)
    /\ pending' = rest
    /\ \/ it \cap entries = {} /\ got = NoEvent /\ Recovered(t, {}) /\ ended' = ended
       \/ \E e \in entries :
             it = {e} /\ Dead(e, t) /\ got = NoEvent /\ Recovered(t, {e}) /\ End({e}, "expired")
       \/ \E e \in entries :
             it = {e} /\ ~Dead(e, t) /\ got = e /\ Claimed(w, e, lease, t) /\ UNCHANGED <<entries, ended>>
    /\ UNCHANGED <<now, storing, issued>>

\* What _aclaim does, step by step: the waiting events go to the far end, and the
\* first other one is dropped, passed over, discarded or claimed.
LEMMA AclaimCases ==
    ASSUME NoEventStranded, NEW t \in Readings, NEW w, NEW lease, NEW got, Aclaim(w, lease, got, t)
    PROVE  \E back \in Returned(t) : \E rest \in Seq(issued), it \in SUBSET issued :
              ClaimOutcome(w, lease, got, t, back, rest, it)
<1>a. PICK back \in Returned(t) : \E n \in 1 .. Len(pending \o back) + 1 :
        LET list == pending \o back
            rest == SubSeq(list, n + 1, Len(list)) \o SubSeq(list, 1, n - 1)
            e == list[n]
        IN
        /\ IF n > Len(list) \/ e \notin entries
           THEN got = NoEvent /\ pending' = rest /\ Recovered(t, {}) /\ UNCHANGED ended
           ELSE IF e \in DOMAIN Held(t)
           THEN /\ got = NoEvent /\ pending' = Append(rest, e)
                /\ Recovered(t, {}) /\ UNCHANGED ended
           ELSE IF Dead(e, t)
           THEN got = NoEvent /\ pending' = rest /\ Recovered(t, {e}) /\ End({e}, "expired")
           ELSE got = e /\ pending' = rest /\ Claimed(w, e, lease, t) /\ UNCHANGED <<entries, ended>>
        /\ UNCHANGED <<now, storing, issued>>
  BY Zenon DEF Aclaim
<1> DEFINE list == pending \o back
<1>b. PICK n \in 1 .. Len(list) + 1 :
        LET rest == SubSeq(list, n + 1, Len(list)) \o SubSeq(list, 1, n - 1)
            e == list[n]
        IN
        /\ IF n > Len(list) \/ e \notin entries
           THEN got = NoEvent /\ pending' = rest /\ Recovered(t, {}) /\ UNCHANGED ended
           ELSE IF e \in DOMAIN Held(t)
           THEN /\ got = NoEvent /\ pending' = Append(rest, e)
                /\ Recovered(t, {}) /\ UNCHANGED ended
           ELSE IF Dead(e, t)
           THEN got = NoEvent /\ pending' = rest /\ Recovered(t, {e}) /\ End({e}, "expired")
           ELSE got = e /\ pending' = rest /\ Claimed(w, e, lease, t) /\ UNCHANGED <<entries, ended>>
        /\ UNCHANGED <<now, storing, issued>>
  BY <1>a, Zenon
<1> DEFINE passed == SubSeq(list, 1, n - 1)
           behind == SubSeq(list, n + 1, Len(list))
           it == IF n > Len(list) THEN {} ELSE {list[n]}
           rest == behind \o passed
           e == list[n]
<1>0. n \in 1 .. Len(list) + 1
  BY <1>b, Zenon
<1>1. list \in Seq(issued) /\ Injective(list) /\ Range(list) \cap DOMAIN Held(t) = {}
  BY RecoveryFacts, Zenon
<1>2. /\ passed \in Seq(issued) /\ behind \in Seq(issued) /\ it \subseteq issued
      /\ Range(list) = Range(passed) \cup it \cup Range(behind)
      /\ Injective(passed) /\ Injective(behind)
      /\ Range(passed) \cap (it \cup Range(behind)) = {} /\ it \cap Range(behind) = {}
  <2> HIDE DEF list
  <2>1. /\ passed \in Seq(issued) /\ behind \in Seq(issued) /\ it \subseteq issued
        /\ Range(list) = Range(passed) \cup it \cup Range(behind)
        /\ Injective(list) => /\ Injective(passed) /\ Injective(behind)
                              /\ Range(passed) \cap (it \cup Range(behind)) = {} /\ it \cap Range(behind) = {}
    BY <1>0, <1>1, SplitList, Zenon
  <2> HIDE DEF passed, behind, it
  <2> QED BY <1>1, <2>1, Zenon
<1>3. rest \in Seq(issued) /\ Injective(rest) /\ Range(rest) = Range(list) \ it /\ it \subseteq Range(list)
  <2> HIDE DEF list, passed, behind, it
  <2>1. Range(behind) \cap Range(passed) = {}
    BY <1>2, Zenon
  <2>2. rest \in Seq(issued) /\ Injective(rest) /\ Range(rest) = Range(behind) \cup Range(passed)
    BY <1>2, <2>1, ConcatSame
  <2> QED BY <1>2, <2>2, Zenon
<1>4. UNCHANGED <<now, storing, issued>>
  BY <1>b, ZenonT(30)
<1>5. ClaimOutcome(w, lease, got, t, back, rest, it)
  <2>1. CASE n > Len(list) \/ e \notin entries
    <3>1. got = NoEvent /\ pending' = rest /\ Recovered(t, {}) /\ ended' = ended
      BY <1>b, <2>1, Zenon
    <3>2. it \cap entries = {}
      BY <2>1, Zenon
    <3> HIDE DEF it, rest
    <3> QED BY <3>1, <3>2, <1>3, <1>4, Zenon DEF ClaimOutcome
  <2>2. CASE ~(n > Len(list) \/ e \notin entries)
    <3>1. it = {e} /\ e \in entries
      BY <2>2, Zenon
    <3>2. e \notin DOMAIN Held(t)
      BY <3>1, <1>1, <1>3, Zenon
    <3>3. CASE Dead(e, t)
      <4>1. got = NoEvent /\ pending' = rest /\ Recovered(t, {e}) /\ End({e}, "expired")
        BY <1>b, <2>2, <3>2, <3>3, Zenon
      <4> HIDE DEF it, rest, e
      <4> QED BY <4>1, <3>1, <3>3, <1>3, <1>4, Zenon DEF ClaimOutcome
    <3>4. CASE ~Dead(e, t)
      <4>1. got = e /\ pending' = rest /\ Claimed(w, e, lease, t) /\ UNCHANGED <<entries, ended>>
        BY <1>b, <2>2, <3>2, <3>4, Zenon
      <4> HIDE DEF it, rest, e
      <4> QED BY <4>1, <3>1, <3>4, <1>3, <1>4, Zenon DEF ClaimOutcome
    <3> QED BY <3>3, <3>4, Zenon
  <2> QED BY <2>1, <2>2, Zenon
<1>6. it \in SUBSET issued
  BY <1>2, Zenon
<1> HIDE DEF rest, it
<1> QED BY <1>3, <1>5, <1>6, Zenon

\* _aclaim: an event is claimed, discarded if its time is up, or stays listed.
LEMMA AclaimInv ==
    ASSUME NoEventStranded, NEW t \in Readings, NEW w \in Workers, NEW lease \in Leases \cup {NoLease},
           NEW got, Aclaim(w, lease, got, t), UNCHANGED lag
    PROVE  NoEventStranded'
<1>a. PICK back \in Returned(t) : \E rest \in Seq(issued), it \in SUBSET issued :
        ClaimOutcome(w, lease, got, t, back, rest, it)
  BY AclaimCases, Zenon
<1>b. PICK rest \in Seq(issued), it \in SUBSET issued : ClaimOutcome(w, lease, got, t, back, rest, it)
  BY <1>a, Zenon
<1> DEFINE list == pending \o back
<1>c. /\ Injective(rest) /\ Range(rest) = Range(list) \ it
      /\ it \subseteq Range(list)
      /\ pending' = rest
      /\ \/ it \cap entries = {} /\ got = NoEvent /\ Recovered(t, {}) /\ ended' = ended
         \/ \E e \in entries :
               it = {e} /\ Dead(e, t) /\ got = NoEvent /\ Recovered(t, {e}) /\ End({e}, "expired")
         \/ \E e \in entries :
               it = {e} /\ ~Dead(e, t) /\ got = e /\ Claimed(w, e, lease, t) /\ UNCHANGED <<entries, ended>>
      /\ UNCHANGED <<now, storing, issued>>
  BY <1>b, Zenon DEF ClaimOutcome
<1>1. /\ Injective(rest) /\ Range(rest) = Range(list) \ it /\ it \subseteq Range(list)
      /\ rest \in Seq(issued) /\ pending' = rest /\ UNCHANGED <<now, storing, issued>>
  BY <1>c, Zenon
<1>2. ASSUME it \cap entries = {}, Recovered(t, {}), ended' = ended
      PROVE  NoEventStranded'
  <2>1. ended' \in [issued \ (entries \ {}) -> {"consumed", "expired", "cleared"}]
    BY <1>2, Zenon DEF NoEventStranded, TypeOK
  <2>2. /\ Range(pending') \subseteq Range(list) \ {}
        /\ (Range(list) \ {}) \cap entries \subseteq Range(pending')
    BY <1>1, <1>2, Zenon
  <2> QED BY <1>1, <1>2, <2>1, <2>2, RecoveredInv, Zenon
<1>3. ASSUME NEW e \in entries, it = {e}, Recovered(t, {e}), End({e}, "expired")
      PROVE  NoEventStranded'
  <2>1. ended' \in [issued \ (entries \ {e}) -> {"consumed", "expired", "cleared"}]
    <3>1. ended \in [issued \ entries -> {"consumed", "expired", "cleared"}]
      BY Zenon DEF NoEventStranded, TypeOK
    <3>2. (issued \ entries) \cup {e} = issued \ (entries \ {e})
      BY TableFacts, Zenon
    <3> QED BY <1>3, <3>1, <3>2, Zenon DEF End
  <2>2. /\ Range(pending') = Range(list) \ {e} /\ {e} \subseteq Range(list)
    BY <1>1, <1>3, Zenon
  <2> QED BY <1>1, <1>3, <2>1, <2>2, RecoveredInv, Zenon
<1>4. ASSUME NEW e \in entries, it = {e}, ~Dead(e, t),
             Claimed(w, e, lease, t), UNCHANGED <<entries, ended>>
      PROVE  NoEventStranded'
  <2>1. /\ t \in Nat
        /\ Lapsed(t) \subseteq DOMAIN claim_deadlines
        /\ DOMAIN Held(t) = DOMAIN claims \ Lapsed(t)
        /\ DOMAIN Resumed(t) = entries \ DOMAIN Held(t)
        /\ Resumed(t) \in [DOMAIN Resumed(t) -> Nat]
        /\ Range(list) \cap (storing \cup DOMAIN Held(t)) = {}
        /\ entries \subseteq storing \cup Range(list) \cup DOMAIN Held(t)
        /\ Range(list) = Range(pending) \cup Lapsed(t)
    BY RecoveryFacts, ZenonT(30)
  <2> HIDE DEF list
  <2> DEFINE kept == Without(claim_deadlines, Lapsed(t))
             left_over == Without(unclaimed_remaining, Lapsed(t))
  <2>2. /\ unclaimed_deadlines' = Without(Resumed(t), {e})
        /\ unclaimed_remaining' = Zadd(left_over, e, Resumed(t)[e] - t)
        /\ available_at' = Without(available_at, {e})
        /\ claims' = Zadd(Held(t), e, w)
        /\ claim_deadlines' = IF lease = NoLease THEN kept ELSE Zadd(kept, e, t + lease)
    BY <1>4, Zenon DEF Claimed
  <2>3. e \in Range(list) /\ e \notin DOMAIN Held(t) /\ e \notin storing
    BY <1>1, <1>4, <2>1, Zenon
  <2>4. Resumed(t)[e] - t \in Nat \ {0}
    <3>1. Resumed(t)[e] \in Nat /\ ~(Resumed(t)[e] <= t)
      BY <1>4, <2>1, <2>3, Zenon DEF Dead
    <3> QED BY <3>1, <2>1
  <2>5. lease # NoLease => t + lease \in Nat
    BY <2>1, MemoryConstantsOK, SMT, SMTT(30)
  <2>6. /\ DOMAIN kept = DOMAIN claim_deadlines \ Lapsed(t) /\ kept \in [DOMAIN kept -> Nat]
        /\ DOMAIN left_over = DOMAIN claims \ Lapsed(t)
        /\ left_over \in [DOMAIN left_over -> Nat \ {0}]
    BY TableFacts, Zenon DEF Without, NoEventStranded, TypeOK
  <2> HIDE DEF kept, left_over
  <2>7. /\ DOMAIN unclaimed_deadlines' = (entries \ DOMAIN Held(t)) \ {e}
        /\ DOMAIN unclaimed_remaining' = DOMAIN Held(t) \cup {e}
        /\ DOMAIN available_at' = DOMAIN available_at \ {e}
        /\ DOMAIN claims' = DOMAIN Held(t) \cup {e}
    BY <2>1, <2>2, <2>6, Zenon DEF Without, Zadd
  <2>8. DOMAIN claim_deadlines' \subseteq DOMAIN Held(t) \cup {e}
    BY <2>1, <2>2, <2>6, TableFacts, Zenon DEF Zadd
  <2>9. TypeOK'
    <3>1. /\ unclaimed_deadlines' \in [DOMAIN unclaimed_deadlines' -> Nat]
          /\ available_at' \in [DOMAIN available_at' -> Nat]
      BY <2>1, <2>2, Zenon DEF Without, NoEventStranded, TypeOK
    <3>2. unclaimed_remaining' \in [DOMAIN unclaimed_remaining' -> Nat \ {0}]
      BY <2>2, <2>4, <2>6, Zenon DEF Zadd
    <3>3. claims' \in [DOMAIN claims' -> Workers]
      BY <2>2, Zenon DEF Zadd, Held, Without, NoEventStranded, TypeOK
    <3>4. claim_deadlines' \in [DOMAIN claim_deadlines' -> Nat]
      BY <2>2, <2>5, <2>6, Zenon DEF Zadd
    <3> QED BY <3>1, <3>2, <3>3, <3>4, <1>1, <1>4, TableFacts, Zenon DEF NoEventStranded, TypeOK
  <2>10. OnePlace'
    <3>1. Range(pending') = Range(list) \ {e} /\ Injective(pending')
      BY <1>1, <1>4, Zenon
    <3> QED BY <3>1, <1>1, <1>4, <2>1, <2>3, <2>7, TableFacts, Zenon DEF NoEventStranded, OnePlace
  <2>11. LifetimeTables'
    BY <1>4, <2>1, <2>7, <2>8, Zenon DEF NoEventStranded, LifetimeTables
  <2> QED BY <2>9, <2>10, <2>11, Zenon DEF NoEventStranded
<1> QED BY <1>c, <1>2, <1>3, <1>4, Zenon

\* arenew: recovery, and a new deadline for a claim of the caller.
LEMMA ArenewInv ==
    ASSUME NoEventStranded, NEW t \in Readings, NEW w, NEW e, NEW lease \in Leases,
           Arenew(w, e, lease, t), UNCHANGED lag
    PROVE  NoEventStranded'
<1> DEFINE kept == Without(claim_deadlines, Lapsed(t))
<1>a. PICK back \in Returned(t) :
        /\ pending' = pending \o back
        /\ UNCHANGED <<entries, available_at, now, storing, issued, ended>>
        /\ unclaimed_deadlines' = Resumed(t)
        /\ unclaimed_remaining' = Without(unclaimed_remaining, Lapsed(t))
        /\ claims' = Held(t)
        /\ claim_deadlines' = IF e \in DOMAIN Held(t) /\ claims[e] = w THEN Zadd(kept, e, t + lease) ELSE kept
  BY Zenon DEF Arenew
<1> DEFINE list == pending \o back
<1>1. /\ t \in Nat
      /\ list \in Seq(issued) /\ Injective(list)
      /\ Lapsed(t) \subseteq DOMAIN claim_deadlines
      /\ DOMAIN Held(t) = DOMAIN claims \ Lapsed(t)
      /\ DOMAIN Resumed(t) = entries \ DOMAIN Held(t)
      /\ Resumed(t) \in [DOMAIN Resumed(t) -> Nat]
      /\ Range(list) \cap (storing \cup DOMAIN Held(t)) = {}
      /\ entries \subseteq storing \cup Range(list) \cup DOMAIN Held(t)
  BY RecoveryFacts, Zenon
<1>2. pending' = list
  BY <1>a, Zenon
<1> HIDE DEF list
<1>3. t + lease \in Nat
  BY <1>1, MemoryConstantsOK
<1>4. DOMAIN kept = DOMAIN claim_deadlines \ Lapsed(t) /\ kept \in [DOMAIN kept -> Nat]
  BY Zenon DEF Without, NoEventStranded, TypeOK
<1> HIDE DEF kept
<1>5. DOMAIN claim_deadlines' \subseteq DOMAIN Held(t) /\ claim_deadlines' \in [DOMAIN claim_deadlines' -> Nat]
  BY <1>a, <1>1, <1>3, <1>4, TableFacts, Zenon DEF Zadd
<1>6. DOMAIN unclaimed_remaining' = DOMAIN Held(t)
  BY <1>a, <1>1, TableFacts, Zenon DEF Without
<1>7. TypeOK'
  <2>1. unclaimed_remaining' \in [DOMAIN unclaimed_remaining' -> Nat \ {0}]
    BY <1>a, Zenon DEF Without, NoEventStranded, TypeOK
  <2>2. claims' \in [DOMAIN claims' -> Workers]
    BY <1>a, Zenon DEF Held, Without, NoEventStranded, TypeOK
  <2> QED BY <2>1, <2>2, <1>a, <1>1, <1>2, <1>5, Zenon DEF NoEventStranded, TypeOK
<1>8. OnePlace'
  BY <1>a, <1>1, <1>2, TableFacts, Zenon DEF NoEventStranded, OnePlace
<1>9. LifetimeTables'
  BY <1>a, <1>1, <1>5, <1>6, Zenon DEF NoEventStranded, LifetimeTables
<1> QED BY <1>7, <1>8, <1>9, Zenon DEF NoEventStranded

\* arelease: the claim gives way to a deadline, a delay and a place in the list.
LEMMA AreleaseInv ==
    ASSUME NoEventStranded, NEW t \in Readings, NEW w, NEW e, NEW delay \in Delays,
           Arelease(w, e, delay, t), UNCHANGED lag
    PROVE  NoEventStranded'
<1>1. /\ e \in DOMAIN claims
      /\ claims' = Without(claims, {e})
      /\ claim_deadlines' = Without(claim_deadlines, {e})
      /\ unclaimed_remaining' = Without(unclaimed_remaining, {e})
      /\ unclaimed_deadlines' = Zadd(unclaimed_deadlines, e, t + unclaimed_remaining[e])
      /\ available_at' = Zadd(available_at, e, t + delay)
      /\ pending' = Append(pending, e)
      /\ UNCHANGED <<entries, now, storing, issued, ended>>
  BY Zenon DEF Arelease, Owns
<1>2. t + delay \in Nat /\ t + unclaimed_remaining[e] \in Nat
  <2>1. t \in Nat /\ delay \in Nat
    BY TableFacts, MemoryConstantsOK, SMT, SMTT(30) DEF Readings
  <2>2. unclaimed_remaining[e] \in Nat
    BY <1>1, TableFacts, Zenon DEF NoEventStranded, TypeOK
  <2> QED BY <2>1, <2>2
<1>3. /\ DOMAIN claims' = DOMAIN claims \ {e}
      /\ DOMAIN claim_deadlines' = DOMAIN claim_deadlines \ {e}
      /\ DOMAIN unclaimed_remaining' = DOMAIN unclaimed_remaining \ {e}
      /\ DOMAIN unclaimed_deadlines' = DOMAIN unclaimed_deadlines \cup {e}
      /\ DOMAIN available_at' = DOMAIN available_at \cup {e}
  BY <1>1, ZenonT(30) DEF Without, Zadd
<1>4. e \in issued /\ e \in entries /\ e \notin Range(pending)
  BY <1>1, TableFacts, ZenonT(30)
<1>5. Range(pending') = Range(pending) \cup {e} /\ Injective(pending') /\ pending' \in Seq(issued)
  BY <1>1, <1>4, TableFacts, AppendList
<1>6. TypeOK'
  <2>1. /\ claims' \in [DOMAIN claims' -> Workers]
        /\ claim_deadlines' \in [DOMAIN claim_deadlines' -> Nat]
        /\ unclaimed_remaining' \in [DOMAIN unclaimed_remaining' -> Nat \ {0}]
    BY <1>1, Zenon DEF Without, NoEventStranded, TypeOK
  <2>2. /\ unclaimed_deadlines' \in [DOMAIN unclaimed_deadlines' -> Nat]
        /\ available_at' \in [DOMAIN available_at' -> Nat]
    BY <1>1, <1>2, Zenon DEF Zadd, NoEventStranded, TypeOK
  <2> QED BY <1>1, <1>5, <2>1, <2>2, Zenon DEF NoEventStranded, TypeOK
<1>7. e \in DOMAIN claims /\ UNCHANGED <<entries, storing>>
  BY <1>1, Zenon
<1>8. OnePlace'
  BY <1>3, <1>4, <1>5, <1>7, SMT, SMTT(30) DEF NoEventStranded, OnePlace
<1>9. LifetimeTables'
  BY <1>3, <1>4, <1>7 DEF NoEventStranded, LifetimeTables
<1> QED BY <1>6, <1>8, <1>9, Zenon DEF NoEventStranded

\* Every table forgets the events S, their claims included.
LEMMA ForgetInv ==
    ASSUME NoEventStranded, NEW S, NEW how \in {"consumed", "expired", "cleared"}, Forget(S, how),
           claims' = Without(claims, S), claim_deadlines' = Without(claim_deadlines, S),
           UNCHANGED lag
    PROVE  NoEventStranded'
<1>1. /\ entries' = entries \ S
      /\ available_at' = Without(available_at, S)
      /\ unclaimed_deadlines' = Without(unclaimed_deadlines, S)
      /\ unclaimed_remaining' = Without(unclaimed_remaining, S)
      /\ pending' = Keep(pending, Events \ S)
      /\ ended' = [e \in DOMAIN ended \cup (S \cap entries) |-> IF e \in S \cap entries THEN how ELSE ended[e]]
      /\ UNCHANGED <<now, storing, issued>>
  BY Zenon DEF Forget, End
<1>2. /\ DOMAIN claims' = DOMAIN claims \ S
      /\ DOMAIN claim_deadlines' = DOMAIN claim_deadlines \ S
      /\ DOMAIN unclaimed_remaining' = DOMAIN unclaimed_remaining \ S
      /\ DOMAIN unclaimed_deadlines' = DOMAIN unclaimed_deadlines \ S
      /\ DOMAIN available_at' = DOMAIN available_at \ S
  BY <1>1, Zenon DEF Without
<1>3. Range(pending') = Range(pending) \ S /\ Injective(pending') /\ pending' \in Seq(issued)
  <2>1. Range(pending) \subseteq Events
    BY TableFacts, SMT, SMTT(30) DEF Range
  <2>2. /\ pending' \in Seq(issued) /\ Injective(pending')
        /\ Range(pending') = Range(pending) \cap (Events \ S)
    BY <1>1, TableFacts, KeepList, Zenon
  <2> QED BY <2>1, <2>2, Zenon
<1>4. TypeOK'
  <2>1. /\ claims' \in [DOMAIN claims' -> Workers]
        /\ claim_deadlines' \in [DOMAIN claim_deadlines' -> Nat]
        /\ unclaimed_remaining' \in [DOMAIN unclaimed_remaining' -> Nat \ {0}]
    BY Zenon DEF Without, NoEventStranded, TypeOK, Forget
  <2>2. /\ unclaimed_deadlines' \in [DOMAIN unclaimed_deadlines' -> Nat]
        /\ available_at' \in [DOMAIN available_at' -> Nat]
    BY <1>1, Zenon DEF Without, NoEventStranded, TypeOK
  <2>3. ended' \in [issued' \ entries' -> {"consumed", "expired", "cleared"}]
    <3>1. ended \in [issued \ entries -> {"consumed", "expired", "cleared"}]
      BY Zenon DEF NoEventStranded, TypeOK
    <3>2. (issued \ entries) \cup (S \cap entries) = issued' \ entries'
      BY <1>1, TableFacts, Zenon
    <3> QED BY <1>1, <3>1, <3>2, Zenon
  <2> QED BY <1>1, <1>3, <2>1, <2>2, <2>3, TableFacts, Zenon DEF NoEventStranded, TypeOK
<1>5. OnePlace'
  BY <1>1, <1>2, <1>3, ZenonT(30) DEF NoEventStranded, OnePlace
<1>6. LifetimeTables'
  BY <1>1, <1>2, ZenonT(30) DEF NoEventStranded, LifetimeTables
<1> QED BY <1>4, <1>5, <1>6, Zenon DEF NoEventStranded

\* aexpire_due and aexpire: what has no claim is forgotten, and no claim with it.
LEMMA ForgetUnclaimedInv ==
    ASSUME NoEventStranded, NEW S, S \cap DOMAIN claims = {},
           NEW how \in {"consumed", "expired", "cleared"}, Forget(S, how),
           UNCHANGED <<claims, claim_deadlines, lag>>
    PROVE  NoEventStranded'
<1>1. claims \in [DOMAIN claims -> Workers] /\ claim_deadlines \in [DOMAIN claim_deadlines -> Nat]
  BY Zenon DEF NoEventStranded, TypeOK
<1>2. S \cap DOMAIN claim_deadlines = {}
  BY TableFacts, Zenon
<1>3. Without(claims, S) = claims /\ Without(claim_deadlines, S) = claim_deadlines
  BY <1>1, <1>2, Zenon DEF Without
<1> QED BY <1>3, ForgetInv, Zenon

-------------------------------------------------------------------------------
LEMMA InitInv == Init => NoEventStranded
<1> SUFFICES ASSUME Init PROVE NoEventStranded
  BY Zenon
<1>1. /\ entries = {} /\ pending = <<>> /\ available_at = <<>>
      /\ unclaimed_deadlines = <<>> /\ unclaimed_remaining = <<>>
      /\ claims = <<>> /\ claim_deadlines = <<>>
      /\ now = 0 /\ lag \in Lags /\ storing = {} /\ issued = {} /\ ended = <<>>
  BY Zenon DEF Init
<1>2. IsFiniteSet(issued)
  BY <1>1, FS_EmptySet, Zenon
<1>3. \A S : <<>> \in [{} -> S]
  OBVIOUS
<1>4. DOMAIN <<>> = {}
  OBVIOUS
<1>5. pending \in Seq(issued) /\ Injective(pending) /\ Range(pending) = {}
  BY <1>1, <1>4 DEF Injective, Range
<1>6. TypeOK
  BY <1>1, <1>2, <1>3, <1>4, <1>5, Zenon DEF TypeOK
<1>7. OnePlace /\ LifetimeTables
  BY <1>1, <1>4, <1>5, Zenon DEF OnePlace, LifetimeTables
<1> QED BY <1>6, <1>7, Zenon DEF NoEventStranded

\* Whatever a user of the claims calls.
LEMMA WorkerCallInv ==
    ASSUME NoEventStranded, NEW t \in Readings, NEW w \in Workers, WorkerCall(w, t), UNCHANGED lag
    PROVE  NoEventStranded'
<1>1. ASSUME NEW lease \in Leases \cup {NoLease}, NEW got, Aclaim(w, lease, got, t)
      PROVE  NoEventStranded'
  BY <1>1, AclaimInv, Zenon
<1>2. ASSUME NEW e, NEW lease \in Leases, Arenew(w, e, lease, t) PROVE NoEventStranded'
  BY <1>2, ArenewInv, Zenon
<1>3. ASSUME NEW e, NEW delay \in Delays, Arelease(w, e, delay, t) PROVE NoEventStranded'
  BY <1>3, AreleaseInv, Zenon
<1>4. ASSUME NEW e, Aremove(w, e) PROVE NoEventStranded'
  BY <1>4, ForgetInv, Zenon DEF Aremove, Unclaim
<1> QED BY <1>1, <1>2, <1>3, <1>4, Zenon DEF WorkerCall

\* Whatever a thread calls that produces, consumes directly, looks or clears.
LEMMA ThreadCallInv ==
    ASSUME NoEventStranded, NEW t \in Readings, ThreadCall(t), UNCHANGED lag
    PROVE  NoEventStranded'
<1>1. ASSUME NEW e \in Events, NEW life \in Lifetimes, AstoreEvent(e, life, t) PROVE NoEventStranded'
  BY <1>1, AstoreEventInv, Zenon
<1>2. ASSUME NEW e, Apush(e) PROVE NoEventStranded'
  BY <1>2, ApushInv, Zenon
<1>3. ASSUME NEW got, Adequeue(got, t) PROVE NoEventStranded'
  BY <1>3, AdequeueInv, Zenon
<1>4. ASSUME AexpireDue(t) PROVE NoEventStranded'
  <2>1. (DueAt(unclaimed_deadlines, t) \ DOMAIN claims) \cap DOMAIN claims = {}
    BY Zenon
  <2> QED BY <1>4, <2>1, ForgetUnclaimedInv, Zenon DEF AexpireDue
<1>5. ASSUME NEW e, Aexpire(e) PROVE NoEventStranded'
  <2>1. {e} \cap DOMAIN claims = {}
    BY <1>5, Zenon DEF Aexpire
  <2> QED BY <1>5, <2>1, ForgetUnclaimedInv, Zenon DEF Aexpire
<1>6. ASSUME NEW e, Adelete(e) PROVE NoEventStranded'
  BY <1>6, ForgetInv, Zenon DEF Adelete, Unclaim
<1> QED BY <1>1, <1>2, <1>3, <1>4, <1>5, <1>6, Zenon DEF ThreadCall

LEMMA TickInv == ASSUME NoEventStranded, Tick, UNCHANGED lag PROVE NoEventStranded'
<1>1. /\ now' = now + 1
      /\ UNCHANGED <<entries, available_at, unclaimed_deadlines, unclaimed_remaining,
                     claims, claim_deadlines, pending, storing, issued, ended>>
  BY Zenon DEF Tick, tables
<1>2. now' \in Nat
  BY <1>1, TableFacts
<1> QED BY <1>1, <1>2, Zenon DEF NoEventStranded, TypeOK, OnePlace, LifetimeTables

LEMMA NextInv == NoEventStranded /\ [Next]_vars => NoEventStranded'
<1> SUFFICES ASSUME NoEventStranded, [Next]_vars PROVE NoEventStranded'
  BY Zenon
<1>1. ASSUME NEW t \in Readings, ThreadCall(t), UNCHANGED lag PROVE NoEventStranded'
  BY <1>1, ThreadCallInv, Zenon
<1>2. ASSUME NEW t \in Readings, NEW w \in Workers, WorkerCall(w, t), UNCHANGED lag
      PROVE  NoEventStranded'
  BY <1>2, WorkerCallInv, Zenon
<1>3. ASSUME Tick, UNCHANGED lag PROVE NoEventStranded'
  BY <1>3, TickInv, Zenon
<1>4. CASE UNCHANGED vars
  BY <1>4, Zenon DEF vars, tables, NoEventStranded, TypeOK, OnePlace, LifetimeTables
<1> QED BY <1>1, <1>2, <1>3, <1>4, Zenon DEF Next

\* Whatever is enqueued, claimed, renewed, released, consumed, expired or cleared,
\* by whom and after however long a wait for the lock, the tables of
\* MemoryQueueProvider agree: a record is in one place, with a deadline or the
\* rest of its lifetime, and no table remembers an event that is gone.
THEOREM MemoryEventsAreNotStranded == Spec => []NoEventStranded
  BY InitInv, NextInv, PTL DEF Spec

-------------------------------------------------------------------------------
\* A claim that stands: it has no lease, or its lease runs.
Standing(e) ==
    /\ e \in DOMAIN claims
    /\ e \in DOMAIN claim_deadlines => claim_deadlines[e] > now

\* The step leaves the claim on e with its owner, and the event stored.
KeptBy(e) == e \in DOMAIN claims' /\ claims'[e] = claims[e] /\ e \in entries'

\* Recovery does not touch a claim that stands, however late it comes.
LEMMA StandingFacts ==
    ASSUME NoEventStranded, NEW t \in Readings, NEW back \in Returned(t), NEW e, Standing(e)
    PROVE  /\ e \in DOMAIN claims /\ e \in entries
           /\ e \in DOMAIN Held(t) /\ Held(t)[e] = claims[e]
           /\ e \notin Range(pending \o back)
<1>1. t \in Nat /\ t <= now /\ now \in Nat
  BY RecoveryFacts, TableFacts, Zenon
<1>2. e \notin Lapsed(t)
  <2>1. e \in DOMAIN claim_deadlines => claim_deadlines[e] \in Nat /\ claim_deadlines[e] > now
    BY Zenon DEF Standing, NoEventStranded, TypeOK
  <2> QED BY <1>1, <2>1 DEF Lapsed, DueAt
<1>3. e \in DOMAIN claims /\ e \in entries
  BY TableFacts, Zenon DEF Standing
<1>4. e \in DOMAIN Held(t) /\ Held(t)[e] = claims[e]
  BY <1>2, <1>3, RecoveryFacts, Zenon
<1>5. e \notin Range(pending \o back)
  BY <1>4, RecoveryFacts, Zenon
<1> QED BY <1>3, <1>4, <1>5, Zenon

\* Another's _aclaim leaves it alone.
LEMMA AclaimKeeps ==
    ASSUME NoEventStranded, NEW t \in Readings, NEW w, NEW lease, NEW got, Aclaim(w, lease, got, t),
           NEW e, Standing(e)
    PROVE  KeptBy(e)
<1>a. PICK back \in Returned(t) : \E rest \in Seq(issued), it \in SUBSET issued :
        ClaimOutcome(w, lease, got, t, back, rest, it)
  BY AclaimCases, Zenon
<1>b. PICK rest \in Seq(issued), it \in SUBSET issued : ClaimOutcome(w, lease, got, t, back, rest, it)
  BY <1>a, Zenon
<1>1. /\ it \subseteq Range(pending \o back)
      /\ \/ Recovered(t, {})
         \/ \E x \in entries : it = {x} /\ Recovered(t, {x})
         \/ \E x \in entries : it = {x} /\ Claimed(w, x, lease, t) /\ entries' = entries
  BY <1>b, Zenon DEF ClaimOutcome
<1>2. /\ e \in DOMAIN claims /\ e \in entries
      /\ e \in DOMAIN Held(t) /\ Held(t)[e] = claims[e]
      /\ e \notin Range(pending \o back)
  BY StandingFacts, ZenonT(30)
<1>3. CASE Recovered(t, {})
  BY <1>2, <1>3, ZenonT(30) DEF Recovered, KeptBy
<1>4. ASSUME NEW x \in entries, it = {x}, Recovered(t, {x}) PROVE KeptBy(e)
  BY <1>1, <1>2, <1>4, ZenonT(30) DEF Recovered, KeptBy
<1>5. ASSUME NEW x \in entries, it = {x}, Claimed(w, x, lease, t), entries' = entries PROVE KeptBy(e)
  <2>1. x # e
    BY <1>1, <1>2, <1>5, ZenonT(30)
  <2>2. claims' = Zadd(Held(t), x, w)
    BY <1>5, Zenon DEF Claimed
  <2> QED BY <1>2, <1>5, <2>1, <2>2, ZenonT(30) DEF Zadd, KeptBy
<1> QED BY <1>1, <1>3, <1>4, <1>5, Zenon

\* Of the calls on claims only its owner's release and removal end it.
LEMMA WorkerCallKeeps ==
    ASSUME NoEventStranded, NEW t \in Readings, NEW w, WorkerCall(w, t), NEW e, Standing(e)
    PROVE  \/ KeptBy(e)
           \/ claims[e] = w /\ (Aremove(w, e) \/ \E delay \in Delays : Arelease(w, e, delay, t))
<1>1. ASSUME NEW lease, NEW got, Aclaim(w, lease, got, t) PROVE KeptBy(e)
  BY <1>1, AclaimKeeps, Zenon
<1>2. ASSUME NEW x, NEW lease \in Leases, Arenew(w, x, lease, t) PROVE KeptBy(e)
  <2>1. PICK back \in Returned(t) : claims' = Held(t) /\ entries' = entries
    BY <1>2, Zenon DEF Arenew
  <2> QED BY <2>1, StandingFacts, Zenon DEF KeptBy
<1>3. e \in DOMAIN claims /\ e \in entries
  BY TableFacts, ZenonT(30) DEF Standing
<1>4. ASSUME NEW x, NEW delay \in Delays, Arelease(w, x, delay, t)
      PROVE  KeptBy(e) \/ (claims[e] = w /\ Arelease(w, e, delay, t))
  <2>1. CASE x = e
    BY <1>4, <2>1, ZenonT(30) DEF Arelease, Owns
  <2>2. CASE x # e
    BY <1>3, <1>4, <2>2, Zenon DEF Arelease, Without, KeptBy
  <2> QED BY <2>1, <2>2, Zenon
<1>5. ASSUME NEW x, Aremove(w, x) PROVE KeptBy(e) \/ (claims[e] = w /\ Aremove(w, e))
  <2>1. CASE x = e
    BY <1>5, <2>1, Zenon DEF Aremove, Owns
  <2>2. CASE x # e
    BY <1>3, <1>5, <2>2, Zenon DEF Aremove, Forget, Unclaim, Without, KeptBy
  <2> QED BY <2>1, <2>2, Zenon
<1> QED BY <1>1, <1>2, <1>4, <1>5, Zenon DEF WorkerCall

\* Of the others only a clear does.
LEMMA ThreadCallKeeps ==
    ASSUME NoEventStranded, NEW t \in Readings, ThreadCall(t), NEW e, Standing(e)
    PROVE  KeptBy(e) \/ Adelete(e)
<1>1. e \in DOMAIN claims /\ e \in entries
  BY TableFacts, Zenon DEF Standing
<1>2. ASSUME NEW x, NEW life, AstoreEvent(x, life, t) PROVE KeptBy(e)
  BY <1>1, <1>2, Zenon DEF AstoreEvent, KeptBy
<1>3. ASSUME NEW x, Apush(x) PROVE KeptBy(e)
  BY <1>1, <1>3, Zenon DEF Apush, tables, KeptBy
<1>4. ASSUME NEW got, Adequeue(got, t) PROVE KeptBy(e)
  <2>a. PICK back \in Returned(t) : \E it, dead \in SUBSET issued : DequeueOutcome(got, t, back, it, dead)
    BY <1>4, AdequeueCases, Zenon
  <2>b. PICK it, dead \in SUBSET issued : DequeueOutcome(got, t, back, it, dead)
    BY <2>a, Zenon
  <2>1. it \cup dead \subseteq Range(pending \o back) /\ Recovered(t, it \cup dead)
    BY <2>b, Zenon DEF DequeueOutcome
  <2>2. claims' = Held(t) /\ entries' = entries \ (it \cup dead)
    BY <2>1, Zenon DEF Recovered
  <2> QED BY <2>1, <2>2, StandingFacts, Zenon DEF KeptBy
<1>5. ASSUME AexpireDue(t) PROVE KeptBy(e)
  BY <1>1, <1>5, Zenon DEF AexpireDue, Forget, KeptBy
<1>6. ASSUME NEW x, Aexpire(x) PROVE KeptBy(e)
  BY <1>1, <1>6, Zenon DEF Aexpire, Forget, KeptBy
<1>7. ASSUME NEW x, Adelete(x) PROVE KeptBy(e) \/ Adelete(e)
  <2>1. CASE x = e
    BY <1>7, <2>1, Zenon
  <2>2. CASE x # e
    BY <1>1, <1>7, <2>2, Zenon DEF Adelete, Forget, Unclaim, Without, KeptBy
  <2> QED BY <2>1, <2>2, Zenon
<1> QED BY <1>2, <1>3, <1>4, <1>5, <1>6, <1>7, Zenon DEF ThreadCall

LEMMA HonouredStep == NoEventStranded /\ [Next]_vars => [ClaimHonoured]_vars
<1> SUFFICES ASSUME NoEventStranded, Next PROVE ClaimHonoured
  BY Zenon
<1> SUFFICES ASSUME NEW e \in DOMAIN claims, e \in DOMAIN claim_deadlines => claim_deadlines[e] > now
             PROVE  \/ KeptBy(e)
                    \/ \E delay \in Delays, t \in Readings : Arelease(claims[e], e, delay, t)
                    \/ Aremove(claims[e], e)
                    \/ Adelete(e)
  BY Zenon DEF ClaimHonoured, KeptBy
<1>1. Standing(e)
  BY Zenon DEF Standing
<1>2. ASSUME NEW t \in Readings, ThreadCall(t) PROVE KeptBy(e) \/ Adelete(e)
  BY <1>1, <1>2, ThreadCallKeeps, Zenon
<1>3. ASSUME NEW t \in Readings, NEW w \in Workers, WorkerCall(w, t)
      PROVE  \/ KeptBy(e)
             \/ claims[e] = w /\ (Aremove(w, e) \/ \E delay \in Delays : Arelease(w, e, delay, t))
  BY <1>1, <1>3, WorkerCallKeeps, Zenon
<1>4. ASSUME Tick PROVE KeptBy(e)
  BY <1>4, TableFacts, Zenon DEF Tick, tables, KeptBy
<1> QED BY <1>2, <1>3, <1>4, Zenon DEF Next

\* While a lease runs, or for ever without one, nobody but its owner and a clear of
\* the queue ends a claim on an event, however late the calls reach the lock.
THEOREM MemoryClaimsAreHonoured == Spec => AlwaysClaimHonoured
  BY MemoryEventsAreNotStranded, HonouredStep, PTL DEF Spec, AlwaysClaimHonoured

-------------------------------------------------------------------------------
\* The refinement of EventLifetime, in a history whose readings are up to date.

\* Where the refinement mapping puts each event.
Mapped ==
    \A e \in Events :
        /\ e \notin issued => state[e] = "new" /\ left[e] = 0
        /\ e \in issued \ entries => state[e] = ended[e] /\ left[e] = 0
        /\ e \in DOMAIN claims => state[e] = "claimed" /\ left[e] = unclaimed_remaining[e]
        /\ e \in entries \ DOMAIN claims =>
              state[e] = "available" /\ left[e] = unclaimed_deadlines[e] - now

\* The tables before and after a call of such a history.
Punctual ==
    /\ lag = 0 /\ now' = now
    /\ NoEventStranded /\ NoEventStranded' /\ Mapped /\ Mapped'

\* The mapping is the one that Mapped spells out.
LEMMA MappedFacts == NoEventStranded /\ lag = 0 => Mapped
<1> SUFFICES ASSUME NoEventStranded, lag = 0, NEW e \in Events
             PROVE  /\ e \notin issued => state[e] = "new" /\ left[e] = 0
                    /\ e \in issued \ entries => state[e] = ended[e] /\ left[e] = 0
                    /\ e \in DOMAIN claims => state[e] = "claimed" /\ left[e] = unclaimed_remaining[e]
                    /\ e \in entries \ DOMAIN claims =>
                          state[e] = "available" /\ left[e] = unclaimed_deadlines[e] - now
  BY Zenon DEF Mapped
<1>1. /\ DOMAIN ended = issued \ entries /\ DOMAIN unclaimed_deadlines = entries \ DOMAIN claims
      /\ DOMAIN unclaimed_remaining = DOMAIN claims
      /\ DOMAIN claims \subseteq entries /\ entries \subseteq issued
  BY TableFacts, Zenon DEF NoEventStranded, TypeOK
<1>2. ~(lag > 0)
  BY SMT, SMTT(30)
<1> QED BY <1>1, <1>2, ZenonT(30) DEF state, left

\* The mapped state and lifetime have their types.
LEMMA MappedType ==
    NoEventStranded => state \in [Events -> Lifetime!States] /\ left \in [Events -> Int]
<1> SUFFICES ASSUME NoEventStranded
             PROVE  state \in [Events -> Lifetime!States] /\ left \in [Events -> Int]
  BY Zenon
<1>1. ASSUME NEW e \in Events PROVE state[e] \in Lifetime!States /\ left[e] \in Int
  <2>1. /\ e \in DOMAIN ended => ended[e] \in {"consumed", "expired", "cleared"}
        /\ e \in DOMAIN unclaimed_remaining => unclaimed_remaining[e] \in Int
        /\ e \in DOMAIN unclaimed_deadlines => unclaimed_deadlines[e] - now \in Int
    BY DEF NoEventStranded, TypeOK
  <2> QED BY <2>1 DEF state, left, Lifetime!States
<1> QED BY <1>1, Zenon DEF state, left

\* What a call may do to one event.
Moves(e) == state'[e] \in Lifetime!Follow(e) /\ left'[e] \in Lifetime!LeftAfter(e, state'[e])

\* A step that changes neither the issue, the claim, the deadline nor the end of
\* an event leaves it where it is.
LEMMA Unmoved ==
    ASSUME Punctual, NEW e \in Events,
           e \in issued' <=> e \in issued, e \in entries' <=> e \in entries,
           e \in DOMAIN claims' <=> e \in DOMAIN claims,
           e \in DOMAIN claims => unclaimed_remaining'[e] = unclaimed_remaining[e],
           e \in entries \ DOMAIN claims => unclaimed_deadlines'[e] = unclaimed_deadlines[e],
           e \in issued \ entries => ended'[e] = ended[e]
    PROVE  Moves(e)
<1>1. (e \in DOMAIN claims => e \in entries) /\ (e \in entries => e \in issued)
  BY TableFacts, ZenonT(30) DEF Punctual
<1>2. state'[e] = state[e] /\ left'[e] = left[e]
  BY <1>1 DEF Mapped, Punctual
<1>3. state[e] \in Lifetime!Ended => left[e] = 0
  BY <1>1, Zenon DEF Mapped, Punctual, Lifetime!Ended
<1> QED BY <1>2, <1>3, Zenon DEF Moves, Lifetime!Follow, Lifetime!LeftAfter

\* An event whose record goes: expired when its lifetime is used up, consumed from
\* a claim or while some of it is left.
LEMMA Ends ==
    ASSUME Punctual, NEW e \in Events, e \in entries, e \in issued', e \notin entries',
           \/ ended'[e] = "cleared"
           \/ ended'[e] = "expired" /\ e \notin DOMAIN claims /\ unclaimed_deadlines[e] <= now
           \/ ended'[e] = "consumed" /\ (e \in DOMAIN claims \/ unclaimed_deadlines[e] > now)
    PROVE  Moves(e)
<1>1. state'[e] = ended'[e] /\ left'[e] = 0
  BY ZenonT(30) DEF Mapped, Punctual
<1>2. CASE e \in DOMAIN claims
  BY <1>1, <1>2, ZenonT(30) DEF Mapped, Punctual, Moves, Lifetime!Follow, Lifetime!LeftAfter, Lifetime!Ended
<1>3. CASE e \notin DOMAIN claims
  <2>1. state[e] = "available" /\ left[e] = unclaimed_deadlines[e] - now
    BY <1>3, Zenon DEF Mapped, Punctual
  <2>2. unclaimed_deadlines[e] \in Nat /\ now \in Nat
    BY <1>3, Zenon DEF Punctual, NoEventStranded, TypeOK, LifetimeTables
  <2>3. /\ unclaimed_deadlines[e] <= now <=> left[e] <= 0
        /\ unclaimed_deadlines[e] > now <=> left[e] > 0
    BY <2>1, <2>2
  <2> QED BY <1>1, <1>3, <2>1, <2>3, ZenonT(30) DEF Moves, Lifetime!Follow, Lifetime!LeftAfter, Lifetime!Ended
<1> QED BY <1>2, <1>3, Zenon

\* An event whose claim ends without it: what was left of its lifetime runs on.
LEMMA Resumes ==
    ASSUME Punctual, NEW e \in Events, e \in DOMAIN claims, e \notin DOMAIN claims', e \in entries',
           unclaimed_deadlines'[e] = now + unclaimed_remaining[e]
    PROVE  Moves(e)
<1>1. state[e] = "claimed" /\ left[e] = unclaimed_remaining[e]
  BY Zenon DEF Mapped, Punctual
<1>2. state'[e] = "available" /\ left'[e] = (now + unclaimed_remaining[e]) - now
  BY Zenon DEF Mapped, Punctual
<1>3. (now + unclaimed_remaining[e]) - now = unclaimed_remaining[e]
  BY TableFacts, SMT, SMTT(30) DEF Punctual, NoEventStranded, TypeOK
<1> QED BY <1>1, <1>2, <1>3, ZenonT(30) DEF Moves, Lifetime!Follow, Lifetime!LeftAfter, Lifetime!Ended

\* The deadlines that recovery works out.
LEMMA ResumedFacts ==
    ASSUME NoEventStranded, NEW t \in Readings
    PROVE  /\ Lapsed(t) \subseteq DOMAIN claims /\ DOMAIN Held(t) = DOMAIN claims \ Lapsed(t)
           /\ \A e \in Lapsed(t) : e \in DOMAIN Resumed(t) /\ Resumed(t)[e] = t + unclaimed_remaining[e]
           /\ \A e \in entries \ DOMAIN claims :
                 e \in DOMAIN Resumed(t) /\ Resumed(t)[e] = unclaimed_deadlines[e]
<1>1. Lapsed(t) \subseteq DOMAIN claims
  BY TableFacts, Zenon DEF Lapsed, DueAt
<1>2. DOMAIN Held(t) = DOMAIN claims \ Lapsed(t)
  BY Zenon DEF Held, Without
<1>3. Lapsed(t) \cap entries \cap DOMAIN unclaimed_remaining = Lapsed(t)
  BY <1>1, TableFacts, ZenonT(30)
<1>4. Resumed(t) = [e \in DOMAIN unclaimed_deadlines \cup Lapsed(t) |->
          IF e \in Lapsed(t) THEN t + unclaimed_remaining[e] ELSE unclaimed_deadlines[e]]
  BY <1>3, Zenon DEF Resumed
<1>5. DOMAIN unclaimed_deadlines = entries \ DOMAIN claims
  BY TableFacts, ZenonT(30)
<1> QED BY <1>1, <1>2, <1>4, <1>5, Zenon

\* Recovery lets the lifetimes of lapsed events run on and touches no other event.
LEMMA Recovers ==
    ASSUME Punctual, now \in Readings, NEW e \in Events,
           e \in issued' <=> e \in issued, e \in entries' <=> e \in entries,
           e \in DOMAIN claims' <=> e \in DOMAIN Held(now),
           e \in DOMAIN Held(now) => unclaimed_remaining'[e] = unclaimed_remaining[e],
           e \in entries \ DOMAIN Held(now) => unclaimed_deadlines'[e] = Resumed(now)[e],
           e \in issued \ entries => ended'[e] = ended[e]
    PROVE  Moves(e)
<1>1. /\ Lapsed(now) \subseteq DOMAIN claims /\ DOMAIN Held(now) = DOMAIN claims \ Lapsed(now)
      /\ e \in Lapsed(now) => Resumed(now)[e] = now + unclaimed_remaining[e]
      /\ e \in entries \ DOMAIN claims => Resumed(now)[e] = unclaimed_deadlines[e]
      /\ DOMAIN claims \subseteq entries
  BY ResumedFacts, TableFacts, ZenonT(30) DEF Punctual
<1>2. CASE e \in Lapsed(now)
  BY <1>1, <1>2, Resumes, Zenon
<1>3. CASE e \notin Lapsed(now)
  <2>1. /\ e \in DOMAIN claims' <=> e \in DOMAIN claims
        /\ e \in DOMAIN claims => unclaimed_remaining'[e] = unclaimed_remaining[e]
        /\ e \in entries \ DOMAIN claims => unclaimed_deadlines'[e] = unclaimed_deadlines[e]
    BY <1>1, <1>3, Zenon
  <2> QED BY <2>1, Unmoved, Zenon
<1> QED BY <1>2, <1>3, ZenonT(30)

\* A call that recovers and lets the events S go, the dead ones as expired.
LEMMA RecoveredMoves ==
    ASSUME Punctual, now \in Readings, NEW back \in Returned(now), NEW S,
           S \subseteq Range(pending \o back), Recovered(now, S), issued' = issued,
           \A x \in S \cap entries : \/ ended'[x] = "consumed" /\ ~Dead(x, now)
                                     \/ ended'[x] = "expired" /\ Dead(x, now),
           \A x \in issued \ entries : ended'[x] = ended[x],
           NEW e \in Events
    PROVE  Moves(e)
<1>1. /\ entries' = entries \ S /\ claims' = Held(now)
      /\ unclaimed_deadlines' = Without(Resumed(now), S)
      /\ unclaimed_remaining' = Without(unclaimed_remaining, Lapsed(now) \cup S)
  BY ZenonT(30) DEF Recovered
<1>2. /\ DOMAIN Resumed(now) = entries \ DOMAIN Held(now)
      /\ S \cap DOMAIN Held(now) = {}
  BY RecoveryFacts, Zenon DEF Punctual
<1>3. /\ Lapsed(now) \subseteq DOMAIN claims /\ DOMAIN Held(now) = DOMAIN claims \ Lapsed(now)
      /\ e \in Lapsed(now) => e \in DOMAIN Resumed(now) /\ Resumed(now)[e] = now + unclaimed_remaining[e]
      /\ e \in entries \ DOMAIN claims =>
            e \in DOMAIN Resumed(now) /\ Resumed(now)[e] = unclaimed_deadlines[e]
      /\ DOMAIN claims \subseteq entries /\ DOMAIN unclaimed_remaining = DOMAIN claims /\ now \in Nat
      /\ entries \subseteq issued
  BY ResumedFacts, TableFacts, Zenon DEF Punctual
<1>4. CASE e \in S \cap entries
  <2>1. e \in entries /\ e \notin entries' /\ e \in issued'
    BY <1>1, <1>3, <1>4, ZenonT(30)
  <2>2. CASE e \in DOMAIN claims
    <3>1. e \in DOMAIN Resumed(now) /\ Resumed(now)[e] = now + unclaimed_remaining[e]
      BY <1>2, <1>3, <1>4, <2>2, Zenon
    <3>2. unclaimed_remaining[e] \in Nat \ {0}
      BY <1>3, <2>2, Zenon DEF Punctual, NoEventStranded, TypeOK
    <3>3. ~(now + unclaimed_remaining[e] <= now)
      BY <1>3, <3>2
    <3>4. ~Dead(e, now)
      BY <3>1, <3>3, Zenon DEF Dead
    <3> QED BY <1>4, <2>1, <2>2, <3>4, Ends, Zenon
  <2>3. CASE e \notin DOMAIN claims
    <3>1. Dead(e, now) <=> unclaimed_deadlines[e] <= now
      BY <1>3, <1>4, <2>3, Zenon DEF Dead
    <3>2. unclaimed_deadlines[e] \in Nat
      BY <1>4, <2>3, Zenon DEF Punctual, NoEventStranded, TypeOK, LifetimeTables
    <3>3. Dead(e, now) \/ unclaimed_deadlines[e] > now
      BY <1>3, <3>1, <3>2
    <3> QED BY <1>4, <2>1, <2>3, <3>1, <3>3, Ends, Zenon
  <2> QED BY <2>2, <2>3, ZenonT(30)
<1>5. CASE e \notin S \cap entries
  <2>1. /\ e \in entries' <=> e \in entries
        /\ e \in DOMAIN claims' <=> e \in DOMAIN Held(now)
        /\ e \in issued' <=> e \in issued
        /\ e \in issued \ entries => ended'[e] = ended[e]
    BY <1>1, <1>5, ZenonT(30)
  <2>2. e \in DOMAIN Held(now) => unclaimed_remaining'[e] = unclaimed_remaining[e]
    BY <1>1, <1>2, <1>3, ZenonT(30) DEF Without
  <2>3. e \in entries \ DOMAIN Held(now) => unclaimed_deadlines'[e] = Resumed(now)[e]
    BY <1>1, <1>2, <1>5, ZenonT(30) DEF Without
  <2> QED BY <2>1, <2>2, <2>3, Recovers, Zenon
<1> QED BY <1>4, <1>5, ZenonT(30)

\* adequeue hands out a live event and drops only dead ones.
LEMMA AdequeueMoves ==
    ASSUME Punctual, now \in Readings, NEW got, Adequeue(got, now), NEW e \in Events
    PROVE  Moves(e)
<1>0. NoEventStranded
  BY Zenon DEF Punctual
<1>a. PICK back \in Returned(now) : \E it, dead \in SUBSET issued : DequeueOutcome(got, now, back, it, dead)
  BY <1>0, AdequeueCases, Zenon
<1>b. PICK it, dead \in SUBSET issued : DequeueOutcome(got, now, back, it, dead)
  BY <1>a, Zenon
<1> DEFINE out == it \cup dead
<1>1. /\ it \subseteq entries /\ it \cap dead = {}
      /\ \A x \in it : ~Dead(x, now)
      /\ \A x \in dead \cap entries : Dead(x, now)
      /\ out \subseteq Range(pending \o back) /\ Recovered(now, out)
      /\ ended' = [x \in DOMAIN ended \cup (out \cap entries) |->
             IF x \in it THEN "consumed" ELSE IF x \in out \cap entries THEN "expired" ELSE ended[x]]
      /\ issued' = issued
  BY <1>b, Zenon DEF DequeueOutcome
<1>2. DOMAIN ended = issued \ entries
  BY <1>0, Zenon DEF NoEventStranded, TypeOK
<1>3. \A x \in issued \ entries : ended'[x] = ended[x]
  BY <1>1, <1>2, Zenon
<1>4. \A x \in out \cap entries : \/ ended'[x] = "consumed" /\ ~Dead(x, now)
                                  \/ ended'[x] = "expired" /\ Dead(x, now)
  <2> SUFFICES ASSUME NEW x \in out \cap entries
               PROVE  \/ ended'[x] = "consumed" /\ ~Dead(x, now)
                      \/ ended'[x] = "expired" /\ Dead(x, now)
    BY Zenon
  <2>1. CASE x \in it
    BY <1>1, <2>1, Zenon
  <2>2. CASE x \notin it
    BY <1>1, <2>2, Zenon
  <2> QED BY <2>1, <2>2, Zenon
<1> HIDE DEF out
<1> QED BY <1>1, <1>3, <1>4, RecoveredMoves, Zenon

\* _aclaim stops the lifetime of a live event and drops a dead one.
LEMMA AclaimMoves ==
    ASSUME Punctual, now \in Readings, NEW w, NEW lease, NEW got, Aclaim(w, lease, got, now),
           NEW e \in Events
    PROVE  Moves(e)
<1>0. NoEventStranded
  BY Zenon DEF Punctual
<1>a. PICK back \in Returned(now) : \E rest \in Seq(issued), it \in SUBSET issued :
        ClaimOutcome(w, lease, got, now, back, rest, it)
  BY <1>0, AclaimCases, Zenon
<1>b. PICK rest \in Seq(issued), it \in SUBSET issued : ClaimOutcome(w, lease, got, now, back, rest, it)
  BY <1>a, Zenon
<1>1. /\ it \subseteq Range(pending \o back) /\ issued' = issued
      /\ \/ Recovered(now, {}) /\ ended' = ended
         \/ \E x \in entries : it = {x} /\ Dead(x, now) /\ Recovered(now, {x}) /\ End({x}, "expired")
         \/ \E x \in entries :
               it = {x} /\ ~Dead(x, now) /\ Claimed(w, x, lease, now) /\ entries' = entries /\ ended' = ended
  BY <1>b, Zenon DEF ClaimOutcome
<1>2. DOMAIN ended = issued \ entries /\ entries \subseteq issued
  BY <1>0, Zenon DEF NoEventStranded, TypeOK
<1>3. ASSUME Recovered(now, {}), ended' = ended PROVE Moves(e)
  BY <1>1, <1>3, RecoveredMoves, Zenon
<1>4. ASSUME NEW x \in entries, it = {x}, Dead(x, now), Recovered(now, {x}), End({x}, "expired")
      PROVE  Moves(e)
  <2>1. ended'[x] = "expired" /\ \A y \in issued \ entries : ended'[y] = ended[y]
    BY <1>2, <1>4, Zenon DEF End
  <2>2. \A y \in {x} \cap entries : ended'[y] = "expired" /\ Dead(y, now)
    BY <1>4, <2>1, Zenon
  <2> QED BY <1>1, <1>4, <2>1, <2>2, RecoveredMoves, Zenon
<1>5. ASSUME NEW x \in entries, it = {x}, ~Dead(x, now), Claimed(w, x, lease, now),
             entries' = entries, ended' = ended
      PROVE  Moves(e)
  <2>1. /\ unclaimed_deadlines' = Without(Resumed(now), {x})
        /\ unclaimed_remaining' =
               Zadd(Without(unclaimed_remaining, Lapsed(now)), x, Resumed(now)[x] - now)
        /\ claims' = Zadd(Held(now), x, w)
    BY <1>5, Zenon DEF Claimed
  <2>2. /\ DOMAIN Resumed(now) = entries \ DOMAIN Held(now)
        /\ x \notin DOMAIN Held(now)
    BY <1>0, <1>1, <1>5, RecoveryFacts, Zenon
  <2>3. /\ Lapsed(now) \subseteq DOMAIN claims /\ DOMAIN Held(now) = DOMAIN claims \ Lapsed(now)
        /\ x \in Lapsed(now) => Resumed(now)[x] = now + unclaimed_remaining[x]
        /\ x \in entries \ DOMAIN claims => Resumed(now)[x] = unclaimed_deadlines[x]
        /\ DOMAIN claims \subseteq entries /\ DOMAIN unclaimed_remaining = DOMAIN claims /\ now \in Nat
    BY <1>0, ResumedFacts, TableFacts, Zenon
  <2>4. CASE e = x
    <3>1. e \in DOMAIN claims' /\ unclaimed_remaining'[e] = Resumed(now)[e] - now
      BY <2>1, <2>4, ZenonT(30) DEF Zadd
    <3>2. state'[e] = "claimed" /\ left'[e] = Resumed(now)[e] - now
      BY <3>1, ZenonT(30) DEF Punctual, Mapped
    <3>3. CASE e \in DOMAIN claims
      <4>1. Resumed(now)[e] = now + unclaimed_remaining[e]
        BY <2>2, <2>3, <2>4, <3>3, ZenonT(30)
      <4>2. unclaimed_remaining[e] \in Nat
        BY <1>0, <2>3, <3>3, Zenon DEF NoEventStranded, TypeOK
      <4>3. (now + unclaimed_remaining[e]) - now = unclaimed_remaining[e]
        BY <2>3, <4>2, Durations, Zenon
      <4>4. state[e] = "claimed" /\ left[e] = unclaimed_remaining[e]
        BY <3>3, ZenonT(30) DEF Punctual, Mapped
      <4> QED BY <3>2, <4>1, <4>3, <4>4, ZenonT(30) DEF Moves, Lifetime!Follow, Lifetime!LeftAfter, Lifetime!Ended
    <3>4. CASE e \notin DOMAIN claims
      <4>1. Resumed(now)[e] = unclaimed_deadlines[e] /\ e \in DOMAIN Resumed(now)
        BY <1>5, <2>2, <2>3, <2>4, <3>4, Zenon
      <4>2. state[e] = "available" /\ left[e] = unclaimed_deadlines[e] - now
        BY <1>5, <2>4, <3>4, ZenonT(30) DEF Punctual, Mapped
      <4>3. ~(unclaimed_deadlines[e] <= now)
        BY <1>5, <2>4, <4>1, ZenonT(30) DEF Dead
      <4>4. unclaimed_deadlines[e] \in Nat
        BY <1>0, <1>5, <2>4, <3>4, Zenon DEF NoEventStranded, TypeOK, LifetimeTables
      <4>5. left[e] > 0
        BY <2>3, <4>2, <4>3, <4>4, Durations, Zenon
      <4> QED BY <3>2, <4>1, <4>2, <4>5, Zenon DEF Moves, Lifetime!Follow, Lifetime!LeftAfter, Lifetime!Ended
    <3> QED BY <3>3, <3>4, Zenon
  <2>5. CASE e # x
    <3>1. e \in DOMAIN claims' <=> e \in DOMAIN Held(now)
      BY <2>1, <2>5, ZenonT(30) DEF Zadd
    <3>2. e \in DOMAIN Held(now) => unclaimed_remaining'[e] = unclaimed_remaining[e]
      BY <2>1, <2>3, <2>5, ZenonT(30) DEF Zadd, Without
    <3>3. e \in entries \ DOMAIN Held(now) => unclaimed_deadlines'[e] = Resumed(now)[e]
      BY <2>1, <2>2, <2>5, Zenon DEF Without
    <3> QED BY <1>1, <1>5, <3>1, <3>2, <3>3, Recovers, Zenon
  <2> QED BY <2>4, <2>5, Zenon
<1> QED BY <1>1, <1>3, <1>4, <1>5, Zenon

\* arenew moves no event but the lapsed ones.
LEMMA ArenewMoves ==
    ASSUME Punctual, now \in Readings, NEW w, NEW f, NEW lease, Arenew(w, f, lease, now),
           NEW e \in Events
    PROVE  Moves(e)
<1>0. NoEventStranded
  BY Zenon DEF Punctual
<1>a. PICK back \in Returned(now) :
        /\ UNCHANGED <<entries, issued, ended>>
        /\ unclaimed_deadlines' = Resumed(now)
        /\ unclaimed_remaining' = Without(unclaimed_remaining, Lapsed(now))
        /\ claims' = Held(now)
  BY Zenon DEF Arenew
<1>1. /\ DOMAIN Held(now) = DOMAIN claims \ Lapsed(now)
      /\ DOMAIN unclaimed_remaining = DOMAIN claims
  BY <1>0, ResumedFacts, TableFacts, ZenonT(30)
<1>2. e \in DOMAIN Held(now) => unclaimed_remaining'[e] = unclaimed_remaining[e]
  BY <1>a, <1>1, Zenon DEF Without
<1> QED BY <1>a, <1>2, Recovers, Zenon

\* arelease gives one event its lifetime back.
LEMMA AreleaseMoves ==
    ASSUME Punctual, NEW w, NEW f, NEW delay, Arelease(w, f, delay, now), NEW e \in Events
    PROVE  Moves(e)
<1>0. /\ DOMAIN unclaimed_deadlines = entries \ DOMAIN claims /\ DOMAIN claims \subseteq entries
      /\ DOMAIN unclaimed_remaining = DOMAIN claims
  BY TableFacts, Zenon DEF Punctual
<1>1. /\ f \in DOMAIN claims /\ claims' = Without(claims, {f})
      /\ unclaimed_remaining' = Without(unclaimed_remaining, {f})
      /\ unclaimed_deadlines' = Zadd(unclaimed_deadlines, f, now + unclaimed_remaining[f])
      /\ UNCHANGED <<entries, issued, ended>>
  BY Zenon DEF Arelease, Owns
<1>2. CASE e = f
  <2>1. e \notin DOMAIN claims' /\ e \in entries' /\ unclaimed_deadlines'[e] = now + unclaimed_remaining[e]
    BY <1>0, <1>1, <1>2, Zenon DEF Without, Zadd
  <2> QED BY <2>1, <1>1, <1>2, Resumes, Zenon
<1>3. CASE e # f
  <2>1. e \in DOMAIN claims' <=> e \in DOMAIN claims
    BY <1>1, <1>3, Zenon DEF Without
  <2>2. e \in DOMAIN claims => unclaimed_remaining'[e] = unclaimed_remaining[e]
    BY <1>0, <1>1, <1>3, Zenon DEF Without
  <2>3. e \in entries \ DOMAIN claims => unclaimed_deadlines'[e] = unclaimed_deadlines[e]
    BY <1>0, <1>1, <1>3, Zenon DEF Zadd
  <2> QED BY <1>1, <2>1, <2>2, <2>3, Unmoved, ZenonT(40)
<1> QED BY <1>2, <1>3, Zenon

\* aremove, aexpire_due, aexpire and adelete end the events S.
LEMMA ForgetMoves ==
    ASSUME Punctual, NEW S, NEW how, Forget(S, how), NEW e \in Events,
           DOMAIN claims' = DOMAIN claims \ S,
           \/ how = "cleared"
           \/ how = "expired" /\ \A x \in S : x \notin DOMAIN claims /\ unclaimed_deadlines[x] <= now
           \/ how = "consumed" /\ S \subseteq DOMAIN claims
    PROVE  Moves(e)
<1>1. /\ DOMAIN unclaimed_deadlines = entries \ DOMAIN claims /\ DOMAIN ended = issued \ entries
      /\ DOMAIN unclaimed_remaining = DOMAIN claims
      /\ DOMAIN claims \subseteq entries /\ entries \subseteq issued
  BY TableFacts, Zenon DEF Punctual, NoEventStranded, TypeOK
<1>2. /\ entries' = entries \ S /\ unclaimed_deadlines' = Without(unclaimed_deadlines, S)
      /\ unclaimed_remaining' = Without(unclaimed_remaining, S)
      /\ End(S \cap entries, how) /\ issued' = issued
  BY Zenon DEF Forget
<1>3. CASE e \in S \cap entries
  <2>1. e \in entries /\ e \notin entries' /\ e \in issued' /\ ended'[e] = how
    BY <1>1, <1>2, <1>3, ZenonT(30) DEF End
  <2>2. \/ how = "cleared"
        \/ how = "expired" /\ e \notin DOMAIN claims /\ unclaimed_deadlines[e] <= now
        \/ how = "consumed" /\ e \in DOMAIN claims
    BY <1>3, Zenon
  <2> QED BY <2>1, <2>2, Ends, Zenon
<1>4. CASE e \notin S \cap entries
  <2>1. e \in entries' <=> e \in entries
    BY <1>2, <1>4, Zenon
  <2>2. e \in DOMAIN claims' <=> e \in DOMAIN claims
    BY <1>1, <1>4, Zenon
  <2>3. /\ e \in DOMAIN claims => unclaimed_remaining'[e] = unclaimed_remaining[e]
        /\ e \in entries \ DOMAIN claims => unclaimed_deadlines'[e] = unclaimed_deadlines[e]
    BY <1>1, <1>2, <1>4, Zenon DEF Without
  <2>4. e \in issued \ entries => ended'[e] = ended[e]
    BY <1>1, <1>2, <1>4, Zenon DEF End
  <2> QED BY <1>2, <2>1, <2>2, <2>3, <2>4, Unmoved, ZenonT(40)
<1> QED BY <1>3, <1>4, Zenon

\* astore_event makes an event available with its whole lifetime.
LEMMA AstoreEventMoves ==
    ASSUME Punctual, NEW f \in Events, NEW life \in Lifetimes, AstoreEvent(f, life, now), NEW e \in Events
    PROVE  Moves(e)
<1>1. /\ f \notin issued /\ issued' = issued \cup {f} /\ entries' = entries \cup {f}
      /\ unclaimed_deadlines' = Zadd(unclaimed_deadlines, f, now + life)
      /\ UNCHANGED <<claims, unclaimed_remaining, ended>>
  BY Zenon DEF AstoreEvent
<1>2. /\ DOMAIN unclaimed_deadlines = entries \ DOMAIN claims
      /\ DOMAIN claims \subseteq entries /\ entries \subseteq issued /\ now \in Nat
  BY TableFacts, Zenon DEF Punctual
<1>3. CASE e = f
  <2>1. state[e] = "new"
    BY <1>1, <1>3, Zenon DEF Punctual, Mapped
  <2>2. unclaimed_deadlines'[e] = now + life /\ e \in entries' \ DOMAIN claims'
    BY <1>1, <1>2, <1>3, Zenon DEF Zadd
  <2>3. state'[e] = "available" /\ left'[e] = (now + life) - now
    BY <2>2, Zenon DEF Punctual, Mapped
  <2>4. (now + life) - now = life
    BY <1>2, MemoryConstantsOK
  <2> QED BY <2>1, <2>3, <2>4, Zenon DEF Moves, Lifetime!Follow, Lifetime!LeftAfter, Lifetime!Ended
<1>4. CASE e # f
  <2>1. /\ e \in issued' <=> e \in issued
        /\ e \in entries' <=> e \in entries
        /\ e \in entries \ DOMAIN claims => unclaimed_deadlines'[e] = unclaimed_deadlines[e]
    BY <1>1, <1>2, <1>4, Zenon DEF Zadd
  <2> QED BY <2>1, <1>1, Unmoved, Zenon
<1> QED BY <1>3, <1>4, Zenon

\* Every call moves each event as EventLifetime allows.
LEMMA WorkerCallMoves ==
    ASSUME Punctual, now \in Readings, NEW w, WorkerCall(w, now), NEW e \in Events
    PROVE  Moves(e)
<1>1. ASSUME NEW lease, NEW got, Aclaim(w, lease, got, now) PROVE Moves(e)
  BY <1>1, AclaimMoves, Zenon
<1>2. ASSUME NEW f, NEW lease, Arenew(w, f, lease, now) PROVE Moves(e)
  BY <1>2, ArenewMoves, Zenon
<1>3. ASSUME NEW f, NEW delay, Arelease(w, f, delay, now) PROVE Moves(e)
  BY <1>3, AreleaseMoves, Zenon
<1>4. ASSUME NEW f, Aremove(w, f) PROVE Moves(e)
  <2>1. Forget({f}, "consumed") /\ {f} \subseteq DOMAIN claims /\ DOMAIN claims' = DOMAIN claims \ {f}
    BY <1>4, Zenon DEF Aremove, Owns, Unclaim, Without
  <2> QED BY <2>1, ForgetMoves, Zenon
<1> QED BY <1>1, <1>2, <1>3, <1>4, Zenon DEF WorkerCall

LEMMA ThreadCallMoves ==
    ASSUME Punctual, now \in Readings, ThreadCall(now), NEW e \in Events
    PROVE  Moves(e)
<1>1. ASSUME NEW f \in Events, NEW life \in Lifetimes, AstoreEvent(f, life, now) PROVE Moves(e)
  BY <1>1, AstoreEventMoves, Zenon
<1>2. ASSUME NEW f, Apush(f) PROVE Moves(e)
  <2>1. UNCHANGED <<issued, entries, claims, unclaimed_remaining, unclaimed_deadlines, ended>>
    BY <1>2, Zenon DEF Apush, tables
  <2> QED BY <2>1, Unmoved, Zenon
<1>3. ASSUME NEW got, Adequeue(got, now) PROVE Moves(e)
  BY <1>3, AdequeueMoves, Zenon
<1>4. ASSUME AexpireDue(now) PROVE Moves(e)
  <2> DEFINE S == DueAt(unclaimed_deadlines, now) \ DOMAIN claims
  <2>1. Forget(S, "expired") /\ claims' = claims
    BY <1>4, Zenon DEF AexpireDue
  <2>2. \A x \in S : x \notin DOMAIN claims /\ unclaimed_deadlines[x] <= now
    BY Zenon DEF DueAt
  <2>3. DOMAIN claims' = DOMAIN claims \ S
    BY <2>1, Zenon
  <2> HIDE DEF S
  <2> QED BY <2>1, <2>2, <2>3, ForgetMoves, Zenon
<1>5. ASSUME NEW f, Aexpire(f) PROVE Moves(e)
  <2>1. Forget({f}, "cleared") /\ DOMAIN claims' = DOMAIN claims \ {f}
    BY <1>5, Zenon DEF Aexpire
  <2> QED BY <2>1, ForgetMoves, Zenon
<1>6. ASSUME NEW f, Adelete(f) PROVE Moves(e)
  <2>1. Forget({f}, "cleared") /\ DOMAIN claims' = DOMAIN claims \ {f}
    BY <1>6, Zenon DEF Adelete, Unclaim, Without
  <2> QED BY <2>1, ForgetMoves, Zenon
<1> QED BY <1>1, <1>2, <1>3, <1>4, <1>5, <1>6, Zenon DEF ThreadCall

\* A step of the store is a step of EventLifetime: in a history with late readings
\* the mapping does not move at all.
LEMMA LifetimeStep ==
    ASSUME NoEventStranded, NoEventStranded', [Next]_vars
    PROVE  [Lifetime!Call \/ Lifetime!Pass]_(Lifetime!vars)
<1>1. lag' = lag /\ lag \in Nat
  <2>1. lag' = lag
    BY Zenon DEF Next, vars
  <2> QED BY <2>1, MemoryConstantsOK, Zenon DEF NoEventStranded, TypeOK
<1>2. CASE lag > 0
  BY <1>1, <1>2, Zenon DEF state, left, Lifetime!vars
<1>3. CASE lag = 0
  <2>1. Mapped /\ Mapped'
    <3>1. (NoEventStranded /\ lag = 0 => Mapped)'
      BY MappedFacts, PTL
    <3> QED BY <1>1, <1>3, <3>1, MappedFacts, Zenon
  <2>2. state' \in [Events -> Lifetime!States] /\ left' \in [Events -> Int]
    <3>1. (NoEventStranded => state \in [Events -> Lifetime!States] /\ left \in [Events -> Int])'
      BY MappedType, PTL
    <3> QED BY <3>1, Zenon
  <2>3. now \in Nat /\ Readings = {now}
    BY <1>3, TableFacts, SMT, SMTT(30) DEF Readings
  <2>4. ASSUME ThreadCall(now) \/ \E w \in Workers : WorkerCall(w, now)
        PROVE  Lifetime!Call
    <3>1. now' = now
      <4>1. ASSUME ThreadCall(now) PROVE now' = now
        BY <4>1, Zenon DEF ThreadCall, AstoreEvent, Apush, Adequeue, AexpireDue, Aexpire, Adelete, Forget
      <4>2. ASSUME NEW w, WorkerCall(w, now) PROVE now' = now
        BY <4>2, ZenonT(40) DEF WorkerCall, Aclaim, Arenew, Arelease, Aremove, Forget
      <4> QED BY <2>4, <4>1, <4>2, Zenon
    <3>2. Punctual
      BY <1>3, <2>1, <3>1, Zenon DEF Punctual
    <3>3. now \in Readings
      BY <2>3, Zenon
    <3>4. \A e \in Events : Moves(e)
      BY <2>4, <3>2, <3>3, ThreadCallMoves, WorkerCallMoves, Zenon
    <3> QED BY <2>2, <3>4, Zenon DEF Moves, Lifetime!Call
  <2>5. ASSUME Tick PROVE Lifetime!Pass
    <3>1. /\ now' = now + 1
          /\ UNCHANGED <<entries, unclaimed_deadlines, unclaimed_remaining, claims, issued, ended>>
      BY <2>5, Zenon DEF Tick, tables
    <3>2. state' = state
      BY <1>1, <3>1, Zenon DEF state
    <3>3. ASSUME NEW e \in Events
          PROVE  left'[e] = IF state[e] = "available" THEN left[e] - 1 ELSE left[e]
      <4>1. DOMAIN claims \subseteq entries /\ entries \subseteq issued
            /\ DOMAIN unclaimed_deadlines = entries \ DOMAIN claims
        BY TableFacts, Zenon
      <4>2. CASE e \in entries \ DOMAIN claims
        <5>1. unclaimed_deadlines[e] \in Nat
          BY <4>1, <4>2, Zenon DEF NoEventStranded, TypeOK
        <5>2. /\ left'[e] = unclaimed_deadlines[e] - (now + 1)
              /\ left[e] = unclaimed_deadlines[e] - now /\ state[e] = "available"
          BY <2>1, <3>1, <4>2, Zenon DEF Mapped
        <5>3. unclaimed_deadlines[e] - (now + 1) = (unclaimed_deadlines[e] - now) - 1
          BY <2>3, <5>1, Durations, Zenon
        <5> QED BY <5>2, <5>3, Zenon
      <4>3. CASE e \notin entries \ DOMAIN claims
        <5>1. left'[e] = left[e]
          <6>1. /\ e \notin issued => left[e] = 0
                /\ e \in issued \ entries => left[e] = 0
                /\ e \in DOMAIN claims => left[e] = unclaimed_remaining[e]
            BY <2>1, Zenon DEF Mapped
          <6>2. /\ e \notin issued' => left'[e] = 0
                /\ e \in issued' \ entries' => left'[e] = 0
                /\ e \in DOMAIN claims' => left'[e] = unclaimed_remaining'[e]
            BY <2>1, Zenon DEF Mapped
          <6> QED BY <3>1, <4>1, <4>3, <6>1, <6>2, Zenon
        <5>2. state[e] # "available"
          <6>1. e \in issued \ entries => ended[e] \in {"consumed", "expired", "cleared"}
            BY Zenon DEF NoEventStranded, TypeOK
          <6> QED BY <2>1, <4>1, <4>3, <6>1, Zenon DEF Mapped
        <5> QED BY <5>1, <5>2, Zenon
      <4> QED BY <4>2, <4>3, Zenon
    <3>4. left' = [e \in Events |-> IF state[e] = "available" THEN left[e] - 1 ELSE left[e]]
      <4>1. DOMAIN left' = Events /\ left' \in [Events -> Int]
        BY <2>2, Zenon
      <4> QED BY <3>3, <4>1, Zenon
    <3> QED BY <3>2, <3>4, Zenon DEF Lifetime!Pass
  <2>6. CASE UNCHANGED vars
    BY <2>6, Zenon DEF vars, tables, Lifetime!vars, state, left
  <2>7. CASE Next
    <3>1. (ThreadCall(now) \/ \E w \in Workers : WorkerCall(w, now)) \/ Tick
      BY <2>3, <2>7, Zenon DEF Next
    <3> QED BY <2>4, <2>5, <3>1, Zenon
  <2> QED BY <2>6, <2>7, Zenon
<1> QED BY <1>1, <1>2, <1>3, SMT, SMTT(30)

\* The in-process store implements EventLifetime too, in every history whose
\* readings of the clock are up to date: a claim stops an event's lifetime, release
\* and recovery resume it, and an event ends once, as expired only when its lifetime
\* is used up.
THEOREM MemoryRefinesLifetime == Spec => LifetimeSpec
<1>1. Init => Lifetime!Init
  <2> SUFFICES ASSUME Init PROVE Lifetime!Init
    BY Zenon
  <2>1. issued = {} /\ unclaimed_remaining = <<>> /\ unclaimed_deadlines = <<>>
    BY Zenon DEF Init
  <2>2. DOMAIN unclaimed_remaining = {} /\ DOMAIN unclaimed_deadlines = {}
    BY <2>1
  <2> QED BY <2>1, <2>2, Zenon DEF Lifetime!Init, state, left
<1> QED
  BY <1>1, LifetimeStep, MemoryEventsAreNotStranded, PTL DEF Spec, LifetimeSpec, Lifetime!Spec

-------------------------------------------------------------------------------
\* The event workers.  A worker that has claimed an event is at one of these places
\* of its code until it has released or removed it.
Dispatching == {"listen", "release", "remove"}
Busy(w) == ew[w].pc \in Dispatching

\* What makes NoClaimStuck inductive: what a worker has in hand is its own claim, for
\* ever, unless a clear took the record; no two have the same event in hand; and an
\* event that was taken is gone, or in the hand of the worker that removes it.
InHandInv ==
    /\ \A w \in EventWorkers, e \in Events :
          Owns(w, e) => InHand(w) = e /\ Busy(w) /\ e \notin DOMAIN claim_deadlines
    /\ \A w \in EventWorkers :
          Busy(w) => /\ InHand(w) \in issued
                     /\ Owns(w, InHand(w)) \/ InHand(w) \notin entries
    /\ \A v, w \in EventWorkers : Busy(v) /\ Busy(w) /\ InHand(v) = InHand(w) => v = w
    /\ \A w \in EventWorkers : At(w, "listen") => taken[InHand(w)] = 0
    /\ \A e \in Events :
          \/ taken[e] = 0
          \/ /\ taken[e] = 1 /\ e \in issued
             /\ e \notin entries \/ \E w \in EventWorkers : At(w, "remove") /\ InHand(w) = e

\* An event that is gone does not come back.
NoneReturns == issued \subseteq issued' /\ (issued \ entries) \cap entries' = {}

\* A step of the store as a worker v sees it that has not called: it gains no claim and
\* no lease, and keeps every claim without a lease unless the record goes.
LeavesAlone(v) ==
    /\ \A e : Owns(v, e)' => Owns(v, e) /\ (e \in DOMAIN claim_deadlines' => e \in DOMAIN claim_deadlines)
    /\ \A e : Owns(v, e) /\ e \notin DOMAIN claim_deadlines => Owns(v, e)' \/ e \notin entries'

LEMMA GoneForGood == NoEventStranded /\ [Next]_vars => NoneReturns
<1> SUFFICES ASSUME NoEventStranded, [Next]_vars PROVE NoneReturns
  BY Zenon
<1>1. ASSUME issued' = issued, entries' \subseteq entries PROVE NoneReturns
  BY <1>1, Zenon DEF NoneReturns
<1>2. ASSUME NEW t \in Readings, ThreadCall(t) PROVE NoneReturns
  <2>1. ASSUME NEW x, NEW life, AstoreEvent(x, life, t) PROVE NoneReturns
    BY <2>1, Zenon DEF AstoreEvent, NoneReturns
  <2>2. ASSUME NEW x, Apush(x) PROVE NoneReturns
    BY <1>1, <2>2, Zenon DEF Apush, tables
  <2>3. ASSUME NEW got, Adequeue(got, t) PROVE NoneReturns
    BY <1>1, <2>3, ZenonT(30) DEF Adequeue, Recovered
  <2>4. ASSUME NEW S, NEW how, Forget(S, how) PROVE NoneReturns
    BY <1>1, <2>4, Zenon DEF Forget
  <2> QED BY <1>2, <2>1, <2>2, <2>3, <2>4, Zenon DEF ThreadCall, AexpireDue, Aexpire, Adelete
<1>3. ASSUME NEW t \in Readings, NEW w, WorkerCall(w, t) PROVE NoneReturns
  <2>1. ASSUME NEW lease, NEW got, Aclaim(w, lease, got, t) PROVE NoneReturns
    BY <1>1, <2>1, ZenonT(30) DEF Aclaim, Recovered
  <2>2. ASSUME NEW x, NEW lease, Arenew(w, x, lease, t) PROVE NoneReturns
    BY <1>1, <2>2, Zenon DEF Arenew
  <2>3. ASSUME NEW x, NEW delay, Arelease(w, x, delay, t) PROVE NoneReturns
    BY <1>1, <2>3, Zenon DEF Arelease
  <2>4. ASSUME NEW x, Aremove(w, x) PROVE NoneReturns
    BY <1>1, <2>4, Zenon DEF Aremove, Forget
  <2> QED BY <1>3, <2>1, <2>2, <2>3, <2>4, Zenon DEF WorkerCall
<1>4. Tick \/ UNCHANGED vars => NoneReturns
  BY <1>1, Zenon DEF Tick, tables, vars
<1> QED BY <1>2, <1>3, <1>4, Zenon DEF Next

\* The same for a claim that the step keeps.
LEMMA KeptIsOwned == ASSUME NEW v, NEW e, Owns(v, e), KeptBy(e) PROVE Owns(v, e)'
  BY Zenon DEF Owns, KeptBy

\* _aclaim gives no claim to any but its caller, and none to that if it returns none.
LEMMA AclaimLeaves ==
    ASSUME NoEventStranded, NEW t \in Readings, NEW w, NEW lease, NEW got, Aclaim(w, lease, got, t),
           NEW v, v # w \/ got = NoEvent
    PROVE  LeavesAlone(v)
<1>a. PICK back \in Returned(t) : \E rest \in Seq(issued), it \in SUBSET issued :
        ClaimOutcome(w, lease, got, t, back, rest, it)
  BY AclaimCases, Zenon
<1>b. PICK rest \in Seq(issued), it \in SUBSET issued : ClaimOutcome(w, lease, got, t, back, rest, it)
  BY <1>a, Zenon
<1>1. /\ issued' = issued /\ entries' \subseteq entries
      /\ \/ claims' = Held(t) /\ claim_deadlines' = Without(claim_deadlines, Lapsed(t))
         \/ \E x \in entries : got = x /\ Claimed(w, x, lease, t)
  BY <1>b, Zenon DEF ClaimOutcome, Recovered
<1>2. DOMAIN Held(t) \subseteq DOMAIN claims /\ \A e \in DOMAIN Held(t) : Held(t)[e] = claims[e]
  BY RecoveryFacts, ZenonT(30)
<1>3. NoEvent \notin entries
  BY TableFacts, MemoryConstantsOK, Zenon
<1>4. ASSUME NEW e, Owns(v, e)'
      PROVE  Owns(v, e) /\ (e \in DOMAIN claim_deadlines' => e \in DOMAIN claim_deadlines)
  <2>1. CASE claims' = Held(t) /\ claim_deadlines' = Without(claim_deadlines, Lapsed(t))
    BY <1>2, <1>4, <2>1, ZenonT(30) DEF Owns, Without
  <2>2. ASSUME NEW x \in entries, got = x, Claimed(w, x, lease, t)
        PROVE  Owns(v, e) /\ (e \in DOMAIN claim_deadlines' => e \in DOMAIN claim_deadlines)
    <3>1. v # w
      BY <1>3, <2>2, Zenon
    <3>2. claims' = Zadd(Held(t), x, w)
      BY <2>2, Zenon DEF Claimed
    <3>3. DOMAIN claim_deadlines' \subseteq DOMAIN claim_deadlines \cup {x}
      <4>1. claim_deadlines' = LET kept == Without(claim_deadlines, Lapsed(t))
                               IN IF lease = NoLease THEN kept ELSE Zadd(kept, x, t + lease)
        BY <2>2, Zenon DEF Claimed
      <4> QED BY <4>1, Zenon DEF Without, Zadd
    <3>4. e \in DOMAIN claims' /\ claims'[e] = v
      BY <1>4, Zenon DEF Owns
    <3>5. e # x
      BY <3>1, <3>2, <3>4, Zenon DEF Zadd
    <3>6. e \in DOMAIN Held(t) /\ Held(t)[e] = v
      BY <3>2, <3>4, <3>5, Zenon DEF Zadd
    <3> QED BY <1>2, <3>3, <3>5, <3>6, Zenon DEF Owns
  <2> QED BY <1>1, <2>1, <2>2, ZenonT(30)
<1>5. ASSUME NEW e, Owns(v, e), e \notin DOMAIN claim_deadlines PROVE Owns(v, e)'
  <2>1. Standing(e)
    BY <1>5, Zenon DEF Standing, Owns
  <2> QED BY <1>5, <2>1, AclaimKeeps, KeptIsOwned, Zenon
<1> QED BY <1>1, <1>4, <1>5, Zenon DEF LeavesAlone

\* Every other call on claims leaves the claims of others alone.
LEMMA WorkerCallLeaves ==
    ASSUME NoEventStranded, NEW t \in Readings, NEW w, WorkerCall(w, t), NEW v, v # w
    PROVE  LeavesAlone(v)
<1>1. ASSUME NEW lease, NEW got, Aclaim(w, lease, got, t) PROVE LeavesAlone(v)
  BY <1>1, AclaimLeaves, Zenon
<1>2. ASSUME NEW e, Owns(v, e), e \notin DOMAIN claim_deadlines PROVE Owns(v, e)'
  <2>1. Standing(e) /\ claims[e] # w
    BY <1>2, Zenon DEF Standing, Owns
  <2>2. KeptBy(e)
    BY <2>1, WorkerCallKeeps, Zenon
  <2> QED BY <1>2, <2>2, KeptIsOwned, Zenon
<1>3. ASSUME NEW x, NEW lease \in Leases, Arenew(w, x, lease, t) PROVE LeavesAlone(v)
  <2>1. PICK back \in Returned(t) :
          /\ claims' = Held(t) /\ UNCHANGED <<entries, issued>>
          /\ claim_deadlines' = LET kept == Without(claim_deadlines, Lapsed(t))
                                IN IF x \in DOMAIN Held(t) /\ claims[x] = w THEN Zadd(kept, x, t + lease) ELSE kept
    BY <1>3, Zenon DEF Arenew
  <2>2. DOMAIN Held(t) \subseteq DOMAIN claims /\ \A e \in DOMAIN Held(t) : Held(t)[e] = claims[e]
    BY RecoveryFacts, ZenonT(30)
  <2>3. ASSUME NEW e, Owns(v, e)'
        PROVE  Owns(v, e) /\ (e \in DOMAIN claim_deadlines' => e \in DOMAIN claim_deadlines)
    <3>1. Owns(v, e)
      BY <2>1, <2>2, <2>3, Zenon DEF Owns
    <3>2. claims[x] = w => e # x
      BY <3>1, Zenon DEF Owns
    <3>3. e \in DOMAIN claim_deadlines' => e \in DOMAIN claim_deadlines
      BY <2>1, <3>2, ZenonT(30) DEF Without, Zadd
    <3> QED BY <3>1, <3>3, Zenon
  <2> QED BY <1>2, <2>1, <2>3, Zenon DEF LeavesAlone
<1>4. ASSUME NEW x, NEW delay \in Delays, Arelease(w, x, delay, t) PROVE LeavesAlone(v)
  <2>1. /\ claims' = Without(claims, {x}) /\ claim_deadlines' = Without(claim_deadlines, {x})
        /\ UNCHANGED <<entries, issued>>
    BY <1>4, Zenon DEF Arelease
  <2> QED BY <1>2, <2>1, Zenon DEF LeavesAlone, Owns, Without
<1>5. ASSUME NEW x, Aremove(w, x) PROVE LeavesAlone(v)
  <2>1. /\ claims' = Without(claims, {x}) /\ claim_deadlines' = Without(claim_deadlines, {x})
        /\ entries' \subseteq entries /\ issued' = issued
    BY <1>5, Zenon DEF Aremove, Unclaim, Forget
  <2> QED BY <1>2, <2>1, Zenon DEF LeavesAlone, Owns, Without
<1> QED BY <1>1, <1>3, <1>4, <1>5, Zenon DEF WorkerCall

\* The calls that do not claim leave all of them alone.
LEMMA ThreadCallLeaves ==
    ASSUME NoEventStranded, NEW t \in Readings, ThreadCall(t), NEW v
    PROVE  LeavesAlone(v)
<1>1. ASSUME NEW e, Owns(v, e), e \notin DOMAIN claim_deadlines PROVE Owns(v, e)' \/ e \notin entries'
  <2>1. Standing(e)
    BY <1>1, Zenon DEF Standing, Owns
  <2>2. KeptBy(e) \/ Adelete(e)
    BY <2>1, ThreadCallKeeps, Zenon
  <2>3. Adelete(e) => e \notin entries'
    BY Zenon DEF Adelete, Forget
  <2> QED BY <1>1, <2>2, <2>3, KeptIsOwned, Zenon
<1>2. ASSUME DOMAIN claims' \subseteq DOMAIN claims, \A e \in DOMAIN claims' : claims'[e] = claims[e],
             DOMAIN claim_deadlines' \subseteq DOMAIN claim_deadlines
      PROVE  LeavesAlone(v)
  BY <1>1, <1>2, ZenonT(30) DEF LeavesAlone, Owns
<1>3. ASSUME NEW x, NEW life, AstoreEvent(x, life, t) PROVE LeavesAlone(v)
  BY <1>2, <1>3, Zenon DEF AstoreEvent
<1>4. ASSUME NEW x, Apush(x) PROVE LeavesAlone(v)
  BY <1>2, <1>4, Zenon DEF Apush, tables
<1>5. ASSUME NEW got, Adequeue(got, t) PROVE LeavesAlone(v)
  <2>a. PICK back \in Returned(t) : \E it, dead \in SUBSET issued : DequeueOutcome(got, t, back, it, dead)
    BY <1>5, AdequeueCases, Zenon
  <2>b. PICK it, dead \in SUBSET issued : DequeueOutcome(got, t, back, it, dead)
    BY <2>a, Zenon
  <2>1. Recovered(t, it \cup dead) /\ issued' = issued
    BY <2>b, Zenon DEF DequeueOutcome
  <2>2. /\ claims' = Held(t) /\ entries' \subseteq entries
        /\ claim_deadlines' = Without(claim_deadlines, Lapsed(t))
    BY <2>1, Zenon DEF Recovered
  <2>3. DOMAIN Held(t) \subseteq DOMAIN claims /\ \A e \in DOMAIN Held(t) : Held(t)[e] = claims[e]
    BY RecoveryFacts, ZenonT(30)
  <2> QED BY <1>2, <2>1, <2>2, <2>3, Zenon DEF Without
<1>6. ASSUME NEW S, NEW how, Forget(S, how), UNCHANGED <<claims, claim_deadlines>> PROVE LeavesAlone(v)
  BY <1>2, <1>6, Zenon DEF Forget
<1>7. ASSUME NEW x, Adelete(x) PROVE LeavesAlone(v)
  BY <1>2, <1>7, Zenon DEF Adelete, Forget, Unclaim, Without
<1> QED BY <1>3, <1>4, <1>5, <1>6, <1>7, Zenon DEF ThreadCall, AexpireDue, Aexpire

\* _aclaim without a lease gives its caller a claim that no one had and none recovers.
LEMMA AclaimGives ==
    ASSUME NoEventStranded, NEW t \in Readings, NEW w, NEW got, Aclaim(w, NoLease, got, t), got # NoEvent
    PROVE  /\ got \in entries /\ got \in issued /\ UNCHANGED <<entries, issued>> /\ ~Standing(got)
           /\ Owns(w, got)' /\ got \notin DOMAIN claim_deadlines'
           /\ \A e : Owns(w, e)' => e = got \/ Owns(w, e)
<1>a. PICK back \in Returned(t) : \E rest \in Seq(issued), it \in SUBSET issued :
        ClaimOutcome(w, NoLease, got, t, back, rest, it)
  BY AclaimCases, Zenon
<1>b. PICK rest \in Seq(issued), it \in SUBSET issued : ClaimOutcome(w, NoLease, got, t, back, rest, it)
  BY <1>a, Zenon
<1>1. /\ it \subseteq Range(pending \o back) /\ it = {got} /\ got \in entries
      /\ Claimed(w, got, NoLease, t) /\ UNCHANGED <<entries, issued>>
  BY <1>b, Zenon DEF ClaimOutcome
<1>2. claims' = Zadd(Held(t), got, w) /\ claim_deadlines' = Without(claim_deadlines, Lapsed(t))
  BY <1>1, Zenon DEF Claimed
<1>3. /\ DOMAIN Held(t) = DOMAIN claims \ Lapsed(t) /\ \A e \in DOMAIN Held(t) : Held(t)[e] = claims[e]
      /\ got \notin DOMAIN Held(t)
  BY <1>1, RecoveryFacts, ZenonT(30)
<1>4. got \notin DOMAIN claim_deadlines'
  BY <1>2, <1>3, TableFacts, Zenon DEF Without
<1>5. ~Standing(got)
  BY <1>3, StandingFacts, ZenonT(30)
<1>6. Owns(w, got)' /\ \A e : Owns(w, e)' => e = got \/ Owns(w, e)
  BY <1>2, <1>3, Zenon DEF Owns, Zadd
<1> QED BY <1>1, <1>4, <1>5, <1>6, TableFacts, Zenon

-------------------------------------------------------------------------------
\* What a worker has of its own.
Locals == [pc : Places, event : Events \cup {NoEvent}, cursor : Listeners, to_visit : Listeners,
           closing : BOOLEAN]

\* A step of w takes it to where, with event in hand.
Moved(w, where, event) ==
    /\ ew' \in [EventWorkers -> Locals]
    /\ \A v \in EventWorkers \ {w} : ew'[v] = ew[v]
    /\ ew'[w].pc = where /\ ew'[w].event = event

LEMMA TypeIs == EWTypeOK = (ew \in [EventWorkers -> Locals] /\ taken \in [Events -> Nat])
  BY Zenon DEF EWTypeOK, Locals

LEMMA CursorFacts ==
    ASSUME NEW c \in Listeners
    PROVE  /\ (c + 1) % NumListeners \in Listeners /\ NumListeners - 1 \in Listeners /\ 0 \in Listeners
           /\ c > 0 => c - 1 \in Listeners
<1>1. NumListeners \in Nat /\ NumListeners > 0 /\ c \in 0 .. NumListeners - 1
  BY MemoryWorkerConstantsOK DEF Listeners
<1>2. (c + 1) % NumListeners \in 0 .. NumListeners - 1
  BY <1>1
<1> QED BY <1>1, <1>2, SMT, SMTT(30) DEF Listeners

LEMMA RestMoves ==
    ASSUME ew \in [EventWorkers -> Locals], NEW w \in EventWorkers, NEW where \in Places,
           NEW c \in Listeners, ew' = [ew EXCEPT ![w] = AtRest(where, c)]
    PROVE  Moved(w, where, NoEvent)
<1>1. AtRest(where, c) \in Locals /\ AtRest(where, c).pc = where /\ AtRest(where, c).event = NoEvent
  BY CursorFacts, Zenon DEF AtRest, Locals
<1> HIDE DEF AtRest, Locals
<1> QED BY <1>1, Zenon DEF Moved

LEMMA GotoMoves ==
    ASSUME ew \in [EventWorkers -> Locals], NEW w \in EventWorkers, NEW where \in Places, Goto(w, where)
    PROVE  Moved(w, where, InHand(w))
<1>1. ew' = [ew EXCEPT ![w] = [ew[w] EXCEPT !.pc = where]]
  BY Zenon DEF Goto
<1>2. [ew[w] EXCEPT !.pc = where] \in Locals
  BY Zenon DEF Locals
<1>3. [ew[w] EXCEPT !.pc = where].pc = where /\ [ew[w] EXCEPT !.pc = where].event = ew[w].event
  BY Zenon DEF Locals
<1> QED BY <1>1, <1>2, <1>3, Zenon DEF Moved, InHand

\* The inductive invariant.
StuckInv == NoEventStranded /\ EWTypeOK /\ InHandInv

\* A step in which no worker takes up or lays down an event.
LEMMA QuietStep ==
    ASSUME NoEventStranded, InHandInv, NoneReturns, taken' = taken,
           \A v \in EventWorkers : /\ LeavesAlone(v)
                                   /\ ew'[v] = ew[v] \/ (~Busy(v) /\ ew'[v].pc \notin Dispatching)
    PROVE  InHandInv'
<1>0. issued \subseteq Events
  BY TableFacts, ZenonT(30)
<1>1. ASSUME NEW w \in EventWorkers, NEW e \in Events, Owns(w, e)'
      PROVE  ew'[w].event = e /\ ew'[w].pc \in Dispatching /\ e \notin DOMAIN claim_deadlines'
  <2>1. Owns(w, e) /\ (e \in DOMAIN claim_deadlines' => e \in DOMAIN claim_deadlines)
    BY <1>1, ZenonT(30) DEF LeavesAlone
  <2>2. InHand(w) = e /\ Busy(w) /\ e \notin DOMAIN claim_deadlines
    BY <2>1, ZenonT(30) DEF InHandInv
  <2> QED BY <2>1, <2>2, ZenonT(30) DEF InHand, Busy
<1>2. ASSUME NEW w \in EventWorkers, ew'[w].pc \in Dispatching
      PROVE  /\ ew'[w] = ew[w] /\ Busy(w) /\ ew[w].event \in issued'
             /\ Owns(w, ew[w].event)' \/ ew[w].event \notin entries'
  <2>1. ew'[w] = ew[w] /\ Busy(w)
    BY <1>2, ZenonT(30) DEF Busy
  <2>2. ew[w].event \in issued /\ (Owns(w, ew[w].event) \/ ew[w].event \notin entries)
    BY <2>1, ZenonT(30) DEF InHandInv, InHand
  <2>3. CASE ew[w].event \notin entries
    BY <2>1, <2>2, <2>3, Zenon DEF NoneReturns
  <2>4. CASE Owns(w, ew[w].event)
    <3>1. ew[w].event \notin DOMAIN claim_deadlines
      BY <1>0, <2>2, <2>4, Zenon DEF InHandInv
    <3> QED BY <2>1, <2>2, <2>4, <3>1, Zenon DEF LeavesAlone, NoneReturns
  <2> QED BY <2>2, <2>3, <2>4, Zenon
<1>3. ASSUME NEW v \in EventWorkers, NEW w \in EventWorkers, ew'[v].pc \in Dispatching,
             ew'[w].pc \in Dispatching, ew'[v].event = ew'[w].event
      PROVE  v = w
  BY <1>2, <1>3, ZenonT(30) DEF InHandInv, InHand
<1>4. ASSUME NEW w \in EventWorkers, ew'[w].pc = "listen" PROVE taken'[ew'[w].event] = 0
  BY <1>2, <1>4, ZenonT(30) DEF Dispatching, InHandInv, InHand, At
<1>5. ASSUME NEW e \in Events
      PROVE  \/ taken'[e] = 0
             \/ /\ taken'[e] = 1 /\ e \in issued'
                /\ e \notin entries' \/ \E w \in EventWorkers : ew'[w].pc = "remove" /\ ew'[w].event = e
  <2>1. CASE taken[e] # 0 /\ e \in entries
    <3>1. PICK w \in EventWorkers : At(w, "remove") /\ InHand(w) = e
      BY <2>1, ZenonT(30) DEF InHandInv
    <3>2. ew'[w] = ew[w]
      BY <3>1, Zenon DEF At, Busy, Dispatching
    <3> QED BY <2>1, <3>1, <3>2, ZenonT(30) DEF InHandInv, At, InHand, NoneReturns
  <2>2. CASE ~(taken[e] # 0 /\ e \in entries)
    BY <2>2, ZenonT(30) DEF InHandInv, NoneReturns
  <2> QED BY <2>1, <2>2, Zenon
<1> QED BY <1>1, <1>2, <1>3, <1>4, <1>5, Zenon DEF InHandInv, InHand, Busy, At

\* w takes up the event that it has claimed.
LEMMA TakeUpStep ==
    ASSUME NoEventStranded, InHandInv, NoneReturns, taken' = taken, EWTypeOK,
           NEW w \in EventWorkers, ~Busy(w), NEW got \in entries, Moved(w, "listen", got),
           \A v \in EventWorkers \ {w} : LeavesAlone(v),
           UNCHANGED <<entries, issued>>, ~Standing(got),
           Owns(w, got)', got \notin DOMAIN claim_deadlines',
           \A e : Owns(w, e)' => e = got \/ Owns(w, e)
    PROVE  InHandInv'
<1>0. issued \subseteq Events /\ entries \subseteq issued
  BY TableFacts, ZenonT(30)
<1>1. ew'[w].pc = "listen" /\ ew'[w].event = got /\ \A v \in EventWorkers \ {w} : ew'[v] = ew[v]
  BY ZenonT(30) DEF Moved
<1>2. \A v \in EventWorkers : Busy(v) => InHand(v) # got
  <2> SUFFICES ASSUME NEW v \in EventWorkers, Busy(v), InHand(v) = got PROVE FALSE
    BY Zenon
  <2>1. Owns(v, got)
    BY ZenonT(30) DEF InHandInv
  <2>2. got \notin DOMAIN claim_deadlines
    BY <1>0, <2>1, ZenonT(30) DEF InHandInv
  <2> QED BY <2>1, <2>2, Zenon DEF Owns, Standing
<1>3. taken[got] = 0
  <2> SUFFICES ASSUME taken[got] # 0 PROVE FALSE
    BY ZenonT(30)
  <2>1. PICK v \in EventWorkers : At(v, "remove") /\ InHand(v) = got
    BY <1>0, ZenonT(30) DEF InHandInv
  <2> QED BY <1>2, <2>1, ZenonT(30) DEF At, Busy, Dispatching
<1>4. ASSUME NEW v \in EventWorkers, NEW e \in Events, Owns(v, e)'
      PROVE  ew'[v].event = e /\ ew'[v].pc \in Dispatching /\ e \notin DOMAIN claim_deadlines'
  <2>1. CASE v = w
    <3>1. e = got
      BY <1>4, <2>1, ZenonT(30) DEF InHandInv
    <3> QED BY <1>1, <2>1, <3>1, Zenon DEF Dispatching
  <2>2. CASE v # w
    <3>1. Owns(v, e) /\ (e \in DOMAIN claim_deadlines' => e \in DOMAIN claim_deadlines)
      BY <1>4, <2>2, Zenon DEF LeavesAlone
    <3>2. InHand(v) = e /\ Busy(v) /\ e \notin DOMAIN claim_deadlines
      BY <3>1, ZenonT(30) DEF InHandInv
    <3> QED BY <1>1, <2>2, <3>1, <3>2, Zenon DEF InHand, Busy
  <2> QED BY <2>1, <2>2, ZenonT(30)
<1>5. ASSUME NEW v \in EventWorkers, ew'[v].pc \in Dispatching
      PROVE  ew'[v].event \in issued' /\ (Owns(v, ew[v].event)' \/ ew'[v].event \notin entries')
  <2>1. CASE v = w
    BY <1>0, <1>1, <2>1, ZenonT(30) DEF Owns
  <2>2. CASE v # w
    <3>1. ew'[v] = ew[v] /\ Busy(v) /\ ew[v].event \in issued
          /\ (Owns(v, ew[v].event) \/ ew[v].event \notin entries)
      BY <1>1, <1>5, <2>2, ZenonT(30) DEF InHandInv, InHand, Busy
    <3>2. Owns(v, ew[v].event) => ew[v].event \notin DOMAIN claim_deadlines
      BY <1>0, <3>1, ZenonT(30) DEF InHandInv
    <3>3. Owns(v, ew[v].event) => (\E e : e = ew[v].event /\ Owns(v, e)') \/ ew[v].event \notin entries'
      BY <2>2, <3>1, <3>2, Zenon DEF LeavesAlone
    <3> QED BY <3>1, <3>3, ZenonT(30) DEF Owns
  <2> QED BY <2>1, <2>2, ZenonT(30)
<1>6. ASSUME NEW u \in EventWorkers, NEW v \in EventWorkers, ew'[u].pc \in Dispatching,
             ew'[v].pc \in Dispatching, ew'[u].event = ew'[v].event
      PROVE  u = v
  <2>1. \A x \in EventWorkers \ {w} : ew'[x].pc \in Dispatching => Busy(x) /\ InHand(x) = ew'[x].event
    BY <1>1, Zenon DEF Busy, InHand
  <2>2. CASE u = w \/ v = w
    BY <1>1, <1>2, <1>6, <2>1, <2>2, Zenon
  <2>3. CASE u # w /\ v # w
    BY <1>6, <2>1, <2>3, Zenon DEF InHandInv
  <2> QED BY <2>2, <2>3, Zenon
<1>7. ASSUME NEW v \in EventWorkers, ew'[v].pc = "listen" PROVE taken'[ew'[v].event] = 0
  <2>1. CASE v = w
    BY <1>1, <1>3, <2>1, Zenon
  <2>2. CASE v # w
    <3>1. ew'[v] = ew[v] /\ At(v, "listen")
      BY <1>1, <1>7, <2>2, Zenon DEF At
    <3> QED BY <3>1, Zenon DEF InHandInv, InHand
  <2> QED BY <2>1, <2>2, Zenon
<1>8. ASSUME NEW e \in Events
      PROVE  \/ taken'[e] = 0
             \/ /\ taken'[e] = 1 /\ e \in issued'
                /\ e \notin entries' \/ \E v \in EventWorkers : ew'[v].pc = "remove" /\ ew'[v].event = e
  <2>1. CASE taken[e] # 0 /\ e \in entries
    <3>1. PICK v \in EventWorkers : At(v, "remove") /\ InHand(v) = e
      BY <2>1, ZenonT(30) DEF InHandInv
    <3>2. ew'[v] = ew[v]
      BY <1>1, <3>1, Zenon DEF At, Busy, Dispatching
    <3> QED BY <2>1, <3>1, <3>2, Zenon DEF InHandInv, At, InHand, NoneReturns
  <2>2. CASE ~(taken[e] # 0 /\ e \in entries)
    BY <2>2, Zenon DEF InHandInv, NoneReturns
  <2> QED BY <2>1, <2>2, ZenonT(30)
<1> QED BY <1>4, <1>5, <1>6, <1>7, <1>8, Zenon DEF InHandInv, InHand, Busy, At

\* A listener has answered, or is cancelled: w still has its event in hand.
LEMMA AnswerStep ==
    ASSUME NoEventStranded, EWTypeOK, InHandInv, UNCHANGED <<entries, issued, claims, claim_deadlines>>,
           NEW w \in EventWorkers, At(w, "listen"), NEW where \in Dispatching,
           Moved(w, where, InHand(w)),
           \/ where # "remove" /\ taken' = taken
           \/ where = "remove" /\ taken' = [taken EXCEPT ![InHand(w)] = @ + 1]
    PROVE  InHandInv'
<1>0. issued \subseteq Events
  BY TableFacts, ZenonT(30)
<1>1. ew'[w].pc = where /\ ew'[w].event = ew[w].event /\ \A v \in EventWorkers \ {w} : ew'[v] = ew[v]
  BY ZenonT(30) DEF Moved, InHand
<1>2. /\ Busy(w) /\ ew[w].event \in issued /\ taken[ew[w].event] = 0
      /\ \A v \in EventWorkers \ {w} : Busy(v) => ew[v].event # ew[w].event
  BY ZenonT(30) DEF InHandInv, At, Busy, Dispatching, InHand
<1>3. \A v \in EventWorkers : ew'[v].event = ew[v].event /\ (ew'[v].pc \in Dispatching <=> Busy(v))
  BY <1>1, <1>2, Zenon DEF Busy
<1>4. \A v \in EventWorkers, e \in Events :
          Owns(v, e)' => ew'[v].event = e /\ ew'[v].pc \in Dispatching /\ e \notin DOMAIN claim_deadlines'
  <2> SUFFICES ASSUME NEW v \in EventWorkers, NEW e \in Events, Owns(v, e)'
               PROVE  ew'[v].event = e /\ ew'[v].pc \in Dispatching /\ e \notin DOMAIN claim_deadlines'
    BY Zenon
  <2>1. Owns(v, e)
    BY Zenon DEF Owns
  <2>2. InHand(v) = e /\ Busy(v) /\ e \notin DOMAIN claim_deadlines
    BY <2>1, ZenonT(30) DEF InHandInv
  <2> QED BY <1>3, <2>2, Zenon DEF InHand
<1>5. \A v \in EventWorkers : ew'[v].pc \in Dispatching =>
          ew'[v].event \in issued' /\ (Owns(v, ew[v].event)' \/ ew'[v].event \notin entries')
  BY <1>3, Zenon DEF InHandInv, Owns, InHand
<1>6. \A u, v \in EventWorkers :
          ew'[u].pc \in Dispatching /\ ew'[v].pc \in Dispatching /\ ew'[u].event = ew'[v].event => u = v
  BY <1>3, ZenonT(30) DEF InHandInv, InHand
<1>7. taken \in [Events -> Nat] /\ ew[w].event \in Events
  BY <1>0, <1>2, Zenon DEF EWTypeOK
<1>8. CASE where # "remove" /\ taken' = taken
  <2>1. ASSUME NEW v \in EventWorkers, ew'[v].pc = "listen" PROVE taken'[ew'[v].event] = 0
    <3>1. CASE v = w
      BY <1>1, <1>2, <1>8, <3>1, Zenon
    <3>2. CASE v # w
      <4>1. ew'[v] = ew[v] /\ At(v, "listen")
        BY <1>1, <2>1, <3>2, Zenon DEF At
      <4> QED BY <1>8, <4>1, Zenon DEF InHandInv, InHand
    <3> QED BY <3>1, <3>2, Zenon
  <2>2. ASSUME NEW e \in Events
        PROVE  \/ taken'[e] = 0
               \/ /\ taken'[e] = 1 /\ e \in issued'
                  /\ e \notin entries' \/ \E v \in EventWorkers : ew'[v].pc = "remove" /\ ew'[v].event = e
    <3>1. CASE taken[e] # 0 /\ e \in entries
      <4>1. PICK v \in EventWorkers : At(v, "remove") /\ InHand(v) = e
        BY <3>1, Zenon DEF InHandInv
      <4>2. ew'[v] = ew[v]
        BY <1>1, <4>1, Zenon DEF At
      <4> QED BY <1>8, <3>1, <4>1, <4>2, ZenonT(40) DEF InHandInv, At, InHand
    <3>2. CASE ~(taken[e] # 0 /\ e \in entries)
      BY <1>8, <3>2, ZenonT(30) DEF InHandInv
    <3> QED BY <3>1, <3>2, Zenon
  <2> QED BY <1>4, <1>5, <1>6, <2>1, <2>2, Zenon DEF InHandInv, InHand, Busy, At
<1>9. CASE where = "remove" /\ taken' = [taken EXCEPT ![InHand(w)] = @ + 1]
  <2>1. taken'[ew[w].event] = 1 /\ \A e \in Events : e # ew[w].event => taken'[e] = taken[e]
    BY <1>2, <1>7, <1>9, SMT, SMTT(30) DEF InHand
  <2>2. ASSUME NEW v \in EventWorkers, ew'[v].pc = "listen" PROVE taken'[ew'[v].event] = 0
    <3>1. v # w /\ ew'[v] = ew[v] /\ Busy(v) /\ At(v, "listen")
      BY <1>1, <1>9, <2>2, ZenonT(30) DEF Busy, Dispatching, At
    <3>2. ew[v].event # ew[w].event /\ ew[v].event \in Events /\ taken[ew[v].event] = 0
      BY <1>0, <1>2, <3>1, ZenonT(30) DEF InHandInv, InHand
    <3> QED BY <2>1, <3>1, <3>2, ZenonT(30)
  <2>3. ASSUME NEW e \in Events
        PROVE  \/ taken'[e] = 0
               \/ /\ taken'[e] = 1 /\ e \in issued'
                  /\ e \notin entries' \/ \E v \in EventWorkers : ew'[v].pc = "remove" /\ ew'[v].event = e
    <3>1. CASE e = ew[w].event
      BY <1>1, <1>2, <1>9, <2>1, <3>1, ZenonT(40)
    <3>2. CASE e # ew[w].event /\ taken[e] # 0 /\ e \in entries
      <4>1. PICK v \in EventWorkers : At(v, "remove") /\ InHand(v) = e
        BY <3>2, Zenon DEF InHandInv
      <4>2. ew'[v] = ew[v]
        BY <1>1, <4>1, Zenon DEF At
      <4>3. taken'[e] = taken[e]
        BY <2>1, <3>2, Zenon
      <4>4. taken[e] = 1 /\ e \in issued
        BY <3>2, ZenonT(30) DEF InHandInv
      <4>5. ew'[v].pc = "remove" /\ ew'[v].event = e /\ issued' = issued
        BY <4>1, <4>2, Zenon DEF At, InHand
      <4> QED BY <4>3, <4>4, <4>5, Zenon
    <3>3. CASE e # ew[w].event /\ ~(taken[e] # 0 /\ e \in entries)
      BY <2>1, <3>3, ZenonT(30) DEF InHandInv
    <3> QED BY <3>1, <3>2, <3>3, ZenonT(30)
  <2> QED BY <1>4, <1>5, <1>6, <2>2, <2>3, Zenon DEF InHandInv, InHand, Busy, At
<1> QED BY <1>8, <1>9, Zenon

\* w has laid down its event: it owns nothing, and what it has removed is gone.
LEMMA LayDownStep ==
    ASSUME NoEventStranded, InHandInv, NoneReturns, taken' = taken,
           NEW w \in EventWorkers, NEW where, where \notin Dispatching, Moved(w, where, NoEvent),
           \A v \in EventWorkers \ {w} : LeavesAlone(v),
           \A e \in Events : ~Owns(w, e)',
           At(w, "remove") => InHand(w) \notin entries'
    PROVE  InHandInv'
<1>0. issued \subseteq Events
  BY TableFacts, Zenon
<1>1. ew'[w].pc \notin Dispatching /\ \A v \in EventWorkers \ {w} : ew'[v] = ew[v]
  BY Zenon DEF Moved
<1>2. ASSUME NEW v \in EventWorkers, NEW e \in Events, Owns(v, e)'
      PROVE  ew'[v].event = e /\ ew'[v].pc \in Dispatching /\ e \notin DOMAIN claim_deadlines'
  <2>1. v # w
    BY <1>2, Zenon
  <2>2. Owns(v, e) /\ (e \in DOMAIN claim_deadlines' => e \in DOMAIN claim_deadlines)
    BY <1>2, <2>1, Zenon DEF LeavesAlone
  <2>3. InHand(v) = e /\ Busy(v) /\ e \notin DOMAIN claim_deadlines
    BY <2>2, ZenonT(30) DEF InHandInv
  <2> QED BY <1>1, <2>1, <2>2, <2>3, Zenon DEF InHand, Busy
<1>3. ASSUME NEW v \in EventWorkers, ew'[v].pc \in Dispatching
      PROVE  /\ v # w /\ ew'[v] = ew[v] /\ Busy(v) /\ ew[v].event \in issued'
             /\ Owns(v, ew[v].event)' \/ ew'[v].event \notin entries'
  <2>1. v # w /\ ew'[v] = ew[v] /\ Busy(v)
    BY <1>1, <1>3, ZenonT(30) DEF Busy
  <2>2. ew[v].event \in issued /\ (Owns(v, ew[v].event) \/ ew[v].event \notin entries)
    BY <2>1, ZenonT(30) DEF InHandInv, InHand
  <2>3. Owns(v, ew[v].event) => ew[v].event \notin DOMAIN claim_deadlines
    BY <1>0, <2>2, ZenonT(30) DEF InHandInv
  <2>4. Owns(v, ew[v].event) => (\E e : e = ew[v].event /\ Owns(v, e)') \/ ew[v].event \notin entries'
    BY <2>1, <2>3, ZenonT(30) DEF LeavesAlone
  <2> QED BY <2>1, <2>2, <2>4, ZenonT(30) DEF NoneReturns, Owns
<1>4. ASSUME NEW u \in EventWorkers, NEW v \in EventWorkers, ew'[u].pc \in Dispatching,
             ew'[v].pc \in Dispatching, ew'[u].event = ew'[v].event
      PROVE  u = v
  BY <1>3, <1>4, ZenonT(30) DEF InHandInv, InHand
<1>5. ASSUME NEW v \in EventWorkers, ew'[v].pc = "listen" PROVE taken'[ew'[v].event] = 0
  BY <1>3, <1>5, ZenonT(30) DEF Dispatching, InHandInv, InHand, At
<1>6. ASSUME NEW e \in Events
      PROVE  \/ taken'[e] = 0
             \/ /\ taken'[e] = 1 /\ e \in issued'
                /\ e \notin entries' \/ \E v \in EventWorkers : ew'[v].pc = "remove" /\ ew'[v].event = e
  <2>1. CASE taken[e] # 0 /\ e \in entries
    <3>1. PICK v \in EventWorkers : At(v, "remove") /\ InHand(v) = e
      BY <2>1, ZenonT(30) DEF InHandInv
    <3>2. taken'[e] = 1 /\ e \in issued'
      BY <2>1, ZenonT(30) DEF InHandInv, NoneReturns
    <3>3. v # w => ew'[v] = ew[v]
      BY <1>1, ZenonT(30)
    <3> QED BY <3>1, <3>2, <3>3, Zenon DEF At, InHand
  <2>2. CASE ~(taken[e] # 0 /\ e \in entries)
    BY <2>2, Zenon DEF InHandInv, NoneReturns
  <2> QED BY <2>1, <2>2, ZenonT(30)
<1> QED BY <1>2, <1>3, <1>4, <1>5, <1>6, ZenonT(30) DEF InHandInv, InHand, Busy, At

-------------------------------------------------------------------------------
\* A step of a worker is a call of the store or leaves the store alone.
LEMMA StoreStep == NoEventStranded /\ [EWNext]_allvars => [Next]_vars
<1> SUFFICES ASSUME NoEventStranded, [EWNext]_allvars PROVE [Next]_vars
  BY Zenon
<1>0. EventWorkers \subseteq Workers /\ ReleaseDelay \in Delays
  BY MemoryWorkerConstantsOK, Zenon
<1>1. now \in Readings
  <2>1. now \in Nat /\ lag \in Nat
    BY MemoryConstantsOK, Zenon DEF NoEventStranded, TypeOK
  <2> QED BY <2>1, SMT, SMTT(30) DEF Readings
<1>2. ASSUME NEW t \in Readings, ThreadCall(t) \/ \E w \in Workers : WorkerCall(w, t), UNCHANGED lag
      PROVE  Next
  BY <1>2, ZenonT(40) DEF Next
<1>3. ASSUME NEW w, NEW e, Owns(w, e) PROVE e \in Events
  BY <1>3, TableFacts, Zenon DEF Owns
<1>4. ASSUME NEW w \in EventWorkers, Step(w) PROVE [Next]_vars
  <2>1. ASSUME NEW t \in Readings, ExpireDue(w, t) PROVE Next
    BY <1>2, <2>1, Zenon DEF ExpireDue, ThreadCall
  <2>2. ASSUME NEW t \in Readings, ClaimNext(w, t) PROVE Next
    <3>1. WorkerCall(w, t) /\ UNCHANGED lag
      BY <2>2, Zenon DEF ClaimNext, WorkerCall
    <3> QED BY <1>0, <1>2, <3>1, Zenon
  <2>3. ASSUME NEW t \in Readings, ReleaseCall(w, t) PROVE [Next]_vars
    <3>1. CASE Arelease(w, InHand(w), ReleaseDelay, t)
      <4>1. InHand(w) \in Events
        BY <1>3, <3>1, Zenon DEF Arelease
      <4>2. WorkerCall(w, t) /\ UNCHANGED lag
        BY <1>0, <2>3, <3>1, <4>1, Zenon DEF ReleaseCall, WorkerCall
      <4> QED BY <1>0, <1>2, <4>2, Zenon
    <3>2. CASE UNCHANGED <<tables, pending, now, storing, issued, ended>>
      BY <2>3, <3>2, Zenon DEF ReleaseCall, vars
    <3> QED BY <2>3, <3>1, <3>2, Zenon DEF ReleaseCall
  <2>4. ASSUME RemoveCall(w) PROVE [Next]_vars
    <3>1. CASE Aremove(w, InHand(w))
      <4>1. InHand(w) \in Events
        BY <1>3, <3>1, Zenon DEF Aremove
      <4>2. WorkerCall(w, now) /\ UNCHANGED lag
        BY <2>4, <3>1, <4>1, Zenon DEF RemoveCall, WorkerCall
      <4> QED BY <1>0, <1>1, <1>2, <4>2, Zenon
    <3>2. CASE UNCHANGED <<tables, pending, now, storing, issued, ended>>
      BY <2>4, <3>2, Zenon DEF RemoveCall, vars
    <3> QED BY <2>4, <3>1, <3>2, Zenon DEF RemoveCall
  <2>5. ListenerAnswers(w) \/ Wakes(w) => UNCHANGED vars
    BY Zenon DEF ListenerAnswers, Wakes
  <2> QED BY <1>4, <2>1, <2>2, <2>3, <2>4, <2>5, ZenonT(40) DEF Step
<1>5. ASSUME NEW w \in EventWorkers, Cancel(w) \/ Restart(w) PROVE UNCHANGED vars
  BY <1>5, Zenon DEF Cancel, Restart
<1>6. ASSUME OtherCall PROVE Next
  BY <1>0, <1>2, <1>6, Zenon DEF OtherCall
<1>7. ASSUME PassTime PROVE Next
  BY <1>7, Zenon DEF PassTime, Next
<1>8. UNCHANGED allvars => UNCHANGED vars
  BY Zenon DEF allvars
<1> QED BY <1>4, <1>5, <1>6, <1>7, <1>8, Zenon DEF EWNext

LEMMA StillLeaves ==
    ASSUME UNCHANGED vars, NEW v
    PROVE  LeavesAlone(v) /\ UNCHANGED <<entries, issued, claims, claim_deadlines>>
<1>1. UNCHANGED <<entries, issued, claims, claim_deadlines>>
  BY Zenon DEF vars, tables
<1> QED BY <1>1, Zenon DEF LeavesAlone, Owns

LEMMA EWInitInv == EWInit => StuckInv
<1> SUFFICES ASSUME EWInit PROVE StuckInv
  BY Zenon
<1>1. NoEventStranded
  BY InitInv, Zenon DEF EWInit
<1>2. NumListeners - 1 \in Listeners /\ 0 \in Listeners
  BY MemoryWorkerConstantsOK, SMT, SMTT(30) DEF Listeners
<1>3. AtRest("expire", NumListeners - 1) \in Locals /\ AtRest("expire", NumListeners - 1).pc = "expire"
  BY <1>2, Zenon DEF AtRest, Locals, Places
<1>4. /\ ew = [w \in EventWorkers |-> AtRest("expire", NumListeners - 1)]
      /\ taken = [e \in Events |-> 0] /\ claims = <<>>
  BY Zenon DEF EWInit, Init
<1> HIDE DEF Locals, AtRest
<1>5. EWTypeOK
  BY <1>3, <1>4, TypeIs, Zenon
<1>6. \A w \in EventWorkers : ew[w].pc = "expire"
  BY <1>3, <1>4, Zenon
<1>7. \A w, e : ~Owns(w, e)
  BY <1>4, SMT, SMTT(30) DEF Owns
<1>8. InHandInv
  BY <1>4, <1>6, <1>7, Zenon DEF InHandInv, Busy, Dispatching, At
<1> QED BY <1>1, <1>5, <1>8, Zenon DEF StuckInv

LEMMA TypeNext ==
    ASSUME taken' \in [Events -> Nat], ew' \in [EventWorkers -> Locals]
    PROVE  EWTypeOK'
<1>1. (EWTypeOK = (ew \in [EventWorkers -> Locals] /\ taken \in [Events -> Nat]))'
  BY TypeIs, PTL
<1> QED BY <1>1, ZenonT(30)

\* The worker at the places where it has no event in hand.
LEMMA LookingSteps ==
    ASSUME StuckInv, NoneReturns, NEW w \in EventWorkers, ~Busy(w), taken' = taken,
           \A v \in EventWorkers : LeavesAlone(v), NEW where \in Places \ Dispatching,
           Goto(w, where) \/ \E c \in Listeners : ew' = [ew EXCEPT ![w] = AtRest(where, c)]
    PROVE  EWTypeOK' /\ InHandInv'
<1>1. ew \in [EventWorkers -> Locals] /\ taken \in [Events -> Nat]
  BY TypeIs, Zenon DEF StuckInv
<1>2. \E event : Moved(w, where, event)
  BY <1>1, GotoMoves, RestMoves, Zenon
<1>3. /\ ew' \in [EventWorkers -> Locals] /\ ew'[w].pc = where
      /\ \A v \in EventWorkers \ {w} : ew'[v] = ew[v]
  BY <1>2, Zenon DEF Moved
<1>4. EWTypeOK'
  BY <1>1, <1>3, TypeNext, Zenon
<1>5. InHandInv'
  <2>1. \A v \in EventWorkers : /\ LeavesAlone(v)
                                /\ ew'[v] = ew[v] \/ (~Busy(v) /\ ew'[v].pc \notin Dispatching)
    BY <1>3, Zenon
  <2> QED BY <2>1, QuietStep, Zenon DEF StuckInv
<1> QED BY <1>4, <1>5, Zenon

LEMMA ClaimNextInv ==
    ASSUME StuckInv, NoneReturns, NEW w \in EventWorkers, NEW t \in Readings, ClaimNext(w, t)
    PROVE  EWTypeOK' /\ InHandInv'
<1>1. ew \in [EventWorkers -> Locals] /\ taken \in [Events -> Nat]
  BY TypeIs, ZenonT(30) DEF StuckInv
<1>2. /\ ~Busy(w) /\ taken' = taken /\ NoEventStranded /\ InHandInv /\ EWTypeOK
  BY Zenon DEF ClaimNext, At, Busy, Dispatching, StuckInv
<1>3. ew[w].cursor \in Listeners
  BY <1>1, Zenon DEF Locals
<1>4. PICK got \in Events \cup {NoEvent} :
        /\ Aclaim(w, NoLease, got, t)
        /\ ew' = [ew EXCEPT ![w] =
              IF got = NoEvent THEN AtRest("idle", @.cursor)
              ELSE [@ EXCEPT !.pc = "listen", !.event = got, !.to_visit = NumListeners - 1,
                             !.cursor = (ew[w].cursor + 1) % NumListeners]]
  BY ZenonT(30) DEF ClaimNext
<1>5. CASE got = NoEvent
  <2>1. \A v \in EventWorkers : LeavesAlone(v)
    BY <1>2, <1>4, <1>5, AclaimLeaves, Zenon
  <2>2. ew' = [ew EXCEPT ![w] = AtRest("idle", ew[w].cursor)]
    BY <1>4, <1>5, Zenon
  <2>3. "idle" \in Places \ Dispatching
    BY Zenon DEF Places, Dispatching
  <2> QED BY <1>2, <1>3, <2>1, <2>2, <2>3, LookingSteps, ZenonT(30)
<1>6. CASE got # NoEvent
  <2>1. PICK c \in Listeners : c = (ew[w].cursor + 1) % NumListeners
    BY <1>3, CursorFacts, Zenon
  <2>2. PICK n \in Listeners : n = NumListeners - 1
    BY <1>3, CursorFacts, ZenonT(30)
  <2>3. ew' = [ew EXCEPT ![w] = [ew[w] EXCEPT !.pc = "listen", !.event = got, !.to_visit = n, !.cursor = c]]
    BY <1>4, <1>6, <2>1, <2>2, Zenon
  <2>4. [ew[w] EXCEPT !.pc = "listen", !.event = got, !.to_visit = n, !.cursor = c] \in Locals
    <3>1. "listen" \in Places
      BY Zenon DEF Places
    <3> QED BY <1>1, <3>1, ZenonT(30) DEF Locals
  <2>5. /\ [ew[w] EXCEPT !.pc = "listen", !.event = got, !.to_visit = n, !.cursor = c].pc = "listen"
        /\ [ew[w] EXCEPT !.pc = "listen", !.event = got, !.to_visit = n, !.cursor = c].event = got
    BY <1>1, Zenon DEF Locals
  <2>6. Moved(w, "listen", got)
    <3> DEFINE l == [ew[w] EXCEPT !.pc = "listen", !.event = got, !.to_visit = n, !.cursor = c]
    <3>1. ew' = [ew EXCEPT ![w] = l] /\ l \in Locals /\ l.pc = "listen" /\ l.event = got
      BY <2>3, <2>4, <2>5, Zenon
    <3> HIDE DEF l
    <3> QED BY <1>1, <3>1, Zenon DEF Moved
  <2>7. /\ got \in entries /\ got \in issued /\ UNCHANGED <<entries, issued>> /\ ~Standing(got)
        /\ Owns(w, got)' /\ got \notin DOMAIN claim_deadlines'
        /\ \A e : Owns(w, e)' => e = got \/ Owns(w, e)
    BY <1>2, <1>4, <1>6, AclaimGives, Zenon
  <2>8. \A v \in EventWorkers \ {w} : LeavesAlone(v)
    BY <1>2, <1>4, AclaimLeaves, Zenon
  <2>9. InHandInv'
    BY <1>2, <2>6, <2>7, <2>8, TakeUpStep, Zenon
  <2> QED BY <1>1, <1>2, <2>6, <2>9, TypeNext, Zenon DEF Moved
<1> QED BY <1>5, <1>6, Zenon

LEMMA ListenerAnswersInv ==
    ASSUME StuckInv, NEW w \in EventWorkers, ListenerAnswers(w)
    PROVE  EWTypeOK' /\ InHandInv'
<1>1. ew \in [EventWorkers -> Locals] /\ taken \in [Events -> Nat]
  BY TypeIs, Zenon DEF StuckInv
<1>2. At(w, "listen") /\ NoEventStranded /\ InHandInv /\ EWTypeOK
  BY Zenon DEF ListenerAnswers, StuckInv
<1>3. UNCHANGED <<entries, issued, claims, claim_deadlines>>
  BY StillLeaves, Zenon DEF ListenerAnswers
<1>4. PICK verdict :
        /\ \/ verdict = "raise" /\ Goto(w, "release")
           \/ verdict = "take" /\ Goto(w, "remove")
           \/ verdict = "pass" /\ ew[w].to_visit = 0 /\ Goto(w, "release")
           \/ /\ verdict = "pass" /\ ew[w].to_visit > 0
              /\ ew' = [ew EXCEPT ![w].cursor = (ew[w].cursor + 1) % NumListeners,
                                  ![w].to_visit = ew[w].to_visit - 1]
        /\ taken' = IF verdict = "take" THEN [taken EXCEPT ![InHand(w)] = @ + 1] ELSE taken
  BY Zenon DEF ListenerAnswers
<1>5. ASSUME NEW where \in Dispatching, Moved(w, where, InHand(w)),
             \/ where # "remove" /\ taken' = taken
             \/ where = "remove" /\ taken' = [taken EXCEPT ![InHand(w)] = @ + 1]
      PROVE  EWTypeOK' /\ InHandInv'
  <2>1. InHandInv'
    BY <1>2, <1>3, <1>5, AnswerStep, Zenon
  <2>2. taken' \in [Events -> Nat]
    BY <1>1, <1>5, SMT, SMTT(30)
  <2> QED BY <1>5, <2>1, <2>2, TypeNext, ZenonT(30) DEF Moved
<1>6. "release" \in Places \cap Dispatching /\ "remove" \in Places \cap Dispatching /\ "listen" \in Dispatching
  BY Zenon DEF Places, Dispatching
<1>7. CASE verdict # "take" /\ Goto(w, "release")
  <2>1. Moved(w, "release", InHand(w))
    BY <1>1, <1>6, <1>7, GotoMoves, Zenon
  <2> QED BY <1>4, <1>5, <1>6, <1>7, <2>1, Zenon
<1>8. CASE verdict = "take"
  <2>1. Goto(w, "remove")
    BY <1>4, <1>8, Zenon
  <2>2. Moved(w, "remove", InHand(w))
    BY <1>1, <1>6, <2>1, GotoMoves, Zenon
  <2> QED BY <1>4, <1>5, <1>6, <1>8, <2>2, Zenon
<1>9. ASSUME verdict = "pass", ew[w].to_visit > 0,
             ew' = [ew EXCEPT ![w].cursor = (ew[w].cursor + 1) % NumListeners,
                              ![w].to_visit = ew[w].to_visit - 1]
      PROVE  EWTypeOK' /\ InHandInv'
  <2>1. ew[w].cursor \in Listeners /\ ew[w].to_visit \in Listeners
    BY <1>1, Zenon DEF Locals
  <2>2. PICK c \in Listeners : c = (ew[w].cursor + 1) % NumListeners
    BY <2>1, CursorFacts, Zenon
  <2>3. PICK n \in Listeners : n = ew[w].to_visit - 1
    BY <1>9, <2>1, CursorFacts, Zenon
  <2>4. ew' = [ew EXCEPT ![w] = [ew[w] EXCEPT !.cursor = c, !.to_visit = n]]
    BY <1>9, <2>2, <2>3, Zenon
  <2>5. [ew[w] EXCEPT !.cursor = c, !.to_visit = n] \in Locals
    BY <1>1, ZenonT(30) DEF Locals
  <2>6. /\ [ew[w] EXCEPT !.cursor = c, !.to_visit = n].pc = "listen"
        /\ [ew[w] EXCEPT !.cursor = c, !.to_visit = n].event = InHand(w)
    BY <1>1, <1>2, Zenon DEF Locals, At, InHand
  <2>7. Moved(w, "listen", InHand(w))
    BY <1>1, <2>4, <2>5, <2>6, Zenon DEF Moved
  <2>8. taken' = taken
    BY <1>4, <1>9, Zenon
  <2> QED BY <1>5, <1>6, <2>7, <2>8, ZenonT(30)
<1> QED BY <1>4, <1>7, <1>8, <1>9, Zenon

\* _dispatch ends with the claim released, removed or lost.
LEMMA EndDispatchInv ==
    ASSUME StuckInv, NoneReturns, NEW w \in EventWorkers, EndDispatch(w), taken' = taken,
           \A v \in EventWorkers \ {w} : LeavesAlone(v),
           \A e \in Events : ~Owns(w, e)',
           At(w, "remove") => InHand(w) \notin entries'
    PROVE  EWTypeOK' /\ InHandInv'
<1>1. ew \in [EventWorkers -> Locals] /\ taken \in [Events -> Nat]
  BY TypeIs, ZenonT(30) DEF StuckInv
<1>2. ew[w].cursor \in Listeners
  BY <1>1, Zenon DEF Locals
<1>3. PICK where \in {"stopped", "expire"} : ew' = [ew EXCEPT ![w] = AtRest(where, ew[w].cursor)]
  BY ZenonT(30) DEF EndDispatch
<1>4. where \in Places /\ where \notin Dispatching
  BY Zenon DEF Places, Dispatching
<1>5. Moved(w, where, NoEvent)
  BY <1>1, <1>2, <1>3, <1>4, RestMoves, Zenon
<1>6. InHandInv'
  BY <1>4, <1>5, LayDownStep, Zenon DEF StuckInv
<1> QED BY <1>1, <1>5, <1>6, TypeNext, Zenon DEF Moved

LEMMA ReleaseCallInv ==
    ASSUME StuckInv, NoneReturns, NEW w \in EventWorkers, NEW t \in Readings, ReleaseCall(w, t)
    PROVE  EWTypeOK' /\ InHandInv'
<1>1. /\ At(w, "release") /\ EndDispatch(w) /\ taken' = taken /\ lag' = lag /\ NoEventStranded
      /\ \A e \in Events : Owns(w, e) => InHand(w) = e
  BY ZenonT(30) DEF ReleaseCall, StuckInv, InHandInv
<1>2. ~At(w, "remove")
  BY <1>1, ZenonT(30) DEF At
<1>3. CASE Arelease(w, InHand(w), ReleaseDelay, t)
  <2>1. WorkerCall(w, t)
    <3>1. InHand(w) \in Events
      BY <1>1, <1>3, TableFacts, ZenonT(30) DEF Arelease, Owns
    <3> QED BY <1>3, <3>1, MemoryWorkerConstantsOK, Zenon DEF WorkerCall
  <2>2. \A v \in EventWorkers \ {w} : LeavesAlone(v)
    BY <1>1, <2>1, WorkerCallLeaves, Zenon
  <2>3. \A e \in Events : ~Owns(w, e)'
    BY <1>1, <1>3, Zenon DEF Arelease, Owns, Without
  <2> QED BY <1>1, <1>2, <2>2, <2>3, EndDispatchInv, ZenonT(30)
<1>4. CASE ~Owns(w, InHand(w)) /\ UNCHANGED <<tables, pending, now, storing, issued, ended>>
  <2>1. UNCHANGED vars
    BY <1>1, <1>4, Zenon DEF vars
  <2>2. \A v : LeavesAlone(v) /\ UNCHANGED claims
    BY <2>1, StillLeaves, Zenon
  <2>3. \A e \in Events : ~Owns(w, e)'
    BY <1>1, <1>4, <2>2, Zenon DEF Owns
  <2> QED BY <1>1, <1>2, <2>2, <2>3, EndDispatchInv, Zenon
<1> QED BY <1>3, <1>4, Zenon DEF ReleaseCall

LEMMA RemoveCallInv ==
    ASSUME StuckInv, NoneReturns, NEW w \in EventWorkers, RemoveCall(w)
    PROVE  EWTypeOK' /\ InHandInv'
<1>1. /\ At(w, "remove") /\ EndDispatch(w) /\ taken' = taken /\ lag' = lag /\ NoEventStranded
      /\ \A e \in Events : Owns(w, e) => InHand(w) = e
  BY ZenonT(30) DEF RemoveCall, StuckInv, InHandInv
<1>2. CASE Aremove(w, InHand(w))
  <2>1. now \in Readings
    <3>1. now \in Nat /\ lag \in Nat
      BY <1>1, MemoryConstantsOK, Zenon DEF NoEventStranded, TypeOK
    <3> QED BY <3>1, SMT, SMTT(30) DEF Readings
  <2>2. WorkerCall(w, now)
    <3>1. InHand(w) \in Events
      BY <1>1, <1>2, TableFacts, Zenon DEF Aremove, Owns
    <3> QED BY <1>2, <3>1, Zenon DEF WorkerCall
  <2>3. \A v \in EventWorkers \ {w} : LeavesAlone(v)
    BY <1>1, <2>1, <2>2, WorkerCallLeaves, Zenon
  <2>4. (\A e \in Events : ~Owns(w, e)') /\ InHand(w) \notin entries'
    BY <1>1, <1>2, Zenon DEF Aremove, Forget, Unclaim, Owns, Without
  <2> QED BY <1>1, <2>3, <2>4, EndDispatchInv, Zenon
<1>3. CASE ~Owns(w, InHand(w)) /\ UNCHANGED <<tables, pending, now, storing, issued, ended>>
  <2>1. UNCHANGED vars
    BY <1>1, <1>3, Zenon DEF vars
  <2>2. \A v : LeavesAlone(v) /\ UNCHANGED <<claims, entries>>
    BY <2>1, StillLeaves, Zenon
  <2>3. \A e \in Events : ~Owns(w, e)'
    BY <1>1, <1>3, <2>2, Zenon DEF Owns
  <2>4. InHand(w) \notin entries'
    BY <1>1, <1>3, <2>2, Zenon DEF StuckInv, InHandInv, Busy, At, Dispatching
  <2> QED BY <1>1, <2>2, <2>3, <2>4, EndDispatchInv, Zenon
<1> QED BY <1>2, <1>3, Zenon DEF RemoveCall

LEMMA EWNextInv == StuckInv /\ [EWNext]_allvars => StuckInv'
<1> SUFFICES ASSUME StuckInv, [EWNext]_allvars PROVE StuckInv'
  BY Zenon
<1>1. NoEventStranded /\ InHandInv /\ EWTypeOK
  BY Zenon DEF StuckInv
<1>2. ew \in [EventWorkers -> Locals] /\ taken \in [Events -> Nat]
  BY <1>1, TypeIs, Zenon
<1>3. [Next]_vars
  BY <1>1, StoreStep, Zenon
<1>4. NoEventStranded' /\ NoneReturns
  BY <1>1, <1>3, NextInv, GoneForGood, Zenon
<1>5. ASSUME NEW w \in EventWorkers, Step(w) PROVE EWTypeOK' /\ InHandInv'
  <2>1. ASSUME NEW t \in Readings, ExpireDue(w, t) PROVE EWTypeOK' /\ InHandInv'
    <3>1. \A v \in EventWorkers : LeavesAlone(v)
      BY <1>1, <2>1, ThreadCallLeaves, Zenon DEF ExpireDue, ThreadCall
    <3>2. ~Busy(w) /\ "claim" \in Places \ Dispatching /\ Goto(w, "claim") /\ taken' = taken
      BY <2>1, ZenonT(30) DEF ExpireDue, At, Busy, Places, Dispatching
    <3> QED BY <1>4, <3>1, <3>2, LookingSteps, Zenon
  <2>2. ASSUME NEW t \in Readings, ClaimNext(w, t) PROVE EWTypeOK' /\ InHandInv'
    BY <1>4, <2>2, ClaimNextInv, Zenon
  <2>3. ASSUME NEW t \in Readings, ReleaseCall(w, t) PROVE EWTypeOK' /\ InHandInv'
    BY <1>4, <2>3, ReleaseCallInv, Zenon
  <2>4. ASSUME ListenerAnswers(w) PROVE EWTypeOK' /\ InHandInv'
    BY <2>4, ListenerAnswersInv, Zenon
  <2>5. ASSUME RemoveCall(w) PROVE EWTypeOK' /\ InHandInv'
    BY <1>4, <2>5, RemoveCallInv, Zenon
  <2>6. ASSUME Wakes(w) PROVE EWTypeOK' /\ InHandInv'
    <3>1. \A v \in EventWorkers : LeavesAlone(v)
      BY <2>6, StillLeaves, Zenon DEF Wakes
    <3>2. ~Busy(w) /\ "expire" \in Places \ Dispatching /\ Goto(w, "expire") /\ taken' = taken
      BY <2>6, ZenonT(30) DEF Wakes, At, Busy, Places, Dispatching
    <3> QED BY <1>4, <3>1, <3>2, LookingSteps, Zenon
  <2> QED BY <1>5, <2>1, <2>2, <2>3, <2>4, <2>5, <2>6, Zenon DEF Step
<1>6. ASSUME NEW w \in EventWorkers, Cancel(w) PROVE EWTypeOK' /\ InHandInv'
  <2>1. /\ UNCHANGED vars /\ taken' = taken
        /\ \/ At(w, "idle") /\ ew' = [ew EXCEPT ![w] = AtRest("stopped", @.cursor)]
           \/ At(w, "listen") /\ ew' = [ew EXCEPT ![w].pc = "release", ![w].closing = TRUE]
    BY <1>6, Zenon DEF Cancel
  <2>2. \A v : LeavesAlone(v) /\ UNCHANGED <<entries, issued, claims, claim_deadlines>>
    BY <2>1, StillLeaves, Zenon
  <2>3. CASE At(w, "idle") /\ ew' = [ew EXCEPT ![w] = AtRest("stopped", @.cursor)]
    <3>1. ew[w].cursor \in Listeners /\ ew' = [ew EXCEPT ![w] = AtRest("stopped", ew[w].cursor)]
      BY <1>2, <2>3, ZenonT(30) DEF Locals
    <3>2. ~Busy(w) /\ "stopped" \in Places \ Dispatching
      BY <2>3, Zenon DEF At, Busy, Places, Dispatching
    <3> QED BY <1>4, <2>1, <2>2, <3>1, <3>2, LookingSteps, ZenonT(30)
  <2>4. CASE At(w, "listen") /\ ew' = [ew EXCEPT ![w].pc = "release", ![w].closing = TRUE]
    <3> DEFINE l == [ew[w] EXCEPT !.pc = "release", !.closing = TRUE]
    <3>1. ew' = [ew EXCEPT ![w] = l]
      BY <2>4, Zenon
    <3>2. l \in Locals
      <4>1. "release" \in Places
        BY Zenon DEF Places
      <4> QED BY <1>2, <4>1, ZenonT(30) DEF Locals
    <3>3. l.pc = "release" /\ l.event = InHand(w)
      BY <1>2, Zenon DEF Locals, InHand
    <3> HIDE DEF l
    <3>4. Moved(w, "release", InHand(w))
      BY <1>2, <3>1, <3>2, <3>3, Zenon DEF Moved
    <3>5. InHandInv'
      BY <1>1, <2>1, <2>2, <2>4, <3>4, AnswerStep, Zenon DEF Dispatching
    <3> QED BY <1>2, <2>1, <3>4, <3>5, TypeNext, Zenon DEF Moved
  <2> QED BY <2>1, <2>3, <2>4, Zenon
<1>7. ASSUME NEW w \in EventWorkers, Restart(w) PROVE EWTypeOK' /\ InHandInv'
  <2>1. /\ UNCHANGED vars /\ taken' = taken /\ ~Busy(w)
        /\ ew' = [ew EXCEPT ![w] = AtRest("expire", NumListeners - 1)]
    BY <1>7, Zenon DEF Restart, At, Busy, Dispatching
  <2>2. \A v \in EventWorkers : LeavesAlone(v)
    BY <2>1, StillLeaves, Zenon
  <2>3. NumListeners - 1 \in Listeners /\ "expire" \in Places \ Dispatching
    BY MemoryWorkerConstantsOK DEF Listeners, Places, Dispatching
  <2> QED BY <1>4, <2>1, <2>2, <2>3, LookingSteps, Zenon
<1>8. ASSUME \A v \in EventWorkers : LeavesAlone(v), UNCHANGED <<ew, taken>> PROVE EWTypeOK' /\ InHandInv'
  BY <1>1, <1>2, <1>4, <1>8, QuietStep, TypeNext, Zenon
<1>9. ASSUME OtherCall PROVE EWTypeOK' /\ InHandInv'
  <2>1. \A v \in EventWorkers : LeavesAlone(v)
    <3>1. ASSUME NEW t \in Readings, ThreadCall(t), NEW v PROVE LeavesAlone(v)
      BY <1>1, <3>1, ThreadCallLeaves, Zenon
    <3>2. ASSUME NEW t \in Readings, NEW w \in Workers \ EventWorkers, WorkerCall(w, t), NEW v \in EventWorkers
          PROVE  LeavesAlone(v)
      BY <1>1, <3>2, WorkerCallLeaves, Zenon
    <3> QED BY <1>9, <3>1, <3>2, Zenon DEF OtherCall
  <2> QED BY <1>8, <1>9, <2>1, Zenon DEF OtherCall, ewvars
<1>10. ASSUME PassTime \/ UNCHANGED allvars PROVE EWTypeOK' /\ InHandInv'
  <2>1. UNCHANGED <<claims, claim_deadlines, entries, issued, ew, taken>>
    BY <1>10, ZenonT(30) DEF PassTime, Tick, tables, allvars, vars, ewvars
  <2>2. \A v \in EventWorkers : LeavesAlone(v)
    BY <2>1, Zenon DEF LeavesAlone, Owns
  <2> QED BY <1>8, <2>1, <2>2, Zenon
<1>11. EWTypeOK' /\ InHandInv'
  BY <1>5, <1>6, <1>7, <1>9, <1>10, Zenon DEF EWNext
<1> QED BY <1>4, <1>11, Zenon DEF StuckInv

LEMMA EWInvariant == EWSpec => []StuckInv
  BY EWInitInv, EWNextInv, PTL DEF EWSpec

\* The event workers use the in-process store as MemoryEvents says its users do.
THEOREM MemoryWorkersUseTheStore == EWSpec => Spec
<1>1. EWInit => Init
  BY Zenon DEF EWInit
<1>2. StuckInv => NoEventStranded
  BY Zenon DEF StuckInv
<1> QED BY <1>1, <1>2, EWInvariant, StoreStep, PTL DEF EWSpec, Spec

\* So everything the store promises holds under the workers, its lifetimes as long as
\* no reading of the clock is late.
THEOREM MemoryWorkersKeepThePromises ==
    EWSpec => []NoEventStranded /\ AlwaysClaimHonoured /\ LifetimeSpec
  BY MemoryWorkersUseTheStore, MemoryEventsAreNotStranded, MemoryClaimsAreHonoured,
     MemoryRefinesLifetime, PTL

\* However many workers share the store, whatever their listeners do and whenever
\* their tasks are cancelled and restarted: a claim without a lease is in the hands
\* of the running task that took it, and no event is taken twice.
THEOREM ClaimsAreNotStuck == EWSpec => []NoClaimStuck
<1>1. StuckInv => NoClaimStuck
  <2> SUFFICES ASSUME StuckInv PROVE NoClaimStuck
    BY Zenon
  <2>1. EWTypeOK /\ InHandInv
    BY Zenon DEF StuckInv
  <2>2. \A e \in Events : taken[e] = 0 \/ taken[e] = 1
    BY <2>1, Zenon DEF InHandInv
  <2>3. \A e \in Events : taken[e] <= 1
    BY <2>2
  <2> QED BY <2>1, <2>3, ZenonT(30) DEF NoClaimStuck, InHandInv, Busy, Dispatching
<1> QED BY <1>1, EWInvariant, PTL

===============================================================================
