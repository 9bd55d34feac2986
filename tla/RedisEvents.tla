------------------------------ MODULE RedisEvents ------------------------------
(***************************************************************************)
(* The Redis store of one EventQueue (backends/redis/library.lua).  An     *)
(* event has no status: its record is there until a listener or a direct   *)
(* consumer takes it, its lifetime ends, or the queue is cleared.  Its     *)
(* lifetime is used up only while nobody holds a claim on it: a claim      *)
(* takes the deadline out of the unclaimed-deadline ZSET and keeps what is *)
(* left of it, release and recovery put it back.                           *)
(***************************************************************************)
EXTENDS RedisValues

CONSTANTS
    Events,         \* event IDs, ordered by creation
    Workers,        \* runtime identities of event workers
    Stack,          \* the queue's stack option
    Lifetimes,      \* unclaimed lifetimes; 0: used up when the store is reached
    Leases,         \* lease durations
    Delays,         \* release delays
    Batch,          \* recovery_batch_size
    MaxTime,        \* bound on the clock of the model
    NoEvent         \* the reply of a call that got no event

ASSUME EventConstantsOK ==
    /\ Events \subseteq Nat
    /\ NoEvent \notin Events
    /\ Stack \in BOOLEAN
    /\ Lifetimes \subseteq Nat
    /\ Leases \subseteq Nat \ {0}
    /\ Delays \subseteq Nat
    /\ Batch \in Nat \ {0}
    /\ MaxTime \in Nat

VARIABLES
    stored,             \* the events that have a record
    pending,            \* the pending list
    delayed,            \* released events and when they are due
    unclaimed,          \* the unclaimed-deadline ZSET
    claims,             \* claim keys: owner, lease deadline, remaining lifetime
    claim_deadlines,    \* the claim-deadline ZSET
    now,                \* Redis TIME
    issued,             \* history: the events that were enqueued
    ended               \* history: how the events that are gone ended

store == <<stored, pending, delayed, unclaimed, claims, claim_deadlines>>
vars == <<store, now, issued, ended>>

Due(z) == DueAt(z, now)
FirstDue(z, n) ==
    {S \in SUBSET Due(z) :
        /\ Cardinality(S) <= n
        /\ S # Due(z) => Cardinality(S) = n
        /\ \A e \in S, f \in Due(z) \ S : Before(z, e, f)}

\* Mutant of Owns: the worker ID in the claim is not compared.
ClaimExists(w, e) == e \in DOMAIN claims

\* The claim key of e exists and names w.
Owns(w, e) == e \in DOMAIN claims /\ claims[e].owner = w
CanRenew(w, e) == Owns(w, e) /\ claims[e].deadline > now

\* The history: the events S have ended in the given way.
End(S, how) == ended' = [e \in DOMAIN ended \cup S |-> IF e \in S THEN how ELSE ended[e]]

-------------------------------------------------------------------------------
\* django_queue_store_event_and_push: the deadline was computed by the caller.
StoreEventAndPush(e, life) ==
    /\ e \notin issued
    /\ stored' = stored \cup {e}
    /\ unclaimed' = Zadd(unclaimed, e, now + life)
    /\ pending' = Append(pending, e)
    /\ issued' = issued \cup {e}
    /\ UNCHANGED <<delayed, claims, claim_deadlines, now, ended>>

\* The pending list in the order of its pops; the same mapping leads back.
PopOrder(list) ==
    IF Stack THEN [i \in 1 .. Len(list) |-> list[Len(list) + 1 - i]] ELSE list

\* What django_queue_dequeue_event hands out.
Alive(e) ==
    /\ e \in stored /\ e \in DOMAIN unclaimed /\ unclaimed[e] > now
    /\ e \notin DOMAIN claims

\* Events are popped up to the first one that is alive; it is consumed, the dead
\* ones on the way are dropped, the claimed ones go to the far end.
PopUpTo(order, first, got) ==
    LET passed == SubSeq(order, 1, first - 1)
        behind == SubSeq(order, first + 1, Len(order))
        dead == Range(passed) \ DOMAIN claims
        taken == IF first > Len(order) THEN {} ELSE {order[first]}
        out == dead \cup taken
    IN
    /\ first <= Len(order) => Alive(order[first])
    /\ \A i \in 1 .. first - 1 : ~Alive(order[i])
    /\ got = IF taken = {} THEN NoEvent ELSE order[first]
    /\ pending' = PopOrder(Keep(behind, Events \ out) \o Keep(passed, DOMAIN claims))
    /\ stored' = stored \ out
    /\ delayed' = Without(delayed, Due(delayed) \cup out)
    /\ claim_deadlines' = Without(claim_deadlines, out)
    /\ unclaimed' = Without(unclaimed, out)
    /\ ended' = [e \in DOMAIN ended \cup (out \cap stored) |->
           IF e \in taken THEN "consumed" ELSE IF e \in dead THEN "expired" ELSE ended[e]]
    /\ UNCHANGED <<claims, now, issued>>

\* django_queue_dequeue_event: due delayed events join the list before.
DequeueEvent(got) ==
    \E redelivered \in Ranged(delayed, Due(delayed)) :
        LET order == PopOrder(pending \o redelivered)
        IN  \E first \in 1 .. Len(order) + 1 : PopUpTo(order, first, got)

\* django_queue_claim with the expire-unclaimed flag (events are never
\* scheduled).  got is NoEvent for 'empty', 'expired' and 'conflict'; a conflict
\* gives the ID back but not its deadline.
Claim(w, lease, got) ==
    \E redelivered \in Ranged(delayed, Due(delayed)) :
        LET list == pending \o redelivered
            e == Popped(list, Stack)
        IN
        /\ IF list = <<>>
           THEN /\ got = NoEvent
                /\ delayed' = Without(delayed, Due(delayed))
                /\ UNCHANGED <<stored, pending, unclaimed, claims, claim_deadlines, ended>>
           ELSE IF e \notin DOMAIN unclaimed \/ unclaimed[e] <= now
           THEN /\ got = NoEvent
                /\ stored' = stored \ {e}
                /\ pending' = PopRest(list, Stack)
                /\ delayed' = Without(delayed, Due(delayed) \cup {e})
                /\ unclaimed' = Without(unclaimed, {e})
                /\ claim_deadlines' = Without(claim_deadlines, {e})
                /\ End({e} \cap stored, "expired")
                /\ UNCHANGED claims
           ELSE IF e \in DOMAIN claims
           THEN /\ got = NoEvent
                /\ pending' = list
                /\ delayed' = Without(delayed, Due(delayed))
                /\ unclaimed' = Without(unclaimed, {e})
                /\ UNCHANGED <<stored, claims, claim_deadlines, ended>>
           ELSE /\ got = e
                /\ pending' = PopRest(list, Stack)
                /\ delayed' = Without(delayed, Due(delayed))
                /\ unclaimed' = Without(unclaimed, {e})
                /\ claims' = Zadd(claims, e, [owner |-> w, deadline |-> now + lease,
                                              remaining |-> unclaimed[e] - now])
                /\ claim_deadlines' = Zadd(claim_deadlines, e, now + lease)
                /\ UNCHANGED <<stored, ended>>
        /\ UNCHANGED <<now, issued>>

\* Mutant of Renew: the caller is not compared with the owner and replaces it.
RenewSteals(w, e, lease) ==
    /\ e \in DOMAIN claims /\ claims[e].deadline > now
    /\ claims' = [claims EXCEPT ![e].owner = w, ![e].deadline = now + lease]
    /\ claim_deadlines' = Zadd(claim_deadlines, e, now + lease)
    /\ UNCHANGED <<stored, pending, delayed, unclaimed, now, issued, ended>>

\* django_queue_renew
Renew(w, e, lease) ==
    /\ CanRenew(w, e)
    /\ claims' = [claims EXCEPT ![e].deadline = now + lease]
    /\ claim_deadlines' = Zadd(claim_deadlines, e, now + lease)
    /\ UNCHANGED <<stored, pending, delayed, unclaimed, now, issued, ended>>

\* Mutant of ReleaseUntil: the rest of the lifetime is not written back.
ReleaseUntimed(w, e, due, deadline) ==
    /\ Owns(w, e)
    /\ claims' = Without(claims, {e})
    /\ claim_deadlines' = Without(claim_deadlines, {e})
    /\ delayed' = Zadd(delayed, e, due)
    /\ UNCHANGED <<stored, pending, unclaimed, now, issued, ended>>

\* django_queue_release, for a given due time and end of the lifetime.
ReleaseUntil(w, e, due, deadline) ==
    /\ Owns(w, e)
    /\ claims' = Without(claims, {e})
    /\ claim_deadlines' = Without(claim_deadlines, {e})
    /\ delayed' = Zadd(delayed, e, due)
    /\ unclaimed' = Zadd(unclaimed, e, deadline)
    /\ UNCHANGED <<stored, pending, now, issued, ended>>

\* Mutant of Release: the lifetime runs on under the lease.
ReleaseLate(w, e, delay) == ReleaseUntil(w, e, now + delay, claims[e].deadline)

Release(w, e, delay) == ReleaseUntil(w, e, now + delay, now + claims[e].remaining)

\* Every key but the claim forgets e.
Forget(e, how) ==
    /\ stored' = stored \ {e}
    /\ pending' = Lrem(pending, e)
    /\ delayed' = Without(delayed, {e})
    /\ claim_deadlines' = Without(claim_deadlines, {e})
    /\ unclaimed' = Without(unclaimed, {e})
    /\ End({e} \cap stored, how)
    /\ UNCHANGED <<now, issued>>

\* django_queue_remove: a listener has consumed the event.
Remove(w, e) ==
    /\ Owns(w, e)
    /\ claims' = Without(claims, {e})
    /\ Forget(e, "consumed")

\* django_queue_expire, called for each ID that aexpire_due found to be due.
Expire(e) ==
    /\ e \notin DOMAIN claims
    /\ e \in Due(unclaimed)
    /\ e \in stored
    /\ Forget(e, "expired")
    /\ UNCHANGED claims

\* django_queue_delete: EventQueue.aclear, for each record it listed.
Delete(e) ==
    /\ claims' = Without(claims, {e})
    /\ Forget(e, "cleared")

\* The unclaimed-deadline ZSET once the events of back are unclaimed again.
Resumed(back) ==
    [e \in DOMAIN unclaimed \cup back |->
        IF e \in back THEN now + claims[e].remaining ELSE unclaimed[e]]

\* django_queue_recover: the claims of one batch that have run out are pushed
\* back with their remaining lifetime, if the record is still there.
Recover ==
    \E batch \in FirstDue(claim_deadlines, Batch) :
        LET gone == {e \in batch : e \notin DOMAIN claims \/ claims[e].deadline <= now}
            back == gone \cap stored
        IN
        /\ \E list \in Ranged(claim_deadlines, back) : pending' = pending \o list
        /\ unclaimed' = Resumed(back \cap DOMAIN claims)
        /\ claims' = Without(claims, gone)
        /\ claim_deadlines' = [e \in DOMAIN claim_deadlines \ gone |->
               IF e \in batch THEN claims[e].deadline ELSE claim_deadlines[e]]
        /\ UNCHANGED <<stored, delayed, now, issued, ended>>

Tick ==
    /\ now < MaxTime
    /\ now' = now + 1
    /\ UNCHANGED <<store, issued, ended>>

-------------------------------------------------------------------------------
Init ==
    /\ stored = {} /\ pending = <<>> /\ delayed = <<>> /\ unclaimed = <<>>
    /\ claims = <<>> /\ claim_deadlines = <<>>
    /\ now = 0 /\ issued = {} /\ ended = <<>>

WorkerCall(w) ==
    \/ \E lease \in Leases, got \in Events \cup {NoEvent} : Claim(w, lease, got)
    \/ \E e \in Events :
          \/ \E lease \in Leases : Renew(w, e, lease)
          \/ \E delay \in Delays : Release(w, e, delay)
          \/ Remove(w, e)

Next ==
    \/ \E e \in Events, life \in Lifetimes : StoreEventAndPush(e, life)
    \/ \E got \in Events \cup {NoEvent} : DequeueEvent(got)
    \/ \E w \in Workers : WorkerCall(w)
    \/ Recover
    \/ \E e \in Events : Expire(e)
    \/ \E e \in issued : Delete(e)
    \/ Tick

Spec == Init /\ [][Next]_vars

-------------------------------------------------------------------------------
\* The variables have the shape of the Redis keys they stand for.
TypeOK ==
    /\ issued \subseteq Events /\ IsFiniteSet(issued)
    /\ stored \subseteq issued
    /\ pending \in Seq(issued)
    /\ delayed \in [DOMAIN delayed -> Nat] /\ DOMAIN delayed \subseteq issued
    /\ unclaimed \in [DOMAIN unclaimed -> Nat] /\ DOMAIN unclaimed \subseteq issued
    /\ claims \in [DOMAIN claims -> [owner : Workers, deadline : Nat, remaining : Nat \ {0}]]
    /\ claim_deadlines \in [DOMAIN claim_deadlines -> Nat]
    /\ now \in Nat
    /\ ended \in [issued \ stored -> {"consumed", "expired", "cleared"}]

\* An event with a record is in one place: listed once as pending, delayed, or
\* claimed.  An ID without a record is in none.  So no event is delivered twice
\* at a time, none is stranded, and none comes back after it was consumed.
EventInOnePlace ==
    /\ Injective(pending)
    /\ Range(pending) \cap DOMAIN delayed = {}
    /\ Range(pending) \cap DOMAIN claims = {}
    /\ DOMAIN delayed \cap DOMAIN claims = {}
    /\ stored = Range(pending) \cup DOMAIN delayed \cup DOMAIN claims

\* Every claim is watched: the key and the claim-deadline ZSET agree, so that the
\* event of a crashed worker comes back.
EventClaimsIndexed ==
    /\ DOMAIN claims = DOMAIN claim_deadlines
    /\ \A e \in DOMAIN claims : claims[e].deadline = claim_deadlines[e]

\* No event is immortal: the deadline of an event that nobody holds is in the
\* ZSET that aexpire_due scans, that of a claimed one is not.
LifetimeIndexed == DOMAIN unclaimed = stored \ DOMAIN claims

\* The keys of the store agree: every event with a record is in one place from
\* which a worker, recovery or expiry takes it.
NoEventStranded == TypeOK /\ EventInOnePlace /\ EventClaimsIndexed /\ LifetimeIndexed

\* While a lease runs only its owner, or a clear of the queue, ends the claim and
\* takes the event: expiry and recovery leave it alone.
EventLeaseHonoured ==
    \A e \in DOMAIN claims :
        claims[e].deadline > now
            => \/ e \in DOMAIN claims' /\ claims'[e].owner = claims[e].owner /\ e \in stored'
               \/ \E delay \in Delays : Release(claims[e].owner, e, delay)
               \/ Remove(claims[e].owner, e)
               \/ Delete(e)
AlwaysEventLeaseHonoured == [][EventLeaseHonoured]_vars

\* The store implements EventLifetime: a claim stops the lifetime, release and
\* recovery resume what is left of it, only a live event is delivered, only one
\* that has used up its lifetime is discarded, and none ends twice.
state == [e \in Events |->
    IF e \notin issued THEN "new"
    ELSE IF e \in DOMAIN ended THEN ended[e]
    ELSE IF e \in DOMAIN claims THEN "claimed" ELSE "available"]

left == [e \in Events |->
    IF e \in DOMAIN claims THEN claims[e].remaining
    ELSE IF e \in DOMAIN unclaimed THEN unclaimed[e] - now ELSE 0]

Lifetime == INSTANCE EventLifetime
    WITH Events <- Events, Lifetimes <- Lifetimes, state <- state, left <- left
LifetimeSpec == Lifetime!Spec

===============================================================================
