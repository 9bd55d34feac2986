------------------------------ MODULE RedisClaims ------------------------------
(***************************************************************************)
(* The Redis store of one AsyncQueue (backends/redis/library.lua): the     *)
(* entry records, the pending list, the delayed and the scheduled ZSET,    *)
(* the claim keys and the claim-deadline ZSET.  Redis runs a Function      *)
(* without interleaving, so each Function is one action; it reads the      *)
(* server's TIME.  Any number of workers and producers call it in any      *)
(* order: a worker is a member of Workers, and nothing but its ID is known *)
(* of it here (RedisWorker.tla models what it does between two calls).     *)
(***************************************************************************)
EXTENDS RedisValues

CONSTANTS
    Entries,        \* entry IDs; UUIDv7 values, so they are ordered by creation
    Workers,        \* worker IDs
    Stack,          \* the queue's stack option: LIFO instead of FIFO
    Leases,         \* lease durations that workers ask for
    Delays,         \* delays of a release and of a scheduled enqueue
    Batch,          \* recovery_batch_size
    MaxTime,        \* bound on the clock of the model
    NoEntry         \* the reply of a call that found no entry

ASSUME ConstantsOK ==
    /\ Entries \subseteq Nat
    /\ NoEntry \notin Entries
    /\ Stack \in BOOLEAN
    /\ Leases \subseteq Nat \ {0}
    /\ Delays \subseteq Nat
    /\ Batch \in Nat \ {0}
    /\ MaxTime \in Nat

VARIABLES
    record,             \* status of each stored record: [ids -> Stored]
    pending,            \* the pending list
    delayed,            \* released entries and when they are due
    scheduled,          \* entries enqueued for later and when they are due
    claims,             \* claim keys: owner and lease deadline
    claim_deadlines,    \* the claim-deadline ZSET
    now,                \* Redis TIME
    issued,             \* history: the IDs enqueued so far
    lost,               \* history: the IDs whose record was removed from outside
    dequeued            \* history: the IDs given to a direct consumer

store == <<record, pending, delayed, scheduled, claims, claim_deadlines>>
vars == <<store, now, issued, lost, dequeued>>

-------------------------------------------------------------------------------
\* The due members of z now, and the first n of them (ZRANGEBYSCORE ... LIMIT 0 n).
Due(z) == DueAt(z, now)
FirstDue(z, n) ==
    {S \in SUBSET Due(z) :
        /\ Cardinality(S) <= n
        /\ S # Due(z) => Cardinality(S) = n
        /\ \A e \in S, f \in Due(z) \ S : Before(z, e, f)}

Terminal == {"succeeded", "failed", "cancelled", "timeout"}
HasStatus(e, S) == e \in DOMAIN record /\ record[e] \in S

\* Mutant of Owns: the worker ID in the claim is not compared.
ClaimExists(w, e) == e \in DOMAIN claims

\* The claim key of e exists and names w.
Owns(w, e) == e \in DOMAIN claims /\ claims[e].owner = w
CanRenew(w, e) == Owns(w, e) /\ claims[e].deadline > now

-------------------------------------------------------------------------------
\* promote_one_scheduled: of the entries that share the earliest due time, the
\* first one that is still queued moves to the pending list; the ones before it
\* are dropped from the schedule.  One result (the set is a singleton).
EarliestDue ==
    {e \in Due(scheduled) : \A f \in Due(scheduled) : scheduled[e] <= scheduled[f]}
Promotable == {e \in EarliestDue : HasStatus(e, {"queued"})}
Promoted ==
    IF Promotable = {}
    THEN {[pending |-> pending, scheduled |-> Without(scheduled, EarliestDue)]}
    ELSE {[pending |-> Append(pending, e),
           scheduled |-> Without(scheduled, {f \in EarliestDue : f <= e})] :
              e \in {x \in Promotable : \A f \in Promotable : x <= f}}

\* django_queue_store_and_push
StoreAndPush(e) ==
    /\ e \notin issued
    /\ record' = Zadd(record, e, "queued")
    /\ pending' = Append(pending, e)
    /\ issued' = issued \cup {e}
    /\ UNCHANGED <<delayed, scheduled, claims, claim_deadlines, now, lost, dequeued>>

\* django_queue_store_available: an entry whose time has come is pushed.
StoreAvailable(e, available_at) ==
    /\ e \notin issued
    /\ record' = Zadd(record, e, "queued")
    /\ IF available_at > now
       THEN scheduled' = Zadd(scheduled, e, available_at) /\ UNCHANGED pending
       ELSE pending' = Append(pending, e) /\ UNCHANGED scheduled
    /\ issued' = issued \cup {e}
    /\ UNCHANGED <<delayed, claims, claim_deadlines, now, lost, dequeued>>

\* django_queue_promote_scheduled
PromoteScheduled ==
    /\ \E p \in Promoted : pending' = p.pending /\ scheduled' = p.scheduled
    /\ UNCHANGED <<record, delayed, claims, claim_deadlines, now, issued, lost, dequeued>>

\* django_queue_dequeue: a direct consumer gets the next entry and no claim.
Dequeue(got) ==
    /\ \E p \in Promoted :
          /\ scheduled' = p.scheduled
          /\ IF p.pending = <<>>
             THEN got = NoEntry /\ pending' = p.pending
             ELSE got = Popped(p.pending, Stack) /\ pending' = PopRest(p.pending, Stack)
    /\ dequeued' = dequeued \cup ({got} \ {NoEntry})
    /\ UNCHANGED <<record, delayed, claims, claim_deadlines, now, issued, lost>>

\* django_queue_claim: promotes one scheduled entry and every due delayed one,
\* then pops an entry and claims it.  NoEntry stands for 'empty' and 'conflict'.
Claim(w, lease, got) ==
    /\ \E p \in Promoted : \E redelivered \in Ranged(delayed, Due(delayed)) :
          LET list == p.pending \o redelivered IN
          /\ scheduled' = p.scheduled
          /\ delayed' = Without(delayed, Due(delayed))
          /\ IF list = <<>> \/ Popped(list, Stack) \in DOMAIN claims
             THEN got = NoEntry /\ pending' = list /\ UNCHANGED <<claims, claim_deadlines>>
             ELSE /\ got = Popped(list, Stack)
                  /\ pending' = PopRest(list, Stack)
                  /\ claims' = Zadd(claims, got, [owner |-> w, deadline |-> now + lease])
                  /\ claim_deadlines' = Zadd(claim_deadlines, got, now + lease)
    /\ UNCHANGED <<record, now, issued, lost, dequeued>>

\* Mutant of Renew: the claim-deadline ZSET keeps the old deadline.
RenewKeyOnly(w, e, lease) ==
    /\ CanRenew(w, e)
    /\ claims' = Zadd(claims, e, [owner |-> w, deadline |-> now + lease])
    /\ UNCHANGED <<record, pending, delayed, scheduled, claim_deadlines, now, issued, lost, dequeued>>

\* django_queue_renew: refused once the lease has run out.
Renew(w, e, lease) ==
    /\ CanRenew(w, e)
    /\ claims' = Zadd(claims, e, [owner |-> w, deadline |-> now + lease])
    /\ claim_deadlines' = Zadd(claim_deadlines, e, now + lease)
    /\ UNCHANGED <<record, pending, delayed, scheduled, now, issued, lost, dequeued>>

\* The claim key of e and its deadline go.
Unclaim(e) ==
    /\ claims' = Without(claims, {e})
    /\ claim_deadlines' = Without(claim_deadlines, {e})

\* django_queue_release
Release(w, e, delay) ==
    /\ Owns(w, e)
    /\ Unclaim(e)
    /\ delayed' = Zadd(delayed, e, now + delay)
    /\ UNCHANGED <<record, pending, scheduled, now, issued, lost, dequeued>>

\* django_queue_ack
Ack(w, e) ==
    /\ Owns(w, e)
    /\ Unclaim(e)
    /\ UNCHANGED <<record, pending, delayed, scheduled, now, issued, lost, dequeued>>

\* django_queue_mark_running: the lease deadline is not consulted.
MarkRunning(w, e) ==
    /\ Owns(w, e)
    /\ HasStatus(e, {"queued"})
    /\ record' = Zadd(record, e, "running")
    /\ UNCHANGED <<pending, delayed, scheduled, claims, claim_deadlines, now, issued, lost, dequeued>>

\* Mutant of Settle: the status is not consulted.
SettleAnyStatus(w, e, outcome) ==
    /\ Owns(w, e)
    /\ record' = Zadd(record, e, outcome)
    /\ Unclaim(e)
    /\ UNCHANGED <<pending, delayed, scheduled, now, issued, lost, dequeued>>

\* django_queue_settle: the lease deadline is not consulted.
Settle(w, e, outcome) ==
    /\ Owns(w, e)
    /\ HasStatus(e, {"running"})
    /\ record' = Zadd(record, e, outcome)
    /\ Unclaim(e)
    /\ UNCHANGED <<pending, delayed, scheduled, now, issued, lost, dequeued>>

\* django_queue_recover, one batch of due claims.  A claim key that has not run
\* out corrects the ZSET; the other claims are gone, and the unfinished entries
\* among them are pushed back as queued.
LiveClaims(batch) == {e \in batch \cap DOMAIN claims : claims[e].deadline > now}
Requeued(gone) == {e \in gone : HasStatus(e, {"queued", "running"})}

RecoverBatch(live, gone) ==
    /\ record' = [e \in DOMAIN record |-> IF e \in Requeued(gone) THEN "queued" ELSE record[e]]
    /\ \E list \in Ranged(claim_deadlines, Requeued(gone)) : pending' = pending \o list
    /\ claims' = Without(claims, gone)
    /\ claim_deadlines' = [e \in DOMAIN claim_deadlines \ gone |->
           IF e \in live THEN claims[e].deadline ELSE claim_deadlines[e]]
    /\ UNCHANGED <<delayed, scheduled, now, issued, lost, dequeued>>

Recover ==
    \E batch \in FirstDue(claim_deadlines, Batch) :
        RecoverBatch(LiveClaims(batch), batch \ LiveClaims(batch))

\* django_queue_prune
Prune(e) ==
    /\ HasStatus(e, Terminal)
    /\ record' = Without(record, {e})
    /\ pending' = Lrem(pending, e)
    /\ UNCHANGED <<delayed, scheduled, claims, claim_deadlines, now, issued, lost, dequeued>>

\* A record that is removed outside the queue's lifecycle, which workers
\* provide for (AsyncQueueWorker._log_missing_entry): indexes and claims stay.
RemoveRecord(e) ==
    /\ e \in DOMAIN record
    /\ record' = Without(record, {e})
    /\ lost' = lost \cup {e}
    /\ UNCHANGED <<pending, delayed, scheduled, claims, claim_deadlines, now, issued, dequeued>>

Tick ==
    /\ now < MaxTime
    /\ now' = now + 1
    /\ UNCHANGED <<store, issued, lost, dequeued>>

-------------------------------------------------------------------------------
Init ==
    /\ record = <<>> /\ pending = <<>> /\ delayed = <<>> /\ scheduled = <<>>
    /\ claims = <<>> /\ claim_deadlines = <<>>
    /\ now = 0 /\ issued = {} /\ lost = {} /\ dequeued = {}

\* The outcomes that a worker settles an entry with.
Outcomes == {"succeeded", "failed", "timeout"}

\* What a worker calls.  It gives back what it has not started and drops the
\* claim of an ID whose record is missing; RedisWorker.tla shows that workers
\* keep to this.
WorkerCall(w) ==
    \/ \E lease \in Leases, got \in Entries \cup {NoEntry} : Claim(w, lease, got)
    \/ \E e \in Entries :
          \/ \E lease \in Leases : Renew(w, e, lease)
          \/ ~HasStatus(e, {"running"}) /\ \E delay \in Delays : Release(w, e, delay)
          \/ e \notin DOMAIN record /\ Ack(w, e)
          \/ MarkRunning(w, e)
          \/ \E outcome \in Outcomes : Settle(w, e, outcome)

Next ==
    \/ \E e \in Entries : StoreAndPush(e)
    \/ \E e \in Entries, delay \in Delays : StoreAvailable(e, now + delay)
    \/ PromoteScheduled
    \/ \E got \in Entries \cup {NoEntry} : Dequeue(got)
    \/ \E w \in Workers : WorkerCall(w)
    \/ Recover
    \/ \E e \in Entries : Prune(e)
    \/ \E e \in Entries : RemoveRecord(e)
    \/ Tick

Spec == Init /\ [][Next]_vars

-------------------------------------------------------------------------------
Stored == {"queued", "running"} \cup Terminal

\* The variables have the shape of the Redis keys they stand for.
TypeOK ==
    /\ record \in [DOMAIN record -> Stored] /\ DOMAIN record \subseteq issued
    /\ pending \in Seq(issued)
    /\ delayed \in [DOMAIN delayed -> Nat] /\ DOMAIN delayed \subseteq issued
    /\ scheduled \in [DOMAIN scheduled -> Nat] /\ DOMAIN scheduled \subseteq issued
    /\ claims \in [DOMAIN claims -> [owner : Workers, deadline : Nat]]
    /\ claim_deadlines \in [DOMAIN claim_deadlines -> Nat]
    /\ DOMAIN claims \subseteq issued /\ DOMAIN claim_deadlines \subseteq issued
    /\ now \in Nat
    /\ issued \subseteq Entries /\ IsFiniteSet(issued)
    /\ lost \subseteq issued /\ dequeued \subseteq issued

\* No entry is in two places at once.  Whatever the order of claims, releases,
\* recoveries and promotions, an ID is listed as pending once, or is delayed, or
\* scheduled, or claimed, or has been handed to a direct consumer: two consumers
\* never get the same delivery, and the 'conflict' reply of claim cannot occur.
SinglePlace ==
    /\ Injective(pending)
    /\ Range(pending) \cap DOMAIN delayed = {}
    /\ Range(pending) \cap DOMAIN scheduled = {}
    /\ Range(pending) \cap DOMAIN claims = {}
    /\ DOMAIN delayed \cap DOMAIN scheduled = {}
    /\ DOMAIN delayed \cap DOMAIN claims = {}
    /\ DOMAIN scheduled \cap DOMAIN claims = {}
    /\ dequeued \cap (Range(pending) \cup DOMAIN delayed \cup DOMAIN scheduled \cup DOMAIN claims) = {}

\* No work is lost: an unfinished record is where a claim can find it, or is
\* claimed and so under a lease that recovery watches, or was handed to a direct
\* consumer (dequeue is best effort).
NoLostWork ==
    \A e \in DOMAIN record : record[e] \in {"queued", "running"} =>
        \/ e \in Range(pending) \cup DOMAIN delayed \cup DOMAIN scheduled
        \/ e \in DOMAIN claim_deadlines
        \/ e \in dequeued

\* An entry is running only under a claim, so a crash of its worker is noticed.
RunningIsClaimed ==
    \A e \in DOMAIN record : record[e] = "running" => e \in DOMAIN claims

\* The claim keys and the claim-deadline ZSET tell the same story: recover, which
\* scans the ZSET, and renew, which reads the key, agree on when a lease ends.
ClaimsIndexed ==
    /\ DOMAIN claims = DOMAIN claim_deadlines
    /\ \A e \in DOMAIN claims : claims[e].deadline = claim_deadlines[e]

\* A crash of a worker is noticed: an entry that is claimed or running is found by
\* recover at the deadline that its worker was promised.
ClaimsWatched == RunningIsClaimed /\ ClaimsIndexed

\* A finished entry is not delivered again: its ID is in no list, ZSET or claim
\* (prune and store leave some of those alone, because nothing can be there).
FinishedIsInert ==
    \A e \in DOMAIN record : record[e] \in Terminal =>
        e \notin Range(pending) \cup DOMAIN delayed \cup DOMAIN scheduled \cup DOMAIN claims

\* The keys of the store agree: every unfinished entry is in one place from which
\* a claim or recovery takes it, and a finished one is in none.
NoEntryStranded == TypeOK /\ SinglePlace /\ NoLostWork /\ ClaimsWatched /\ FinishedIsInert

\* While a lease runs, only its owner ends the claim: recovery, other workers,
\* producers, pruning and record removal leave it in place.
LeaseHonoured ==
    \A e \in DOMAIN claims :
        claims[e].deadline > now
            => \/ e \in DOMAIN claims' /\ claims'[e].owner = claims[e].owner
               \/ \E delay \in Delays : Release(claims[e].owner, e, delay)
               \/ Ack(claims[e].owner, e)
               \/ \E outcome \in Outcomes : Settle(claims[e].owner, e, outcome)
AlwaysLeaseHonoured == [][LeaseHonoured]_vars

\* The store implements the status machine of entries.py.
status == [e \in Entries |->
    IF e \in DOMAIN record THEN record[e]
    ELSE IF e \in lost THEN "lost"
    ELSE IF e \in issued THEN "terminated" ELSE "new"]
Lifecycle == INSTANCE EntryLifecycle WITH Entries <- Entries, status <- status
LifecycleSpec == Lifecycle!Spec

===============================================================================
