----------------------------- MODULE RedisPriority -----------------------------
(***************************************************************************)
(* The store of a priority AsyncQueue (RedisAsyncPriorityQueue): the one   *)
(* of RedisClaims, in which entries wait in a ZSET instead of the pending  *)
(* list.  Its score packs the priority and a sequence number,              *)
(* priority * Space - sequence, and the sequence starts again at 0 when    *)
(* the ZSET drains.  The lease, status and record Functions are those of   *)
(* RedisClaims; the Functions with a _priority variant are modelled here.  *)
(***************************************************************************)
EXTENDS RedisClaims

CONSTANTS
    Priorities,     \* entry priorities, at most MAX_PRIORITY_MAGNITUDE from 0
    Space,          \* _PRIORITY_SEQUENCE_SPACE
    MaxSequence,    \* bound on the sequence
    Failing         \* the entries that an application fails by hand

ASSUME PriorityConstantsOK ==
    /\ Priorities \subseteq Int /\ 0 \in Priorities
    /\ Space \in Nat \ {0}
    /\ MaxSequence \in Nat
    /\ Failing \subseteq Entries

VARIABLES
    priorities,     \* the priority ZSET
    sequence,       \* the priority-sequence key
    prio,           \* the priority field of the records
    pushed_as,      \* history: the priority that each ID in the ZSET was pushed with
    earlier         \* history: the pairs of IDs in the ZSET, the one pushed first first

history == <<pushed_as, earlier>>
queue == <<priorities, sequence, history>>
pvars == <<vars, queue, prio>>

-------------------------------------------------------------------------------
\* The priority that a Function reads from a record, 0 without one.
PriorityOf(e) == IF e \in DOMAIN record THEN prio[e] ELSE 0

\* push_priority of the IDs S, each with the next sequence number: at gives their
\* places in the order they are pushed in.
Score(p, n) == p * Space - n

Places(z, S) ==
    {at \in [S -> 1 .. Cardinality(S)] :
        \A e, f \in S : e # f => (at[e] < at[f] <=> Before(z, e, f))}
Pushed(at, p) ==
    [e \in DOMAIN priorities \cup DOMAIN at |->
        IF e \in DOMAIN at THEN Score(p[e], sequence + at[e]) ELSE priorities[e]]

Push(at, p) ==
    /\ priorities' = Pushed(at, p)
    /\ sequence' = sequence + Cardinality(DOMAIN at)

\* The history of a push of at's IDs, and then the removal of the IDs S.
Arrivals(at) ==
    {ef \in earlier : ef[1] \notin DOMAIN at /\ ef[2] \notin DOMAIN at}
        \cup ((DOMAIN priorities \ DOMAIN at) \X (DOMAIN at))
        \cup {ef \in (DOMAIN at) \X (DOMAIN at) : at[ef[1]] < at[ef[2]]}
Recorded(at, p, S) ==
    /\ pushed_as' = [e \in (DOMAIN priorities \cup DOMAIN at) \ S |->
           IF e \in DOMAIN at THEN p[e] ELSE pushed_as[e]]
    /\ earlier' = {ef \in Arrivals(at) : ef[1] \notin S /\ ef[2] \notin S}

PushAll(at, p) == Push(at, p) /\ Recorded(at, p, {})
PushOne(e, p) == PushAll([x \in {e} |-> 1], [x \in {e} |-> p])

\* The top of a ZSET (ZREVRANGE key 0 0), and the ZSET and the sequence when an
\* ID is taken from it.
Top(z) == {e \in DOMAIN z : \A f \in DOMAIN z : f # e => Before(z, f, e)}

Take(z, n, e) ==
    /\ priorities' = Without(z, {e})
    /\ sequence' = IF DOMAIN z \ {e} = {} THEN 0 ELSE n

\* promote_one_scheduled_priority: of the queued entries that share the earliest
\* due time, the first one of the highest priority; those that are not queued
\* are dropped from the schedule.
\* Mutant of Chosen: the first one of any priority.
ChosenFirst == {e \in Promotable : \A f \in Promotable : e <= f}
Chosen ==
    {e \in Promotable : \A f \in Promotable :
        prio[e] > prio[f] \/ (prio[e] = prio[f] /\ e <= f)}
ScheduledLeft == Without(scheduled, (EarliestDue \ Promotable) \cup Chosen)
ChosenAt == [e \in Chosen |-> 1]
ChosenPriority == [e \in Chosen |-> prio[e]]

-------------------------------------------------------------------------------
\* django_queue_store_and_push_priority
StoreAndPushPriority(e, p) ==
    /\ e \notin issued
    /\ record' = Zadd(record, e, "queued")
    /\ prio' = Zadd(prio, e, p)
    /\ PushOne(e, p)
    /\ issued' = issued \cup {e}
    /\ UNCHANGED <<pending, delayed, scheduled, claims, claim_deadlines, now, lost, dequeued>>

\* django_queue_store_available, with the priority flag
StoreAvailablePriority(e, p, available_at) ==
    /\ e \notin issued
    /\ record' = Zadd(record, e, "queued")
    /\ prio' = Zadd(prio, e, p)
    /\ IF available_at > now
       THEN scheduled' = Zadd(scheduled, e, available_at) /\ UNCHANGED queue
       ELSE PushOne(e, p) /\ UNCHANGED scheduled
    /\ issued' = issued \cup {e}
    /\ UNCHANGED <<pending, delayed, claims, claim_deadlines, now, lost, dequeued>>

\* django_queue_promote_scheduled_priority
PromoteScheduledPriority ==
    /\ PushAll(ChosenAt, ChosenPriority)
    /\ scheduled' = ScheduledLeft
    /\ UNCHANGED <<record, pending, delayed, claims, claim_deadlines, now, issued, lost, dequeued, prio>>

\* django_queue_dequeue_priority
DequeuePriority(got) ==
    LET z == Pushed(ChosenAt, ChosenPriority) IN
    /\ Recorded(ChosenAt, ChosenPriority, {got})
    /\ scheduled' = ScheduledLeft
    /\ \/ got = NoEntry /\ DOMAIN z = {} /\ UNCHANGED <<priorities, sequence>>
       \/ got \in Top(z) /\ Take(z, sequence + Cardinality(Chosen), got)
    /\ dequeued' = dequeued \cup ({got} \ {NoEntry})
    /\ UNCHANGED <<record, pending, delayed, claims, claim_deadlines, now, issued, lost, prio>>

\* django_queue_claim_priority: the pending list, with the due delayed IDs, comes
\* before the ZSET.  NoEntry stands for 'empty' and 'conflict'.
ClaimPriority(w, lease, got) ==
    LET z == Pushed(ChosenAt, ChosenPriority)
        n == sequence + Cardinality(Chosen)
    IN
    /\ scheduled' = ScheduledLeft
    /\ delayed' = Without(delayed, Due(delayed))
    /\ \E redelivered \in Ranged(delayed, Due(delayed)) :
          LET list == pending \o redelivered
              next == IF list # <<>> THEN {Head(list)} ELSE Top(z)
          IN
          \/ /\ next \subseteq DOMAIN claims /\ got = NoEntry
             /\ pending' = list /\ PushAll(ChosenAt, ChosenPriority)
             /\ UNCHANGED <<claims, claim_deadlines>>
          \/ /\ got \in next /\ got \notin DOMAIN claims
             /\ IF list # <<>>
                THEN pending' = Tail(list) /\ PushAll(ChosenAt, ChosenPriority)
                ELSE /\ pending' = list
                     /\ Take(z, n, got) /\ Recorded(ChosenAt, ChosenPriority, {got})
             /\ claims' = Zadd(claims, got, [owner |-> w, deadline |-> now + lease])
             /\ claim_deadlines' = Zadd(claim_deadlines, got, now + lease)
    /\ UNCHANGED <<record, now, issued, lost, dequeued, prio>>

\* django_queue_release_priority: at once, and behind the entries of its priority.
ReleasePriority(w, e) ==
    /\ Owns(w, e)
    /\ Unclaim(e)
    /\ PushOne(e, PriorityOf(e))
    /\ UNCHANGED <<record, pending, delayed, scheduled, now, issued, lost, dequeued, prio>>

\* django_queue_recover_priority, one batch of due claims (RedisClaims!Recover).
\* Mutant of RecoverPriorityBatch: pushed to the pending list, which claim prefers.
RecoverToList(live, gone) ==
    /\ record' = [e \in DOMAIN record |-> IF e \in Requeued(gone) THEN "queued" ELSE record[e]]
    /\ \E list \in Ranged(claim_deadlines, Requeued(gone)) : pending' = pending \o list
    /\ claims' = Without(claims, gone)
    /\ claim_deadlines' = [e \in DOMAIN claim_deadlines \ gone |->
           IF e \in live THEN claims[e].deadline ELSE claim_deadlines[e]]
    /\ UNCHANGED <<delayed, scheduled, now, issued, lost, dequeued, prio, queue>>

RecoverPriorityBatch(live, gone) ==
    /\ record' = [e \in DOMAIN record |-> IF e \in Requeued(gone) THEN "queued" ELSE record[e]]
    /\ \E at \in Places(claim_deadlines, Requeued(gone)) :
          PushAll(at, [e \in Requeued(gone) |-> prio[e]])
    /\ claims' = Without(claims, gone)
    /\ claim_deadlines' = [e \in DOMAIN claim_deadlines \ gone |->
           IF e \in live THEN claims[e].deadline ELSE claim_deadlines[e]]
    /\ UNCHANGED <<pending, delayed, scheduled, now, issued, lost, dequeued, prio>>

RecoverPriority ==
    \E batch \in FirstDue(claim_deadlines, Batch) :
        RecoverPriorityBatch(LiveClaims(batch), batch \ LiveClaims(batch))

\* django_queue_store_and_discard, to fail a queued entry before its dispatch.  The
\* caller found the entry queued in an earlier call: by now it may be claimed,
\* running, finished or pruned, and the Function does not look.
StoreAndDiscard(e) ==
    /\ e \in issued
    /\ record' = Zadd(record, e, "failed")
    /\ pending' = Lrem(pending, e)
    /\ scheduled' = Without(scheduled, {e})
    /\ Take(priorities, sequence, e)
    /\ Recorded(<<>>, <<>>, {e})
    /\ UNCHANGED <<delayed, claims, claim_deadlines, now, issued, lost, dequeued, prio>>

\* The Functions that the priority queue shares with the others; one outcome
\* stands for all.
Shared ==
    /\ \/ \E w \in Workers, e \in Entries :
             \/ \E lease \in Leases : Renew(w, e, lease)
             \/ e \notin DOMAIN record /\ Ack(w, e)
             \/ MarkRunning(w, e)
             \/ Settle(w, e, "succeeded")
       \/ \E e \in Entries : Prune(e) \/ RemoveRecord(e)
       \/ Tick
    /\ UNCHANGED <<queue, prio>>

-------------------------------------------------------------------------------
PInit ==
    /\ Init
    /\ priorities = <<>> /\ sequence = 0 /\ prio = <<>>
    /\ pushed_as = <<>> /\ earlier = {}

Enqueue ==
    \E e \in Entries, p \in Priorities :
        \/ StoreAndPushPriority(e, p)
        \/ \E delay \in Delays : StoreAvailablePriority(e, p, now + delay)

WorkerPriorityCall(w) ==
    \/ \E lease \in Leases, got \in Entries \cup {NoEntry} : ClaimPriority(w, lease, got)
    \/ \E e \in Entries : ~HasStatus(e, {"running"}) /\ ReleasePriority(w, e)

Pushing ==
    /\ sequence < MaxSequence
    /\ \/ Enqueue
       \/ PromoteScheduledPriority
       \/ \E got \in Entries \cup {NoEntry} : DequeuePriority(got)
       \/ \E w \in Workers : WorkerPriorityCall(w)
       \/ RecoverPriority

PNext == Pushing \/ Shared \/ \E e \in Failing : StoreAndDiscard(e)

PSpec == PInit /\ [][PNext]_pvars

-------------------------------------------------------------------------------
\* Of two IDs in the ZSET, e comes before f: its priority is higher, or the same
\* and it was pushed first.
Ahead(e, f) ==
    \/ pushed_as[e] > pushed_as[f]
    \/ pushed_as[e] = pushed_as[f] /\ <<e, f>> \in earlier

\* The ZSET ranks its entries by priority and then by arrival, through all resets
\* of the sequence, redeliveries and promotions, as long as no more than Space
\* pushes have been made since it was last empty.  (Past that an entry may rank
\* below an older one of the next lower priority.)
Ranked ==
    sequence <= Space =>
        \A e, f \in DOMAIN priorities : Ahead(e, f) => priorities[e] > priorities[f]

\* A consumer never gets an entry while one that is ahead of it stays behind in
\* the ZSET, also when the entry was promoted in the same step.
Taken == (DOMAIN claims' \ DOMAIN claims) \cup (dequeued' \ dequeued)
BestFirst ==
    sequence < Space =>
        \A e \in Taken, f \in DOMAIN priorities' :
            IF e \in DOMAIN priorities
            THEN IF f \in DOMAIN priorities THEN ~Ahead(f, e) ELSE pushed_as'[f] <= pushed_as[e]
            ELSE pushed_as'[f] < prio[e]

\* Of scheduled entries, one that is due earlier, or at the same time with a higher
\* priority, is never overtaken: it leaves the schedule no later.
ScheduleOrder ==
    \A e, f \in DOMAIN scheduled :
        /\ e \notin DOMAIN scheduled'
        /\ HasStatus(e, {"queued"})' /\ HasStatus(f, {"queued"})
        /\ \/ scheduled[f] < scheduled[e]
           \/ scheduled[f] = scheduled[e] /\ prio[f] > prio[e]
        => f \notin DOMAIN scheduled'

\* Entries are taken in the order of their priorities, arrivals and due times.
AlwaysInOrder == [][BestFirst /\ ScheduleOrder]_pvars

\* An unfinished entry of a priority queue waits in the ZSET or in the schedule,
\* or is claimed, or was handed to a direct consumer: in exactly one of these.
OneHome ==
    /\ DOMAIN priorities \cap DOMAIN scheduled = {}
    /\ DOMAIN priorities \cap DOMAIN claims = {}
    /\ DOMAIN scheduled \cap DOMAIN claims = {}
    /\ dequeued \cap (DOMAIN priorities \cup DOMAIN scheduled \cup DOMAIN claims) = {}
    /\ \A e \in DOMAIN record : record[e] \in {"queued", "running"} =>
           e \in DOMAIN priorities \cup DOMAIN scheduled \cup DOMAIN claims \cup dequeued

===============================================================================
