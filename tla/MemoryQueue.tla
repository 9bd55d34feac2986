----------------------------- MODULE MemoryQueue -----------------------------
(***************************************************************************)
(* The in-process AsyncQueue: the facade AsyncQueue of backends/base.py    *)
(* over QueueProviderMemory (backends/memory/provider.py, queue, stack or  *)
(* priority queue), with the generic AsyncQueueWorker of worker.py.        *)
(* Producers, direct consumers, administrators and workers may each run in *)
(* a thread of their own.  The provider's lock covers one provider call,   *)
(* so a step is one provider call with the lock-free code around it; an    *)
(* operation of the facade that makes several calls takes several steps.   *)
(***************************************************************************)
EXTENDS RedisValues, SequencesExt

CONSTANTS
    Entries,        \* entry IDs, ordered by creation as UUIDv7 are
    Workers,
    Clients,        \* the other threads that use the queue
    Outcomes,       \* how handlers end: returned, raised, out of time
    Kinds,          \* the kinds of queue: "queue", "stack", "priority"
    Priority,       \* [Entries -> Int]
    Delays,         \* available_at - queued_at
    ByHand,         \* the entries that an administrator may mark as failed
    MaxCancels,     \* bound: cancellations of workers
    MaxTime,        \* bound of the clock
    NoEntry

ASSUME QueueConstantsOK ==
    /\ Entries \subseteq Nat /\ NoEntry \notin Entries /\ ByHand \subseteq Entries
    /\ Outcomes \subseteq {"succeeded", "failed", "timeout"}
    /\ Kinds \subseteq {"queue", "stack", "priority"} /\ Priority \in [Entries -> Int]
    /\ Delays \subseteq Nat /\ MaxTime \in Nat /\ MaxCancels \in Nat

VARIABLES
    kind,           \* which queue this is
    entries,        \* _entries: ID -> status
    pending,        \* _pending or _pending_priority, in the order of pushes
    scheduled,      \* _scheduled, in the order of insertion
    now,
    client,         \* each client's place in its call and its local variables
    worker,         \* each worker's place in its code and its local variables
    cancels,        \* cancellations so far
    told,           \* history: the snapshots published for an entry
    issued,         \* history: entries stored
    dequeued,       \* history: entries handed to a direct consumer
    late,           \* history: entries stored after a scan had passed their ID
    dropped         \* history: entries a worker left unfinished or unpublished

provider == <<entries, pending, scheduled>>
actors == <<client, worker, cancels>>
history == <<told, issued, dequeued, late, dropped>>
vars == <<kind, provider, now, actors, history>>

\* The status machine of entries.py, for the entries that only workers move.
status == [e \in Entries \ ByHand |->
    IF e \in DOMAIN entries THEN entries[e]
    ELSE IF e \in issued THEN "terminated" ELSE "new"]
Lifecycle == INSTANCE EntryLifecycle WITH Entries <- Entries \ ByHand, status <- status
Terminal == Lifecycle!Terminal
NextState(s) == Lifecycle!NextState(s)

IsQueued(e) == e \in DOMAIN entries /\ entries[e] = "queued"

-------------------------------------------------------------------------------
\* Provider calls.

\* _remove_pending and adiscard_priority.
Adiscard(e) == pending' = Lrem(pending, e)
AdiscardScheduled(e) == scheduled' = SelectSeq(scheduled, LAMBDA x : x.id # e)

\* The index in pending of what get_nowait returns: the oldest item, the newest,
\* or the oldest of the highest priority.
NextIndex ==
    CASE kind = "queue" -> 1
      [] kind = "stack" -> Len(pending)
      [] OTHER ->
           CHOOSE i \in DOMAIN pending : \A j \in DOMAIN pending :
               \/ Priority[pending[i]] > Priority[pending[j]]
               \/ Priority[pending[i]] = Priority[pending[j]] /\ i <= j

\* apop and apop_priority.
Apop(e) ==
    /\ pending # <<>>
    /\ e = pending[NextIndex]
    /\ pending' = RemoveAt(pending, NextIndex)
    /\ UNCHANGED <<entries, scheduled>>

\* _pop_next_due_scheduled: the entries of the earliest due group that are no
\* longer queued are dropped, until a group has one to promote: the first
\* inserted, in a priority queue the first of the highest priority.
DueItems(t) == {i \in DOMAIN scheduled : scheduled[i].due <= t}
LiveItems(t) == {i \in DueItems(t) : IsQueued(scheduled[i].id)}
Earliest(t) ==
    {i \in LiveItems(t) : \A j \in LiveItems(t) : scheduled[i].due <= scheduled[j].due}
ItemRank(i) == IF kind = "priority" THEN Priority[scheduled[i].id] ELSE 0
PopNextDue(t) ==
    CHOOSE i \in Earliest(t) : \A j \in Earliest(t) :
        ItemRank(i) > ItemRank(j) \/ (ItemRank(i) = ItemRank(j) /\ i <= j)
DeadItems(t) ==
    {i \in DueItems(t) \ LiveItems(t) :
        \A j \in Earliest(t) : scheduled[i].due <= scheduled[j].due}
Unscheduled(S) == Sublist(scheduled, DOMAIN scheduled \ S)

\* Mutant of ApromoteScheduled: what is promoted stays in the schedule.
ApromoteCopies ==
    /\ \E t \in {now, now - 1} :
          /\ pending' = IF LiveItems(t) = {} THEN pending
                        ELSE Append(pending, scheduled[PopNextDue(t)].id)
          /\ scheduled' = Unscheduled(DeadItems(t))
    /\ UNCHANGED entries

\* apromote_scheduled: at most one entry per call.  The clock is read before the
\* lock is taken.
ApromoteScheduled ==
    /\ \E t \in {now, now - 1} :
          IF LiveItems(t) = {}
          THEN scheduled' = Unscheduled(DeadItems(t)) /\ UNCHANGED pending
          ELSE /\ pending' = Append(pending, scheduled[PopNextDue(t)].id)
               /\ scheduled' = Unscheduled(DeadItems(t) \cup {PopNextDue(t)})
    /\ UNCHANGED entries

\* adelete: the entry leaves every store it could be in.
Adelete(e) ==
    /\ entries' = Without(entries, {e})
    /\ Adiscard(e) /\ AdiscardScheduled(e)

Astore(e, s) ==
    /\ entries' = Zadd(entries, e, s)
    /\ UNCHANGED <<pending, scheduled>>

\* apublish, and what aprune publishes of an entry that it has deleted.
Tell(S, what) == told' = [e \in Entries |-> IF e \in S THEN told[e] \cup {what[e]} ELSE told[e]]
TellGone(e) == Tell({e}, [x \in {e} |-> "terminated"])

-------------------------------------------------------------------------------
\* Clients: threads that call the facade, one call at a time.
Free == [at |-> "free", entry |-> NoEntry, due |-> 0, read |-> "none"]
Calls(c, where) == client[c].at = where
Done(c) == client' = [client EXCEPT ![c] = Free]

\* aenqueue: astore, then (clock read) aschedule or _apush.
Enqueue(c, e) ==
    /\ Calls(c, "free") /\ e \notin issued
    /\ Astore(e, "queued")
    /\ \E d \in Delays :
          /\ now + d < MaxTime
          /\ client' = [client EXCEPT ![c].at = "stored", ![c].entry = e, ![c].due = now + d]
    /\ issued' = issued \cup {e}
    /\ late' = late \cup {x \in {e} : \E w \in Workers : worker[w].cursor >= x}
    /\ UNCHANGED <<now, worker, cancels, told, dequeued, dropped>>

EnqueueReadsClock(c) ==
    /\ Calls(c, "stored")
    /\ client' = [client EXCEPT ![c].at = IF client[c].due > now THEN "schedule" ELSE "push"]
    /\ UNCHANGED <<provider, now, worker, cancels, history>>

EnqueuePlaces(c) ==
    /\ \/ Calls(c, "push") /\ pending' = Append(pending, client[c].entry) /\ UNCHANGED scheduled
       \/ /\ Calls(c, "schedule")
          /\ scheduled' = Append(scheduled, [id |-> client[c].entry, due |-> client[c].due])
          /\ UNCHANGED pending
    /\ Done(c)
    /\ UNCHANGED <<entries, now, worker, cancels, history>>

\* adequeue by a direct consumer: promote, then pop.
DequeuePromotes(c) ==
    /\ Calls(c, "free")
    /\ ApromoteScheduled
    /\ client' = [client EXCEPT ![c].at = "pop"]
    /\ UNCHANGED <<now, worker, cancels, history>>

DequeuePops(c) ==
    /\ Calls(c, "pop")
    /\ \/ \E e \in Entries : Apop(e) /\ dequeued' = dequeued \cup {e}
       \/ pending = <<>> /\ UNCHANGED <<provider, dequeued>>
    /\ Done(c)
    /\ UNCHANGED <<now, worker, cancels, told, issued, late, dropped>>

\* Mutant of PruneChecks: the status is not looked at.
PruneChecksNothing(c, e) ==
    /\ Calls(c, "free")
    /\ e \in DOMAIN entries
    /\ client' = [client EXCEPT ![c].at = "delete", ![c].entry = e]
    /\ UNCHANGED <<provider, now, worker, cancels, history>>

\* prune: the check of the provider's aprune and its adelete are two calls.
PruneChecks(c, e) ==
    /\ Calls(c, "free")
    /\ e \in DOMAIN entries /\ entries[e] \in Terminal
    /\ client' = [client EXCEPT ![c].at = "delete", ![c].entry = e]
    /\ UNCHANGED <<provider, now, worker, cancels, history>>

PruneDeletes(c) ==
    /\ Calls(c, "delete")
    /\ Adelete(client[c].entry)
    /\ TellGone(client[c].entry)
    /\ Done(c)
    /\ UNCHANGED <<now, worker, cancels, issued, dequeued, late, dropped>>

\* _areplace_entry reads the record, checks the transition against next_state
\* and stores: the record that is replaced may no longer be the one that was read.
MayBecome(e, s) == e \in DOMAIN entries /\ s \in NextState(entries[e])

\* _mark_failed.
FailFinds(c, e) ==
    /\ Calls(c, "free") /\ e \in ByHand
    /\ MayBecome(e, "failed")
    /\ client' = [client EXCEPT ![c].at = "fail", ![c].entry = e, ![c].read = entries[e]]
    /\ UNCHANGED <<provider, now, worker, cancels, history>>

FailStores(c) ==
    /\ Calls(c, "fail")
    /\ Astore(client[c].entry, "failed")
    /\ IF client[c].read = "queued" THEN client' = [client EXCEPT ![c].at = "discard"] ELSE Done(c)
    /\ UNCHANGED <<now, worker, cancels, history>>

\* _astore_and_discard: the pending store, then the schedule.
FailDiscards(c) ==
    /\ \/ /\ Calls(c, "discard")
          /\ Adiscard(client[c].entry) /\ UNCHANGED scheduled
          /\ client' = [client EXCEPT ![c].at = "discard_scheduled"]
       \/ /\ Calls(c, "discard_scheduled")
          /\ AdiscardScheduled(client[c].entry) /\ UNCHANGED pending
          /\ Done(c)
    /\ UNCHANGED <<entries, now, worker, cancels, history>>

ClientGoesOn(c) ==
    \/ EnqueueReadsClock(c) \/ EnqueuePlaces(c) \/ DequeuePops(c)
    \/ PruneDeletes(c) \/ FailStores(c) \/ FailDiscards(c)

-------------------------------------------------------------------------------
\* AsyncQueueWorker.

\* The awaits that suspend the worker: elsewhere the provider never yields to the
\* event loop, so a cancellation is delivered at one of these.
Suspended == {"idle", "handler", "grace", "update_find", "update", "updated"}
Places == Suspended \cup {"scan", "retention", "prune_find", "prune_delete", "promote", "pop",
                          "mark_find", "mark", "persist", "persist_find", "persist_store", "stopped"}

Rest(where, cursor) ==
    [pc |-> where, entry |-> NoEntry, outcome |-> "none", doomed |-> {},
     closing |-> FALSE, detached |-> FALSE, cursor |-> cursor]

At(w, where) == worker[w].pc = where
InHand(w) == worker[w].entry
Goto(w, where) == worker' = [worker EXCEPT ![w].pc = where]

\* The worker's task ends; what it had in hand is left as it is.
Halt(w) ==
    /\ worker' = [worker EXCEPT ![w] = Rest("stopped", @.cursor)]
    /\ dropped' = dropped \cup ({InHand(w)} \ {NoEntry})

\* Mutant of EndDispatch: the cancellation is forgotten.
EndDispatchGoesOn(w) == worker' = [worker EXCEPT ![w] = Rest("scan", @.cursor)]

\* _dispatch returns; after _finish_cancellation the cancellation goes on.
EndDispatch(w) ==
    worker' = [worker EXCEPT ![w] = Rest(IF @.closing THEN "stopped" ELSE "scan", @.cursor)]

others == <<now, client, cancels, issued, dequeued, late>>

\* _publish_new, at most once per second: everything beyond the cursor is
\* published and the cursor moves to the largest ID that is stored.
PublishNew(w) ==
    /\ At(w, "scan")
    /\ \/ /\ worker' = [worker EXCEPT ![w].pc = "retention",
                                      ![w].cursor = Max(DOMAIN entries \cup {@})]
          /\ Tell({e \in DOMAIN entries : e > worker[w].cursor}, entries)
       \/ Goto(w, "retention") /\ UNCHANGED told
    /\ UNCHANGED <<provider, dropped, others>>

\* _prune_expired and _aprune_expired: the terminal records that are older than
\* retention_timeout (their age is left open), then one aprune for each.
FindsExpired(w) ==
    /\ At(w, "retention")
    /\ \E old \in SUBSET {e \in DOMAIN entries : entries[e] \in Terminal} :
          worker' = [worker EXCEPT ![w].pc = IF old = {} THEN "promote" ELSE "prune_find",
                                   ![w].doomed = old]
    /\ UNCHANGED <<provider, told, dropped, others>>

\* The next aprune; a record that is gone is passed over, one that is no longer
\* terminal ends the worker with a ValueError.
PruneFind(w) ==
    /\ At(w, "prune_find")
    /\ \/ worker[w].doomed = {} /\ Goto(w, "promote") /\ UNCHANGED dropped
       \/ \E e \in worker[w].doomed :
             IF e \notin DOMAIN entries
             THEN worker' = [worker EXCEPT ![w].doomed = @ \ {e}] /\ UNCHANGED dropped
             ELSE IF entries[e] \in Terminal
             THEN /\ worker' = [worker EXCEPT ![w].pc = "prune_delete", ![w].entry = e,
                                              ![w].doomed = @ \ {e}]
                  /\ UNCHANGED dropped
             ELSE Halt(w)
    /\ UNCHANGED <<provider, told, others>>

PruneDelete(w) ==
    /\ At(w, "prune_delete")
    /\ Adelete(InHand(w))
    /\ TellGone(InHand(w))
    /\ worker' = [worker EXCEPT ![w].pc = "prune_find", ![w].entry = NoEntry]
    /\ UNCHANGED <<dropped, others>>

\* _next: adequeue.
NextPromotes(w) ==
    /\ At(w, "promote")
    /\ ApromoteScheduled
    /\ Goto(w, "pop")
    /\ UNCHANGED <<told, dropped, others>>

\* _dispatch publishes the entry unless its cursor says that a scan has done so.
NextPops(w) ==
    /\ At(w, "pop")
    /\ \/ \E e \in Entries :
             /\ Apop(e)
             /\ IF e \in DOMAIN entries
                THEN /\ worker' = [worker EXCEPT ![w].pc = "mark_find", ![w].entry = e]
                     /\ Tell({x \in {e} : x > worker[w].cursor}, entries)
                ELSE Goto(w, "scan") /\ UNCHANGED told
       \/ pending = <<>> /\ Goto(w, "idle") /\ UNCHANGED <<provider, told>>
    /\ UNCHANGED <<dropped, others>>

Wakes(w) ==
    /\ At(w, "idle")
    /\ Goto(w, "scan")
    /\ UNCHANGED <<provider, told, dropped, others>>

\* _amark_running: a missing record is logged, a refused transition ends the
\* worker.
MarkFind(w) ==
    /\ At(w, "mark_find")
    /\ IF InHand(w) \notin DOMAIN entries THEN EndDispatch(w) /\ UNCHANGED dropped
       ELSE IF MayBecome(InHand(w), "running") THEN Goto(w, "mark") /\ UNCHANGED dropped
       ELSE Halt(w)
    /\ UNCHANGED <<provider, told, others>>

MarkStore(w) ==
    /\ At(w, "mark")
    /\ Astore(InHand(w), "running")
    /\ Goto(w, "handler")
    /\ Tell({InHand(w)}, entries')
    /\ UNCHANGED <<dropped, others>>

\* The handler returns, raises, or its budget or grace period runs out.
HandlerEnds(w) ==
    /\ At(w, "handler") \/ At(w, "grace")
    /\ \E outcome \in Outcomes :
          worker' = [worker EXCEPT ![w].pc = "update_find", ![w].outcome = outcome]
    /\ UNCHANGED <<provider, told, dropped, others>>

\* The handler ends with a CancelledError of its own: _finish_cancellation meets
\* it again and lets it out.
HandlerCancelsItself(w) ==
    /\ At(w, "handler") \/ At(w, "grace")
    /\ Halt(w)
    /\ UNCHANGED <<provider, told, others>>

\* _publish_terminal: the update runs in a shielded task, which outlives a
\* cancellation of the worker that waits for it.
UpdateFind(w) ==
    /\ At(w, "update_find")
    /\ worker' = [worker EXCEPT ![w].pc =
          IF MayBecome(InHand(w), worker[w].outcome) THEN "update" ELSE "persist"]
    /\ UNCHANGED <<provider, told, dropped, others>>

UpdateStore(w) ==
    /\ At(w, "update")
    /\ Astore(InHand(w), worker[w].outcome)
    /\ Goto(w, "updated")
    /\ UNCHANGED <<told, dropped, others>>

\* Mutant of PublishTerminal: a worker that is being cancelled does not publish.
PublishTerminalHurries(w) ==
    /\ At(w, "updated") /\ ~worker[w].detached
    /\ IF worker[w].closing THEN UNCHANGED told
       ELSE Tell({InHand(w)}, [e \in {InHand(w)} |-> worker[w].outcome])
    /\ EndDispatch(w)
    /\ UNCHANGED <<provider, dropped, others>>

PublishTerminal(w) ==
    /\ At(w, "updated") /\ ~worker[w].detached
    /\ Tell({InHand(w)}, [e \in {InHand(w)} |-> worker[w].outcome])
    /\ EndDispatch(w)
    /\ UNCHANGED <<provider, dropped, others>>

DetachedEnds(w) ==
    /\ worker[w].pc \in {"updated", "persist"} /\ worker[w].detached
    /\ Halt(w)
    /\ UNCHANGED <<provider, told, others>>

\* _record_persistence_failure: the record as it is now is published, unless it
\* is still running and can be marked as failed; without a record the worker
\* raises QueuePersistenceError.
PersistInspects(w) ==
    /\ At(w, "persist") /\ ~worker[w].detached
    /\ IF InHand(w) \notin DOMAIN entries THEN Halt(w) /\ UNCHANGED told
       ELSE IF entries[InHand(w)] = "running"
       THEN Goto(w, "persist_find") /\ UNCHANGED <<told, dropped>>
       ELSE Tell({InHand(w)}, entries) /\ EndDispatch(w) /\ UNCHANGED dropped
    /\ UNCHANGED <<provider, others>>

PersistFind(w) ==
    /\ At(w, "persist_find")
    /\ IF MayBecome(InHand(w), "failed")
       THEN /\ worker' = [worker EXCEPT ![w].pc = "persist_store", ![w].outcome = "failed"]
            /\ UNCHANGED dropped
       ELSE Halt(w)
    /\ UNCHANGED <<provider, told, others>>

PersistStore(w) ==
    /\ At(w, "persist_store")
    /\ Astore(InHand(w), "failed")
    /\ Tell({InHand(w)}, entries')
    /\ EndDispatch(w)
    /\ UNCHANGED <<dropped, others>>

Step(w) ==
    \/ PublishNew(w) \/ FindsExpired(w) \/ PruneFind(w) \/ PruneDelete(w)
    \/ NextPromotes(w) \/ NextPops(w) \/ Wakes(w) \/ MarkFind(w) \/ MarkStore(w)
    \/ HandlerEnds(w) \/ UpdateFind(w) \/ UpdateStore(w) \/ PublishTerminal(w) \/ DetachedEnds(w)
    \/ PersistInspects(w) \/ PersistFind(w) \/ PersistStore(w)

\* The worker's task is cancelled: asleep it stops, waiting for its handler it
\* starts the grace period, in the grace period it lets go, and waiting for the
\* update it leaves the shielded task behind.
Cancel(w) ==
    /\ cancels < MaxCancels
    /\ worker[w].pc \in Suspended /\ ~worker[w].detached
    /\ cancels' = cancels + 1
    /\ CASE At(w, "handler") ->
              /\ worker' = [worker EXCEPT ![w].pc = "grace", ![w].closing = TRUE]
              /\ UNCHANGED dropped
         [] worker[w].pc \in {"idle", "grace"} -> Halt(w)
         [] OTHER ->
              worker' = [worker EXCEPT ![w].detached = TRUE] /\ UNCHANGED dropped
    /\ UNCHANGED <<provider, now, client, told, issued, dequeued, late>>

Tick ==
    /\ now < MaxTime
    /\ now' = now + 1
    /\ UNCHANGED <<provider, actors, history>>

-------------------------------------------------------------------------------
Init ==
    /\ kind \in Kinds
    /\ entries = <<>> /\ pending = <<>> /\ scheduled = <<>> /\ now = 0
    /\ client = [c \in Clients |-> Free]
    /\ worker = [w \in Workers |-> Rest("scan", 0)]
    /\ cancels = 0
    /\ told = [e \in Entries |-> {}] /\ issued = {} /\ dequeued = {}
    /\ late = {} /\ dropped = {}

Next ==
    /\ \/ \E c \in Clients :
             \/ ClientGoesOn(c) \/ DequeuePromotes(c)
             \/ \E e \in Entries : Enqueue(c, e) \/ PruneChecks(c, e) \/ FailFinds(c, e)
       \/ \E w \in Workers : Step(w) \/ HandlerCancelsItself(w) \/ Cancel(w)
       \/ Tick
    /\ UNCHANGED kind

Spec == Init /\ [][Next]_vars

\* Every thread goes on with the call it is in, the event loop runs every ready
\* task, handlers end (the budget sees to that), and time passes.
Fairness ==
    /\ \A c \in Clients : WF_vars(ClientGoesOn(c) /\ UNCHANGED kind)
    /\ \A w \in Workers : WF_vars(Step(w) /\ UNCHANGED kind)
    /\ WF_vars(Tick /\ UNCHANGED kind)

FairSpec == Spec /\ Fairness

-------------------------------------------------------------------------------
Enqueueing(c) == client[c].at \in {"stored", "schedule", "push"}

\* The places an entry can be in, with how often it is there.
Homes(e) ==
    {<<"client", c>> : c \in {d \in Clients : client[d].entry = e /\ Enqueueing(d)}}
    \cup {<<"pending", i>> : i \in {j \in DOMAIN pending : pending[j] = e}}
    \cup {<<"scheduled", i>> : i \in {j \in DOMAIN scheduled : scheduled[j].id = e}}
    \cup {<<"worker", w>> : w \in {v \in Workers : InHand(v) = e /\ ~At(v, "prune_delete")}}
    \cup {<<"consumer", x>> : x \in {e} \cap dequeued}

TypeOK ==
    /\ entries \in [DOMAIN entries -> Lifecycle!Stored]
    /\ worker \in [Workers -> [pc : Places, entry : Entries \cup {NoEntry},
                               outcome : Terminal \cup {"none"}, doomed : SUBSET Entries,
                               closing : BOOLEAN, detached : BOOLEAN, cursor : Nat]]

\* An in-process queue delivers at most once and loses nothing while it runs: an
\* entry is never in two places (two pending slots, a slot and a schedule, two
\* workers' hands), and an unfinished one is in one of them unless the worker that
\* had it was made to let go (a second cancellation, a handler that cancels itself).
InOnePlace ==
    /\ TypeOK
    /\ \A e \in Entries : \A x, y \in Homes(e) : x = y
    /\ \A e \in DOMAIN entries :
          entries[e] \in {"queued", "running"} => Homes(e) # {} \/ e \in dropped

\* Although _areplace_entry reads, checks and stores in separate calls, an entry
\* that only workers move follows the status machine of entries.py.
LifecycleSpec == Lifecycle!Spec

\* A worker publishes an entry as queued before it publishes it as running
\* (openspec/specs/async-queue-workers), whether a scan or the dispatch does it.
\* The exception is an entry stored when a scan had already passed its ID.
QueuedIsPublished ==
    \A e \in Entries \ ByHand : "running" \in told[e] => "queued" \in told[e] \/ e \in late

\* Every entry is finished in the end, or handed to a direct consumer, as long as
\* a worker runs and none was made to let go of it.  A cancelled worker stops: after
\* its handler's grace period, and without taking up another entry.
EveryEntryServed ==
    /\ \A e \in Entries : e \in issued ~>
          \/ e \notin DOMAIN entries \/ entries[e] \in Terminal
          \/ e \in dequeued \cup dropped
          \/ \A w \in Workers : At(w, "stopped")
    /\ \A w \in Workers : worker[w].closing \/ worker[w].detached ~> At(w, "stopped")

\* Observers learn of every outcome, unless the worker's task was cancelled while
\* the shielded update was under way; and before it, that it was queued.
EveryOutcomeIsPublished ==
    /\ []QueuedIsPublished
    /\ \A e \in Entries \ ByHand :
          e \in DOMAIN entries /\ entries[e] \in Terminal
              ~> told[e] \cap Terminal # {} \/ e \in dropped

===============================================================================
