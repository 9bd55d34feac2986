------------------------------ MODULE RedisWorker ------------------------------
(***************************************************************************)
(* RedisAsyncQueueWorker (backends/redis/worker.py on top of worker.py) at *)
(* work on the store of RedisClaims.  A step of a worker runs from one     *)
(* await to the next, so it makes at most one call of Redis; what it       *)
(* learned before an await it may act on after others have moved.  Each    *)
(* worker has a renewal task beside it while its handler runs.  Any call   *)
(* may fail with the command carried out or not, a worker may be cancelled *)
(* at any await and may die anywhere; its claims then wait for recovery.   *)
(***************************************************************************)
EXTENDS RedisClaims

CONSTANTS
    DefaultLease,       \* default_claim_lease_seconds: the lease of the claim call
    Lease,              \* budget_for(...) + cancellation_grace_period
    MaxFaults,          \* bound: failing calls, cancellations and deaths
    MaxLost             \* bound: records removed from outside

ASSUME WorkerConstantsOK ==
    /\ {DefaultLease, Lease} \subseteq Leases
    /\ 0 \in Delays
    /\ MaxFaults \in Nat /\ MaxLost \in Nat

VARIABLES
    worker,         \* each worker's place in its code and its local variables
    attempt,        \* history: how often an entry was marked running
    published,      \* history: entries whose terminal snapshot was published
    faults,         \* faults that have happened
    deaf            \* history: workers that suppressed their cancellation

wvars == <<worker, attempt, published, faults, deaf>>
allvars == <<vars, wvars>>

\* The await a worker is at; named for the call it is about to make.
Awaits == {"recover", "claim", "find", "renew", "mark_find", "mark", "release", "ack",
           "handler", "grace", "stop_renewal", "settle_find", "settle", "publish",
           "persist_find", "persist"}

\* Between two dispatches: nothing in hand.
AtRest(where, cancelled) ==
    [pc |-> where, entry |-> NoEntry, outcome |-> "none", renewal |-> "off",
     closing |-> FALSE, cancelled |-> cancelled, mine |-> 0, lease_until |-> 0]

At(w, where) == worker[w].pc = where
InHand(w) == worker[w].entry
Goto(w, where) == worker' = [worker EXCEPT ![w].pc = where]

\* Mutant of EndDispatch: the worker forgets that it is shutting down.
EndDispatchGoesOn(w) ==
    worker' = [worker EXCEPT ![w] = AtRest("recover", @.cancelled)]

\* _dispatch returns; after _finish_cancellation the cancellation goes on.
EndDispatch(w) ==
    worker' = [worker EXCEPT ![w] =
        AtRest(IF @.closing THEN "stopped" ELSE "recover", @.cancelled)]
Stop(w) == worker' = [worker EXCEPT ![w] = AtRest("stopped", @.cancelled)]

-------------------------------------------------------------------------------
\* _next: expired claims are recovered at most once per second, then one entry
\* is claimed, read and put under the lease of its budget.
NextRecover(w) ==
    /\ At(w, "recover")
    /\ Recover
    /\ Goto(w, "claim")
    /\ UNCHANGED <<attempt, published, faults, deaf>>

NextSkipRecovery(w) ==
    /\ At(w, "recover")
    /\ Goto(w, "claim")
    /\ UNCHANGED <<vars, attempt, published, faults, deaf>>

NextClaim(w) ==
    /\ At(w, "claim")
    /\ \E got \in Entries \cup {NoEntry} :
          /\ Claim(w, DefaultLease, got)
          /\ worker' = [worker EXCEPT ![w].pc = IF got = NoEntry THEN "recover" ELSE "find",
                                      ![w].entry = got,
                                      ![w].lease_until = IF got = NoEntry THEN 0 ELSE now + DefaultLease]
    /\ UNCHANGED <<attempt, published, faults, deaf>>

\* The read of QueueProviderRedis._aclaim, of _mark_running and of
\* _settle_terminal: a missing record sends the worker to _discard_missing.
Find(w, where, found) ==
    /\ At(w, where)
    /\ Goto(w, IF InHand(w) \in DOMAIN record THEN found ELSE "ack")
    /\ UNCHANGED <<vars, attempt, published, faults, deaf>>

NextFind(w) == Find(w, "find", "renew")

NextRenew(w) ==
    /\ At(w, "renew")
    /\ \/ /\ Renew(w, InHand(w), Lease)
          /\ worker' = [worker EXCEPT ![w].pc = "mark_find", ![w].lease_until = now + Lease]
       \/ /\ ~CanRenew(w, InHand(w))
          /\ EndDispatch(w)
          /\ UNCHANGED vars
    /\ UNCHANGED <<attempt, published, faults, deaf>>

\* _mark_running: on a refusal the claim is given back.
MarkRunningFind(w) == Find(w, "mark_find", "mark")

MarkRunningCall(w) ==
    /\ At(w, "mark")
    /\ \/ /\ MarkRunning(w, InHand(w))
          /\ attempt' = [attempt EXCEPT ![InHand(w)] = @ + 1]
          /\ worker' = [worker EXCEPT ![w].pc = "handler", ![w].renewal = "on",
                                      ![w].mine = attempt'[InHand(w)]]
       \/ /\ ~(Owns(w, InHand(w)) /\ HasStatus(InHand(w), {"queued"}))
          /\ Goto(w, "release")
          /\ UNCHANGED <<vars, attempt>>
    /\ UNCHANGED <<published, faults, deaf>>

ReleaseCall(w) ==
    /\ At(w, "release")
    /\ \/ Release(w, InHand(w), 0)
       \/ ~Owns(w, InHand(w)) /\ UNCHANGED vars
    /\ EndDispatch(w)
    /\ UNCHANGED <<attempt, published, faults, deaf>>

\* _discard_missing: its own failure is only logged.
DiscardMissing(w) ==
    /\ At(w, "ack")
    /\ \/ Ack(w, InHand(w))
       \/ ~Owns(w, InHand(w)) /\ UNCHANGED vars
    /\ EndDispatch(w)
    /\ UNCHANGED <<attempt, published, faults, deaf>>

-------------------------------------------------------------------------------
\* _renew_claim: runs beside the handler until _dispatch stops it; the first
\* refusal ends it.
RenewClaim(w) ==
    /\ worker[w].renewal = "on"
    /\ \/ /\ Renew(w, InHand(w), Lease)
          /\ worker' = [worker EXCEPT ![w].lease_until = now + Lease]
       \/ /\ ~CanRenew(w, InHand(w))
          /\ worker' = [worker EXCEPT ![w].renewal = "failed"]
          /\ UNCHANGED vars
    /\ UNCHANGED <<attempt, published, faults, deaf>>

\* _dispatch waits for the handler, the renewal task and the budget.
HandlerReturns(w) ==
    /\ At(w, "handler")
    /\ worker[w].renewal = "on"
    /\ \E outcome \in {"succeeded", "failed"} :
          worker' = [worker EXCEPT ![w].pc = "stop_renewal", ![w].outcome = outcome]
    /\ UNCHANGED <<vars, attempt, published, faults, deaf>>

BudgetExpires(w) ==
    /\ At(w, "handler")
    /\ worker' = [worker EXCEPT ![w].pc = "stop_renewal", ![w].outcome = "timeout"]
    /\ UNCHANGED <<vars, attempt, published, faults, deaf>>

\* Mutant of RenewalLost: the entry is given back although it is running.
RenewalLostReleases(w) ==
    /\ At(w, "handler")
    /\ worker[w].renewal = "failed"
    /\ Goto(w, "release")
    /\ UNCHANGED <<vars, attempt, published, faults, deaf>>

RenewalLost(w) ==
    /\ At(w, "handler")
    /\ worker[w].renewal = "failed"
    /\ EndDispatch(w)
    /\ UNCHANGED <<vars, attempt, published, faults, deaf>>

\* _stop_renewal_task: cancels the renewal task and awaits it.
StopRenewalTask(w) ==
    /\ At(w, "stop_renewal")
    /\ worker' = [worker EXCEPT ![w].pc = "settle_find", ![w].renewal = "off"]
    /\ UNCHANGED <<vars, attempt, published, faults, deaf>>

\* _finish_cancellation: the handler has its grace period; renewal goes on.
GraceEnds(w) ==
    /\ At(w, "grace")
    /\ \E outcome \in Outcomes :
          worker' = [worker EXCEPT ![w].pc = "settle_find", ![w].outcome = outcome]
    /\ UNCHANGED <<vars, attempt, published, faults, deaf>>

\* _settle_terminal: read, settle, publish; a lost claim is left alone.
SettleFind(w) == Find(w, "settle_find", "settle")

\* Mutant of SettleCall: the terminal snapshot is not published.
SettleCallQuiet(w) ==
    /\ At(w, "settle")
    /\ \/ Settle(w, InHand(w), worker[w].outcome)
       \/ ~(Owns(w, InHand(w)) /\ HasStatus(InHand(w), {"running"})) /\ UNCHANGED vars
    /\ EndDispatch(w)
    /\ UNCHANGED <<attempt, published, faults, deaf>>

SettleCall(w) ==
    /\ At(w, "settle")
    /\ \/ Settle(w, InHand(w), worker[w].outcome) /\ Goto(w, "publish")
       \/ /\ ~(Owns(w, InHand(w)) /\ HasStatus(InHand(w), {"running"}))
          /\ EndDispatch(w)
          /\ UNCHANGED vars
    /\ UNCHANGED <<attempt, published, faults, deaf>>

Publish(w) ==
    /\ At(w, "publish")
    /\ published' = published \cup {InHand(w)}
    /\ EndDispatch(w)
    /\ UNCHANGED <<vars, attempt, faults, deaf>>

\* _record_claim_persistence_failure: after a failed settlement the record is
\* read again; still running, it is settled as failed; otherwise it is left.  If
\* neither can be confirmed the worker raises QueuePersistenceError and stops.
PersistFind(w) ==
    /\ At(w, "persist_find")
    /\ IF HasStatus(InHand(w), {"running"}) THEN Goto(w, "persist")
       ELSE IF InHand(w) \in DOMAIN record THEN EndDispatch(w) ELSE Stop(w)
    /\ UNCHANGED <<vars, attempt, published, faults, deaf>>

PersistCall(w) ==
    /\ At(w, "persist")
    /\ \/ Settle(w, InHand(w), "failed") /\ Goto(w, "publish")
       \/ /\ ~(Owns(w, InHand(w)) /\ HasStatus(InHand(w), {"running"}))
          /\ Stop(w)
          /\ UNCHANGED vars
    /\ UNCHANGED <<attempt, published, faults, deaf>>

Step(w) ==
    \/ NextRecover(w) \/ NextSkipRecovery(w) \/ NextClaim(w) \/ NextFind(w) \/ NextRenew(w)
    \/ MarkRunningFind(w) \/ MarkRunningCall(w) \/ ReleaseCall(w) \/ DiscardMissing(w)
    \/ HandlerReturns(w) \/ BudgetExpires(w) \/ RenewalLost(w) \/ StopRenewalTask(w)
    \/ GraceEnds(w) \/ SettleFind(w) \/ SettleCall(w) \/ Publish(w)
    \/ PersistFind(w) \/ PersistCall(w)

-------------------------------------------------------------------------------
\* Faults.  They stop early enough for the leases they leave behind to run out.
Fault ==
    /\ faults < MaxFaults
    /\ faults' = faults + 1
    /\ \A lease \in Leases : now + lease <= MaxTime

\* A call of _settle_terminal raises, with the settlement carried out or not.
SettleRaises(w) ==
    /\ Fault
    /\ At(w, "settle_find") \/ At(w, "settle")
    /\ Goto(w, "persist_find")
    /\ \/ UNCHANGED vars
       \/ At(w, "settle") /\ Settle(w, InHand(w), worker[w].outcome)
    /\ UNCHANGED <<attempt, published, deaf>>

\* The renewal call raises: _renew_claim reports the claim as lost.
RenewalRaises(w) ==
    /\ Fault
    /\ worker[w].renewal = "on"
    /\ worker' = [worker EXCEPT ![w].renewal = "failed"]
    /\ UNCHANGED <<vars, attempt, published, deaf>>

AckRaises(w) ==
    /\ Fault
    /\ At(w, "ack")
    /\ EndDispatch(w)
    /\ UNCHANGED <<vars, attempt, published, deaf>>

\* The worker's task is cancelled.  Waiting for its handler it starts the grace
\* period; awaiting the stopped renewal task it suppresses the CancelledError
\* and goes on; everywhere else the cancellation ends the worker.
Cancel(w) ==
    /\ Fault
    /\ worker[w].pc \in Awaits
    /\ worker' = [worker EXCEPT ![w] =
          CASE @.pc = "handler"      -> [@ EXCEPT !.pc = "grace", !.closing = TRUE, !.cancelled = TRUE]
            [] @.pc = "stop_renewal" -> [@ EXCEPT !.cancelled = TRUE]
            [] OTHER                 -> AtRest("stopped", TRUE)]
    /\ deaf' = deaf \cup {x \in {w} : At(x, "stop_renewal")}
    /\ UNCHANGED <<vars, attempt, published>>

\* The process dies, or a call outside _settle_terminal raises out of run, or
\* the handler itself raises CancelledError.
Die(w) ==
    /\ Fault
    /\ worker[w].pc \in Awaits
    /\ Stop(w)
    /\ UNCHANGED <<vars, attempt, published, deaf>>

-------------------------------------------------------------------------------
WInit ==
    /\ Init
    /\ worker = [w \in Workers |-> AtRest("recover", FALSE)]
    /\ attempt = [e \in Entries |-> 0]
    /\ published = {} /\ faults = 0 /\ deaf = {}

Environment ==
    /\ \/ \E e \in Entries : StoreAndPush(e)
       \/ \E e \in Entries : Prune(e)
       \/ \E e \in Entries : Cardinality(lost) < MaxLost /\ RemoveRecord(e)
       \/ Tick
    /\ UNCHANGED wvars

WNext ==
    \/ \E w \in Workers :
          \/ Step(w) \/ RenewClaim(w)
          \/ SettleRaises(w) \/ RenewalRaises(w) \/ AckRaises(w) \/ Cancel(w) \/ Die(w)
    \/ Environment

WSpec == WInit /\ [][WNext]_allvars

\* The event loop runs every ready task, time passes, and a worker that keeps
\* polling runs recovery once a second.
Fairness ==
    /\ \A w \in Workers : WF_allvars(Step(w)) /\ SF_allvars(NextRecover(w))
    /\ WF_allvars(Tick /\ UNCHANGED wvars)

FairSpec == WSpec /\ Fairness

-------------------------------------------------------------------------------
\* Every local variable of a worker has one of its values.
WTypeOK ==
    /\ worker \in [Workers -> [pc : Awaits \cup {"stopped"}, entry : Entries \cup {NoEntry},
                               outcome : Outcomes \cup {"none"}, renewal : {"off", "on", "failed"},
                               closing : BOOLEAN, cancelled : BOOLEAN, mine : Nat, lease_until : Nat]]
    /\ attempt \in [Entries -> Nat]
    /\ published \subseteq Entries
    /\ faults \in 0 .. MaxFaults /\ deaf \subseteq Workers

\* Workers keep to the protocol that the store relies on: whatever they learned
\* before an await, a release never gives back a running entry and an ack never
\* drops the claim of an entry that still has its record.
StoreSpec == Spec

\* A worker whose lease has not run out is the owner of the entry in its hands,
\* however late it looks: two workers handle one entry at the same time only
\* after the lease of one of them has run out.
LeaseMeansOwnership ==
    /\ WTypeOK
    /\ \A w \in Workers :
           worker[w].lease_until > now /\ worker[w].pc \notin {"publish", "persist_find", "persist"}
               => Owns(w, InHand(w))

\* The outcome that is recorded belongs to the latest execution of the entry: the
\* worker whose call settles it is the one that started it last.  A worker that was
\* overtaken (its lease expired, the entry was recovered and started again
\* elsewhere) never settles it, also while the other one still handles it.
Settling(w) == worker[w].pc \in {"settle", "persist"} /\ worker'[w] # worker[w]
LatestAttemptSettles ==
    \A e \in DOMAIN record \cap DOMAIN record' :
        record[e] = "running" /\ record'[e] \in Terminal
            => \E w \in Workers : Settling(w) /\ InHand(w) = e /\ worker[w].mine = attempt[e]
AlwaysLatestAttemptSettles == [][LatestAttemptSettles]_allvars

\* At-least-once delivery: with one worker left, every entry is finished in the
\* end, whatever crashes, lost leases and failing calls come first.
\* Observers learn of the terminal snapshot, unless a fault comes between the
\* settlement and its publication.
EveryEntryFinishes ==
    \A e \in Entries :
        /\ e \in issued ~> (e \notin DOMAIN record \/ record[e] \in Terminal)
        /\ HasStatus(e, Terminal) ~> (e \in published \/ faults > 0)

\* A cancelled worker takes up no other entry: it finishes what it has in hand
\* within the grace period and stops (openspec/specs/async-queue-workers).  The
\* exception is a cancellation that _stop_renewal_task suppresses.
CancelledTakesNoEntry ==
    [][\A w \in Workers :
          worker[w].cancelled /\ w \notin deaf /\ InHand(w) = NoEntry
          => worker'[w].entry = NoEntry]_allvars

===============================================================================
