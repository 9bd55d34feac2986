--------------------------- MODULE RedisEventWorker ---------------------------
(***************************************************************************)
(* RedisEventQueueWorker (event_worker.py, backends/redis/worker.py) at    *)
(* work on the store of RedisEvents.  A step of a worker runs from one     *)
(* await to the next and makes at most one call of Redis.  Listeners are   *)
(* visited in rotation, with a renewal task beside them.  A call may       *)
(* raise: QueueRuntime then makes a new worker object with the same        *)
(* identity.  A worker may be cancelled at any await, and may die.         *)
(***************************************************************************)
EXTENDS RedisEvents

CONSTANTS
    NumListeners,       \* len(listeners_for(alias))
    Verdicts,           \* what each listener may do with an event
    Lease,              \* default_claim_lease_seconds
    ReleaseDelay,       \* release_delay
    MaxFaults           \* bound: raising calls, cancellations and deaths

Listeners == 0 .. NumListeners - 1

ASSUME EventWorkerConstantsOK ==
    /\ NumListeners \in Nat \ {0}
    /\ Verdicts \in [Listeners -> SUBSET {"skip", "pass", "accept", "reject", "raise"}]
    /\ Lease \in Leases /\ ReleaseDelay \in Delays
    /\ MaxFaults \in Nat

VARIABLES
    ew,             \* each worker's place in its code and its local variables
    accepted,       \* history: how often a listener took each event
    lapsed,         \* history: the events that recovery took from a worker
    faults          \* faults that have happened

ewvars == <<ew, accepted, lapsed, faults>>
allvars == <<vars, ewvars>>
History == <<accepted, lapsed, faults>>

\* The awaits of _next and of _dispatch, named for what is awaited.
NextAwaits == {"expire_due", "expire", "recover", "claim", "find", "drop", "renew"}
DispatchAwaits == {"listen", "release", "remove"}
Awaits == NextAwaits \cup DispatchAwaits \cup {"release_cancelled", "stop_renewal"}

\* Between two events: nothing in hand.
AtRest(where, cursor) ==
    [pc |-> where, event |-> NoEvent, due |-> {}, cursor |-> cursor, to_visit |-> 0,
     renewal |-> "off", closing |-> FALSE, lease_until |-> 0]

At(w, where) == ew[w].pc = where
InHand(w) == ew[w].event
Goto(w, where) == ew' = [ew EXCEPT ![w].pc = where]

\* adispatch_once returns and run goes round.
Again(w) == ew' = [ew EXCEPT ![w] = AtRest("expire_due", @.cursor)]

-------------------------------------------------------------------------------
\* _next: aexpire_due reads the IDs that are due, then expires one after the
\* other, each only if that is still right.
ExpireDue(w) ==
    /\ At(w, "expire_due")
    /\ ew' = [ew EXCEPT ![w].pc = IF Due(unclaimed) = {} THEN "recover" ELSE "expire",
                        ![w].due = Due(unclaimed)]
    /\ UNCHANGED <<vars, History>>

ExpireOne(w) ==
    /\ At(w, "expire")
    /\ \E e \in ew[w].due :
          /\ \/ Expire(e)
             \/ ~(e \in Due(unclaimed) /\ e \in stored /\ e \notin DOMAIN claims) /\ UNCHANGED vars
          /\ ew' = [ew EXCEPT ![w].due = @ \ {e},
                              ![w].pc = IF ew[w].due = {e} THEN "recover" ELSE "expire"]
    /\ UNCHANGED History

\* _recover_expired_claims: at most once per recovery_interval.
RecoverExpired(w) ==
    /\ At(w, "recover")
    /\ Recover
    /\ lapsed' = lapsed \cup (DOMAIN claims \ DOMAIN claims')
    /\ Goto(w, "claim")
    /\ UNCHANGED <<accepted, faults>>

SkipRecovery(w) ==
    /\ At(w, "recover")
    /\ Goto(w, "claim")
    /\ UNCHANGED <<vars, History>>

\* Empty, conflict and expired all end this round.
ClaimNext(w) ==
    /\ At(w, "claim")
    /\ \E got \in Events \cup {NoEvent} :
          /\ Claim(w, Lease, got)
          /\ IF got = NoEvent
             THEN Again(w)
             ELSE ew' = [ew EXCEPT ![w].pc = "find", ![w].event = got, ![w].due = {},
                                   ![w].lease_until = now + Lease]
    /\ UNCHANGED <<accepted, lapsed, faults>>

\* The read of _aclaim: an event that was cleared meanwhile is dropped.
FindClaimed(w) ==
    /\ At(w, "find")
    /\ Goto(w, IF InHand(w) \in stored THEN "renew" ELSE "drop")
    /\ UNCHANGED <<vars, History>>

DropMissing(w) ==
    /\ At(w, "drop")
    /\ \/ Remove(w, InHand(w))
       \/ ~Owns(w, InHand(w)) /\ UNCHANGED vars
    /\ Again(w)
    /\ UNCHANGED History


\* _rotated: the cycle begins after the listener that was visited last.
Following(cursor) == (cursor + 1) % NumListeners

RenewBeforeDispatch(w) ==
    /\ At(w, "renew")
    /\ \/ /\ Renew(w, InHand(w), Lease)
          /\ ew' = [ew EXCEPT ![w].pc = "listen", ![w].renewal = "on",
                              ![w].cursor = Following(ew[w].cursor), ![w].to_visit = NumListeners - 1,
                              ![w].lease_until = now + Lease]
       \/ ~CanRenew(w, InHand(w)) /\ Again(w) /\ UNCHANGED vars
    /\ UNCHANGED History

-------------------------------------------------------------------------------
\* _renew_claim: runs until _dispatch cancels it; the first refusal ends it.
RenewClaim(w) ==
    /\ ew[w].renewal = "on"
    /\ \/ /\ Renew(w, InHand(w), Lease)
          /\ ew' = [ew EXCEPT ![w].lease_until = now + Lease]
       \/ /\ ~CanRenew(w, InHand(w))
          /\ ew' = [ew EXCEPT ![w].renewal = "lost"]
          /\ UNCHANGED vars
    /\ UNCHANGED History

\* The visit is over and the event was not taken: the next listener, or the
\* release that ends a cycle.
NextListener(w) ==
    IF ew[w].to_visit = 0 THEN Goto(w, "release")
    ELSE ew' = [ew EXCEPT ![w].cursor = (ew[w].cursor + 1) % NumListeners,
                          ![w].to_visit = ew[w].to_visit - 1]

\* One listener, its filter included, answers.  Only after an answer of the
\* listener itself does _dispatch look at the renewal task.
ListenerAnswers(w) ==
    /\ At(w, "listen")
    /\ \E verdict \in Verdicts[ew[w].cursor] :
          /\ \/ verdict = "raise" /\ Goto(w, "release")
             \/ verdict = "skip" /\ NextListener(w)
             \/ /\ verdict \in {"pass", "accept", "reject"} /\ ew[w].renewal = "lost"
                /\ Goto(w, "stop_renewal")
             \/ verdict = "pass" /\ ew[w].renewal = "on" /\ NextListener(w)
             \/ /\ verdict \in {"accept", "reject"} /\ ew[w].renewal = "on"
                /\ Goto(w, "remove")
          /\ accepted' = IF verdict \in {"accept", "reject"}
                         THEN [accepted EXCEPT ![InHand(w)] = @ + 1] ELSE accepted
    /\ UNCHANGED <<vars, lapsed, faults>>

\* _release and _remove; a claim that is not the worker's is left alone.
\* Mutant of RemoveCall: what a listener took is given back.
RemoveCallReleases(w) ==
    /\ At(w, "remove")
    /\ \/ Release(w, InHand(w), ReleaseDelay)
       \/ ~Owns(w, InHand(w)) /\ UNCHANGED vars
    /\ ew' = [ew EXCEPT ![w].pc = "stop_renewal", ![w].lease_until = 0]
    /\ UNCHANGED History

RemoveCall(w) ==
    /\ At(w, "remove")
    /\ \/ Remove(w, InHand(w))
       \/ ~Owns(w, InHand(w)) /\ UNCHANGED vars
    /\ ew' = [ew EXCEPT ![w].pc = "stop_renewal", ![w].lease_until = 0]
    /\ UNCHANGED History

ReleaseCall(w) ==
    /\ At(w, "release") \/ At(w, "release_cancelled")
    /\ \/ Release(w, InHand(w), ReleaseDelay)
       \/ ~Owns(w, InHand(w)) /\ UNCHANGED vars
    /\ ew' = [ew EXCEPT ![w].pc = "stop_renewal", ![w].lease_until = 0]
    /\ UNCHANGED History

\* The finally clause of _dispatch cancels the renewal task and awaits it; then
\* the worker goes on, or lets the cancellation out.
\* Mutant of EndDispatch: the finally clause always suppresses the cancellation.
EndDispatchGoesOn(w) == At(w, "stop_renewal") /\ Again(w) /\ UNCHANGED <<vars, History>>

EndDispatch(w) ==
    /\ At(w, "stop_renewal")
    /\ IF ew[w].closing
       THEN ew' = [ew EXCEPT ![w] = AtRest("stopped", @.cursor)]
       ELSE Again(w)
    /\ UNCHANGED <<vars, History>>

Step(w) ==
    \/ ExpireDue(w) \/ ExpireOne(w) \/ RecoverExpired(w) \/ SkipRecovery(w) \/ ClaimNext(w)
    \/ FindClaimed(w) \/ DropMissing(w) \/ RenewBeforeDispatch(w)
    \/ ListenerAnswers(w) \/ RemoveCall(w) \/ ReleaseCall(w) \/ EndDispatch(w)

-------------------------------------------------------------------------------
\* Faults.  They stop early enough for the leases they leave behind to run out.
Fault ==
    /\ faults < MaxFaults
    /\ faults' = faults + 1
    /\ now + Lease <= MaxTime

\* A call raises out of run; QueueRuntime makes a new worker object, which has
\* the same identity and a fresh cursor.
Raise(w) ==
    /\ Fault
    /\ ew[w].pc \in Awaits \ {"listen", "stop_renewal"}
    /\ ew' = [ew EXCEPT ![w] = AtRest("expire_due", NumListeners - 1)]
    /\ UNCHANGED <<vars, accepted, lapsed>>

\* A renewal raises: _renew_claim takes that for a lost claim.
RenewalRaises(w) ==
    /\ Fault
    /\ ew[w].renewal = "on"
    /\ ew' = [ew EXCEPT ![w].renewal = "lost"]
    /\ UNCHANGED <<vars, accepted, lapsed>>

\* The task is cancelled: _next is left at once, _dispatch first releases the
\* event, and its finally clause suppresses the CancelledError while it awaits
\* the renewal task.
Cancel(w) ==
    /\ Fault
    /\ ew[w].pc \in Awaits
    /\ At(w, "stop_renewal") => ew[w].renewal = "on"
    /\ ew' = [ew EXCEPT ![w] =
          CASE @.pc \in DispatchAwaits ->
                 [@ EXCEPT !.pc = "release_cancelled", !.closing = TRUE]
            [] @.pc = "stop_renewal" -> @
            [] OTHER -> AtRest("stopped", @.cursor)]
    /\ UNCHANGED <<vars, accepted, lapsed>>

Die(w) ==
    /\ Fault
    /\ ew[w].pc \in Awaits
    /\ ew' = [ew EXCEPT ![w] = AtRest("stopped", @.cursor)]
    /\ UNCHANGED <<vars, accepted, lapsed>>

-------------------------------------------------------------------------------
EWInit ==
    /\ Init
    /\ ew = [w \in Workers |-> AtRest("expire_due", NumListeners - 1)]
    /\ accepted = [e \in Events |-> 0]
    /\ lapsed = {} /\ faults = 0

\* EventQueue.aenqueue, adequeue and aclear, called from anywhere.
Enqueue(e, life) == StoreEventAndPush(e, life) /\ UNCHANGED ewvars
AclearOne(e) == e \in stored /\ Delete(e) /\ UNCHANGED ewvars
Adequeue(got) == DequeueEvent(got) /\ UNCHANGED ewvars
PassTime == Tick /\ UNCHANGED ewvars

EWNext ==
    \/ \E w \in Workers : Step(w) \/ RenewClaim(w) \/ Raise(w) \/ RenewalRaises(w) \/ Cancel(w) \/ Die(w)
    \/ \E e \in Events, life \in Lifetimes : Enqueue(e, life)
    \/ \E e \in Events : AclearOne(e)
    \/ \E got \in Events \cup {NoEvent} : Adequeue(got)
    \/ PassTime

EWSpec == EWInit /\ [][EWNext]_allvars

\* The event loop runs every ready task, time passes, and a worker that keeps
\* polling recovers expired claims once a second.
EWFairness ==
    /\ \A w \in Workers : WF_allvars(Step(w)) /\ SF_allvars(RecoverExpired(w))
    /\ WF_allvars(PassTime)

EWFairSpec == EWSpec /\ EWFairness

-------------------------------------------------------------------------------
\* Every local variable of a worker has one of its values.
EWTypeOK ==
    /\ ew \in [Workers -> [pc : Awaits \cup {"stopped"}, event : Events \cup {NoEvent},
                           due : SUBSET Events, cursor : Listeners, to_visit : Listeners,
                           renewal : {"off", "on", "lost"},
                           closing : BOOLEAN, lease_until : Nat]]
    /\ accepted \in [Events -> Nat]
    /\ lapsed \subseteq Events /\ faults \in 0 .. MaxFaults

\* While the lease it knows of runs, the event in a worker's hands is its own or
\* was cleared: no second worker offers it to listeners.
EventLeaseMeansOwnership ==
    /\ EWTypeOK
    /\ \A w \in Workers :
           ew[w].lease_until > now => Owns(w, InHand(w)) \/ InHand(w) \notin stored

\* Without a fault and without a lapsed lease an event is taken by one listener
\* once, however workers, expiry, clears and direct consumers interleave.
TakenOnce ==
    \A e \in Events : accepted[e] > 1 => e \in lapsed \/ faults > 0


===============================================================================
