--------------------------- MODULE MemoryEventWorker ---------------------------
(***************************************************************************)
(* MemoryEventQueueWorker (event_worker.py, backends/memory/worker.py) at  *)
(* work on the store of MemoryEvents, beside other users of the provider.  *)
(* Its claims have no lease, so nobody recovers them: what a worker has    *)
(* claimed it must remove or release itself, whatever its listeners do and *)
(* whenever its task is cancelled.  The provider never yields to the event *)
(* loop, so a cancellation arrives at a listener or in the idle sleep;     *)
(* other threads come between any two calls of the provider.               *)
(***************************************************************************)
EXTENDS MemoryEvents

CONSTANTS
    EventWorkers,       \* the identities that a MemoryEventQueueWorker runs under
    NumListeners,       \* len(listeners_for(alias))
    Verdicts,           \* what each listener may do with an event
    ReleaseDelay,       \* release_delay
    MaxCancels          \* bound: cancellations of workers

Listeners == 0 .. NumListeners - 1

ASSUME MemoryWorkerConstantsOK ==
    /\ EventWorkers \subseteq Workers
    /\ NumListeners \in Nat \ {0}
    /\ Verdicts \in [Listeners -> SUBSET {"pass", "take", "raise"}]
    /\ ReleaseDelay \in Delays
    /\ MaxCancels \in Nat

VARIABLES
    ew,             \* each worker's place in its code and its local variables
    taken,          \* history: how often a listener took each event
    cancels         \* cancellations so far

ewvars == <<ew, taken, cancels>>
allvars == <<vars, ewvars>>

Places == {"expire", "claim", "listen", "release", "remove", "idle", "stopped"}

\* Between two events: nothing in hand.
AtRest(where, cursor) ==
    [pc |-> where, event |-> NoEvent, cursor |-> cursor, to_visit |-> 0, closing |-> FALSE]

At(w, where) == ew[w].pc = where
InHand(w) == ew[w].event
Goto(w, where) == ew' = [ew EXCEPT ![w].pc = where]

-------------------------------------------------------------------------------
\* _next: expiry, then a claim without a lease.
ExpireDue(w, t) ==
    /\ At(w, "expire")
    /\ AexpireDue(t)
    /\ Goto(w, "claim")
    /\ UNCHANGED <<lag, taken, cancels>>

\* Nothing to claim, a conflict, a missing record and an expired event all end
\* the round; otherwise the cycle begins after the listener visited last.
ClaimNext(w, t) ==
    /\ At(w, "claim")
    /\ \E got \in Events \cup {NoEvent} :
          /\ Aclaim(w, NoLease, got, t)
          /\ ew' = [ew EXCEPT ![w] =
                IF got = NoEvent THEN AtRest("idle", @.cursor)
                ELSE [@ EXCEPT !.pc = "listen", !.event = got, !.to_visit = NumListeners - 1,
                               !.cursor = (ew[w].cursor + 1) % NumListeners]]
    /\ \A e \in DOMAIN unclaimed_remaining' : unclaimed_remaining'[e] <= MaxLeft
    /\ UNCHANGED <<lag, taken, cancels>>

\* Mutant of ListenerAnswers: after a listener that raises the worker goes round.
ListenerAbandons(w) ==
    /\ At(w, "listen")
    /\ \E verdict \in Verdicts[ew[w].cursor] :
          /\ \/ verdict = "raise" /\ ew' = [ew EXCEPT ![w] = AtRest("expire", @.cursor)]
             \/ verdict = "take" /\ Goto(w, "remove")
             \/ verdict = "pass" /\ ew[w].to_visit = 0 /\ Goto(w, "release")
             \/ /\ verdict = "pass" /\ ew[w].to_visit > 0
                /\ ew' = [ew EXCEPT ![w].cursor = (ew[w].cursor + 1) % NumListeners,
                                    ![w].to_visit = ew[w].to_visit - 1]
          /\ taken' = IF verdict = "take" THEN [taken EXCEPT ![InHand(w)] = @ + 1] ELSE taken
    /\ UNCHANGED <<vars, cancels>>

\* One listener, its filter included, answers.
ListenerAnswers(w) ==
    /\ At(w, "listen")
    /\ \E verdict \in Verdicts[ew[w].cursor] :
          /\ \/ verdict = "raise" /\ Goto(w, "release")
             \/ verdict = "take" /\ Goto(w, "remove")
             \/ verdict = "pass" /\ ew[w].to_visit = 0 /\ Goto(w, "release")
             \/ /\ verdict = "pass" /\ ew[w].to_visit > 0
                /\ ew' = [ew EXCEPT ![w].cursor = (ew[w].cursor + 1) % NumListeners,
                                    ![w].to_visit = ew[w].to_visit - 1]
          /\ taken' = IF verdict = "take" THEN [taken EXCEPT ![InHand(w)] = @ + 1] ELSE taken
    /\ UNCHANGED <<vars, cancels>>

\* _dispatch is over: run goes round, or the cancellation goes on.
EndDispatch(w) ==
    ew' = [ew EXCEPT ![w] = AtRest(IF @.closing THEN "stopped" ELSE "expire", @.cursor)]

\* _release and _remove; a claim that is no longer the worker's is left alone.
ReleaseCall(w, t) ==
    /\ At(w, "release")
    /\ \/ Arelease(w, InHand(w), ReleaseDelay, t)
       \/ ~Owns(w, InHand(w)) /\ UNCHANGED <<tables, pending, now, storing, issued, ended>>
    /\ EndDispatch(w)
    /\ UNCHANGED <<lag, taken, cancels>>

RemoveCall(w) ==
    /\ At(w, "remove")
    /\ \/ Aremove(w, InHand(w))
       \/ ~Owns(w, InHand(w)) /\ UNCHANGED <<tables, pending, now, storing, issued, ended>>
    /\ EndDispatch(w)
    /\ UNCHANGED <<lag, taken, cancels>>

Wakes(w) ==
    /\ At(w, "idle")
    /\ Goto(w, "expire")
    /\ UNCHANGED <<vars, taken, cancels>>

Step(w) ==
    \/ \E t \in Readings : ExpireDue(w, t) \/ ClaimNext(w, t) \/ ReleaseCall(w, t)
    \/ ListenerAnswers(w) \/ RemoveCall(w) \/ Wakes(w)

\* Mutant of Cancel: the task ends at once.
CancelForgets(w) ==
    /\ cancels < MaxCancels
    /\ cancels' = cancels + 1
    /\ ew[w].pc \in {"idle", "listen"}
    /\ ew' = [ew EXCEPT ![w] = AtRest("stopped", @.cursor)]
    /\ UNCHANGED <<vars, taken>>

\* The task is cancelled: in its sleep it ends, at a listener it first releases
\* the event.
Cancel(w) ==
    /\ cancels < MaxCancels
    /\ cancels' = cancels + 1
    /\ \/ At(w, "idle") /\ ew' = [ew EXCEPT ![w] = AtRest("stopped", @.cursor)]
       \/ At(w, "listen") /\ ew' = [ew EXCEPT ![w].pc = "release", ![w].closing = TRUE]
    /\ UNCHANGED <<vars, taken>>

\* QueueRuntime starts a new worker object under the same identity.
Restart(w) ==
    /\ At(w, "stopped")
    /\ ew' = [ew EXCEPT ![w] = AtRest("expire", NumListeners - 1)]
    /\ UNCHANGED <<vars, taken, cancels>>

-------------------------------------------------------------------------------
EWInit ==
    /\ Init
    /\ ew = [w \in EventWorkers |-> AtRest("expire", NumListeners - 1)]
    /\ taken = [e \in Events |-> 0]
    /\ cancels = 0

\* Threads that use the queue, and other users of the provider's claims, with a
\* lease or without.
OtherCall ==
    /\ \E t \in Readings : ThreadCall(t) \/ \E w \in Workers \ EventWorkers : WorkerCall(w, t)
    /\ UNCHANGED <<lag, ewvars>>

PushCall(e) == Apush(e) /\ UNCHANGED <<lag, ewvars>>
PassTime == Tick /\ UNCHANGED <<lag, ewvars>>

EWNext ==
    \/ \E w \in EventWorkers : Step(w) \/ Cancel(w) \/ Restart(w)
    \/ OtherCall
    \/ PassTime

EWSpec == EWInit /\ [][EWNext]_allvars

\* The event loop runs every ready task, listeners answer, a thread goes on with
\* its enqueue, and time passes.
EWFairness ==
    /\ \A w \in EventWorkers : WF_allvars(Step(w))
    /\ \A e \in Events : WF_allvars(PushCall(e))
    /\ WF_allvars(PassTime)

EWFairSpec == EWSpec /\ EWFairness

-------------------------------------------------------------------------------
EWTypeOK ==
    /\ ew \in [EventWorkers -> [pc : Places, event : Events \cup {NoEvent}, cursor : Listeners,
                                to_visit : Listeners, closing : BOOLEAN]]
    /\ taken \in [Events -> Nat]

\* A claim without a lease never outlives its use: what a worker owns is in the
\* hands of its running task, through raising listeners, cancellations, clears and
\* restarts, so no event waits for a recovery that cannot come.  Nor can a lease
\* lapse under a listener, and no await comes between its answer and the removal:
\* an event is taken at most once, whatever else happens.
NoClaimStuck ==
    /\ EWTypeOK
    /\ \A e \in Events : taken[e] <= 1
    /\ \A w \in EventWorkers, e \in Events :
          Owns(w, e) => InHand(w) = e /\ ew[w].pc \in {"listen", "release", "remove"}

\* No event lingers: whatever its listeners answer, and whichever calls find its
\* record gone, its claim taken or its lifetime over, it is taken or expires, unless
\* another user of the provider holds it or the workers have been stopped, or the
\* model's clock ends before its delay does.
EveryEventLeaves ==
    \A e \in Events : e \in issued ~>
        \/ e \notin entries
        \/ e \in DOMAIN available_at /\ available_at[e] + lag > MaxTime
        \/ \E w \in Workers \ EventWorkers : Owns(w, e)
        \/ \A w \in EventWorkers : At(w, "stopped")

===============================================================================
