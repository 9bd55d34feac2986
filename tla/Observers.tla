------------------------------- MODULE Observers -------------------------------
(***************************************************************************)
(* Lifecycle observers of one alias (observers.py).  Threads register      *)
(* callbacks: a direct call of queue_observer, or a thread that resolves   *)
(* the alias and so activates the one observer that was decorated.         *)
(* Workers store and publish snapshots; a dispatcher thread delivers them  *)
(* through a bounded queue.  Each action is one critical section or one    *)
(* call in between, so that the threads interleave wherever a lock is      *)
(* free.                                                                   *)
(***************************************************************************)
EXTENDS RedisValues

CONSTANTS
    Entries,        \* entry IDs, ordered
    LastStage,      \* stages of an entry: 0 queued, 1 running, 2 terminal, ...
    Direct,         \* threads that call queue_observer(name, callback)
    Activators,     \* threads that resolve the alias (_activate_pending_for)
    Casts,          \* the sets of threads of which one comes to register
    Capacity,       \* _EVENT_QUEUE_SIZE
    MaxFailures     \* bound: failing list() calls

Threads == Direct \cup Activators
Everyone == "everyone"

ASSUME ObserverConstantsOK ==
    /\ Entries \subseteq Nat /\ IsFiniteSet(Entries) /\ LastStage \in Nat
    /\ Direct \cap Activators = {} /\ Everyone \notin Threads
    /\ Casts \subseteq SUBSET Threads
    /\ Capacity \in Nat \ {0} /\ MaxFailures \in Nat

VARIABLES
    stored,         \* the stage of each entry's record
    sequence,       \* _QueueObservers.sequence
    registrations,  \* _QueueObservers.registrations: the threads that made them
    reg,            \* the _Registration each thread makes
    events,         \* _QueueObservers.events
    publisher,      \* the worker that stores and publishes each entry
    registrar,      \* each registering thread's place in its code
    decorated,      \* the _PendingRegistration of the decorated observer
    dispatcher,     \* the delivery in the dispatcher's hands, for whom, and whom it calls
    times,          \* history: how often each snapshot reached each callback
    unsubscribed,   \* history: the threads whose observer was unsubscribed
    caught,         \* history: those unregistered between the dispatcher's check and its call
    dropped,        \* history: a snapshot found the queue full
    overtaken,      \* history: threads whose batch was queued around a publication
    failures        \* list() calls that have failed

observervars == <<stored, sequence, registrations, reg, events, publisher, registrar, decorated,
                  dispatcher, times, unsubscribed, caught, dropped, overtaken, failures>>

Snapshots == Entries \X (0 .. LastStage)

\* _queue_event: put_nowait, or drop.
QueueEvent(delivery) ==
    /\ events' = IF Len(events) < Capacity THEN Append(events, delivery) ELSE events
    /\ dropped' = (dropped \/ Len(events) >= Capacity)

\* _order_snapshots: by entry, then by stage, then as they were.
Earlier(list, i, j) ==
    \/ list[i][1] < list[j][1]
    \/ list[i][1] = list[j][1] /\ list[i][2] < list[j][2]
    \/ list[i] = list[j] /\ i <= j
Place(list, i) == Cardinality({j \in DOMAIN list : Earlier(list, j, i)})
Ordered(list) == [n \in DOMAIN list |-> list[CHOOSE i \in DOMAIN list : Place(list, i) = n]]

-------------------------------------------------------------------------------
\* A worker stores the next stage of an entry once it has published the last.
Record(e) ==
    /\ publisher[e].pc = "idle" /\ publisher[e].next = stored[e] + 1
    /\ stored[e] < LastStage
    /\ stored' = [stored EXCEPT ![e] = @ + 1]
    /\ UNCHANGED <<sequence, registrations, reg, events, publisher, registrar, decorated,
                   dispatcher, times, unsubscribed, caught, dropped, overtaken, failures>>

\* publish, under the lock: initialising registrations keep the snapshot.
Publish(e) ==
    /\ publisher[e].pc = "idle" /\ publisher[e].next <= stored[e]
    /\ sequence' = sequence + 1
    /\ reg' = [t \in Threads |->
          IF t \in Range(registrations) /\ reg[t].initialising
          THEN [reg[t] EXCEPT !.pending = Append(@, <<e, publisher[e].next>>)] ELSE reg[t]]
    /\ publisher' = [publisher EXCEPT ![e] =
          [pc |-> "locked", next |-> publisher[e].next, seq |-> sequence', to |-> Range(registrations)]]
    /\ UNCHANGED <<stored, registrations, events, registrar, decorated, dispatcher, times,
                   unsubscribed, caught, dropped, overtaken, failures>>

\* publish, after the lock: queued if some registration is no longer initialising.
PublishQueue(e) ==
    /\ publisher[e].pc = "locked"
    /\ IF \E t \in publisher[e].to : ~reg[t].initialising
       THEN QueueEvent([snapshot |-> <<e, publisher[e].next>>, target |-> Everyone,
                        sequence |-> publisher[e].seq])
       ELSE UNCHANGED <<events, dropped>>
    /\ publisher' = [publisher EXCEPT ![e].pc = "idle", ![e].next = publisher[e].next + 1]
    /\ overtaken' = overtaken \cup {t \in Threads : registrar[t].pc = "queue"}
    /\ UNCHANGED <<stored, sequence, registrations, reg, registrar, decorated, dispatcher,
                   times, unsubscribed, caught, failures>>

-------------------------------------------------------------------------------
Goto(t, where) == registrar' = [registrar EXCEPT ![t].pc = where]

\* Mutant of Choose: the activating flag is not looked at.
ChooseAnyway(t) ==
    /\ registrar[t].pc = "choose"
    /\ IF decorated.cancelled \/ decorated.subscription # {}
       THEN Goto(t, "done") /\ UNCHANGED decorated
       ELSE Goto(t, "register") /\ decorated' = [decorated EXCEPT !.activating = TRUE]
    /\ UNCHANGED <<stored, sequence, registrations, reg, events, publisher, dispatcher,
                   times, unsubscribed, caught, dropped, overtaken, failures>>

\* _activate_pending_for: check-and-set of activating, under its lock.
Choose(t) ==
    /\ registrar[t].pc = "choose"
    /\ IF decorated.cancelled \/ decorated.activating \/ decorated.subscription # {}
       THEN Goto(t, "done") /\ UNCHANGED decorated
       ELSE Goto(t, "register") /\ decorated' = [decorated EXCEPT !.activating = TRUE]
    /\ UNCHANGED <<stored, sequence, registrations, reg, events, publisher, dispatcher,
                   times, unsubscribed, caught, dropped, overtaken, failures>>

\* _QueueObservers.register
Register(t) ==
    /\ registrar[t].pc = "register"
    /\ reg' = [reg EXCEPT ![t].active = TRUE, ![t].started = sequence]
    /\ registrations' = Append(registrations, t)
    /\ Goto(t, "list")
    /\ UNCHANGED <<stored, sequence, events, publisher, decorated, dispatcher, times,
                   unsubscribed, caught, dropped, overtaken, failures>>

\* configured_queue.list(): the retained snapshots, in an order of its own.
Listed(S) == CHOOSE list \in Bijection(1 .. Cardinality(S), S) : TRUE

List(t) ==
    /\ registrar[t].pc = "list"
    /\ registrar' = [registrar EXCEPT ![t].pc = "activate",
                                ![t].batch = Listed({<<e, stored[e]>> : e \in Entries})]
    /\ UNCHANGED <<stored, sequence, registrations, reg, events, publisher, decorated,
                   dispatcher, times, unsubscribed, caught, dropped, overtaken, failures>>

Unregister(t) ==
    /\ reg' = [reg EXCEPT ![t].active = FALSE]
    /\ registrations' = Keep(registrations, Threads \ {t})
    /\ caught' = caught \cup ({t} \cap dispatcher.call)

\* list() raises: the registration is taken back.
ListFails(t) ==
    /\ registrar[t].pc = "list"
    /\ failures < MaxFailures /\ failures' = failures + 1
    /\ Unregister(t)
    /\ registrar' = [registrar EXCEPT ![t].pc = IF t \in Activators THEN "failed" ELSE "done"]
    /\ UNCHANGED <<stored, sequence, events, publisher, decorated, dispatcher, times,
                   unsubscribed, dropped, overtaken>>

\* list() raises for an observer that was decorated earlier, which is registered
\* first: the exception ends _activate_pending_for, and this one stays activating.
AnotherFails(t) ==
    /\ registrar[t].pc = "register" /\ t \in Activators
    /\ failures < MaxFailures /\ failures' = failures + 1
    /\ Goto(t, "done")
    /\ UNCHANGED <<stored, sequence, registrations, reg, events, publisher, decorated,
                   dispatcher, times, unsubscribed, caught, dropped, overtaken>>

\* Mutant of Activate: the batch is not sorted.
ActivateUnsorted(t) ==
    /\ registrar[t].pc = "activate"
    /\ registrar' = [registrar EXCEPT ![t].pc = "queue",
                                ![t].batch = registrar[t].batch \o reg[t].pending]
    /\ reg' = [reg EXCEPT ![t].pending = <<>>, ![t].initialising = FALSE,
                          ![t].bootstrapped = sequence]
    /\ UNCHANGED <<stored, sequence, registrations, events, publisher, decorated,
                   dispatcher, times, unsubscribed, caught, dropped, overtaken, failures>>

\* activate, under the lock: ordinary delivery begins here.
Activate(t) ==
    /\ registrar[t].pc = "activate"
    /\ registrar' = [registrar EXCEPT ![t].pc = "queue",
                                ![t].batch = Ordered(registrar[t].batch \o reg[t].pending)]
    /\ reg' = [reg EXCEPT ![t].pending = <<>>, ![t].initialising = FALSE,
                          ![t].bootstrapped = sequence]
    /\ UNCHANGED <<stored, sequence, registrations, events, publisher, decorated,
                   dispatcher, times, unsubscribed, caught, dropped, overtaken, failures>>

\* activate, after the lock: the bootstrap batch is queued for this callback.
QueueBatch(t) ==
    /\ registrar[t].pc = "queue"
    /\ IF registrar[t].batch = <<>>
       THEN /\ Goto(t, IF t \in Activators THEN "finish" ELSE "done")
            /\ UNCHANGED <<events, dropped>>
       ELSE /\ QueueEvent([snapshot |-> Head(registrar[t].batch), target |-> t, sequence |-> 0])
            /\ registrar' = [registrar EXCEPT ![t].batch = Tail(@)]
    /\ UNCHANGED <<stored, sequence, registrations, reg, publisher, decorated, dispatcher,
                   times, unsubscribed, caught, overtaken, failures>>

\* _activate_pending_for, the finally clause: the subscription becomes reachable,
\* unless there is none.
Finish(t) ==
    /\ registrar[t].pc \in {"finish", "failed"}
    /\ decorated' = [decorated EXCEPT !.activating = FALSE,
                        !.subscription = IF registrar[t].pc = "finish" THEN {t} ELSE decorated.subscription]
    /\ Goto(t, IF registrar[t].pc = "finish" /\ decorated.cancelled THEN "undo" ELSE "done")
    /\ UNCHANGED <<stored, sequence, registrations, reg, events, publisher, dispatcher,
                   times, unsubscribed, caught, dropped, overtaken, failures>>

\* ... and if it was cancelled meanwhile it is torn down.
Undo(t) ==
    /\ registrar[t].pc = "undo"
    /\ Unregister(t)
    /\ Goto(t, "done")
    /\ UNCHANGED <<stored, sequence, events, publisher, decorated, dispatcher, times,
                   unsubscribed, dropped, overtaken, failures>>

\* QueueSubscription.unsubscribe, once queue_observer has returned.
Unsubscribe(t) ==
    /\ t \in Direct /\ registrar[t].pc = "done" /\ reg[t].active
    /\ Unregister(t)
    /\ unsubscribed' = unsubscribed \cup {t}
    /\ UNCHANGED <<stored, sequence, events, publisher, registrar, decorated, dispatcher,
                   times, dropped, overtaken, failures>>

\* DecoratorSubscription.unsubscribe, at any time.
UnsubscribeDecorated ==
    /\ Activators \ unsubscribed # {}
    /\ unsubscribed' = unsubscribed \cup Activators
    /\ IF decorated.subscription = {}
       THEN decorated' = [decorated EXCEPT !.cancelled = TRUE] /\ UNCHANGED <<reg, registrations, caught>>
       ELSE \E t \in decorated.subscription : Unregister(t) /\ UNCHANGED decorated
    /\ UNCHANGED <<stored, sequence, events, publisher, registrar, dispatcher, times, dropped,
                   overtaken, failures>>

-------------------------------------------------------------------------------
\* _dispatch_forever: takes a delivery and the registrations it is for.
Get ==
    /\ dispatcher.to = <<>> /\ dispatcher.call = {} /\ events # <<>>
    /\ events' = Tail(events)
    /\ dispatcher' = [delivery |-> Head(events),
                      to |-> IF Head(events).target = Everyone THEN registrations
                             ELSE <<Head(events).target>>,
                      call |-> {}]
    /\ UNCHANGED <<stored, sequence, registrations, reg, publisher, registrar, decorated,
                   times, unsubscribed, caught, dropped, overtaken, failures>>

\* Mutant of Wanted: one snapshot too many is left out.
WantedLess(t, d) ==
    /\ reg[t].active /\ ~reg[t].initialising
    /\ d.target = Everyone =>
          ~(reg[t].started < d.sequence /\ d.sequence <= reg[t].bootstrapped + 1)

\* An active registration takes its batch and what was published outside the
\* window that its batch covers.
Wanted(t, d) ==
    /\ reg[t].active /\ ~reg[t].initialising
    /\ d.target = Everyone =>
          ~(reg[t].started < d.sequence /\ d.sequence <= reg[t].bootstrapped)

\* The next registration is passed over or taken, without the lock ...
Check ==
    /\ dispatcher.to # <<>> /\ dispatcher.call = {}
    /\ LET t == Head(dispatcher.to) IN
       dispatcher' = [dispatcher EXCEPT !.to = Tail(@),
                         !.call = IF Wanted(t, dispatcher.delivery) THEN {t} ELSE {}]
    /\ UNCHANGED <<stored, sequence, registrations, reg, events, publisher, registrar, decorated,
                   times, unsubscribed, caught, dropped, overtaken, failures>>

\* ... and then its callback is called, whatever became of it meanwhile.
CallBack ==
    /\ \E t \in dispatcher.call :
          /\ times' = [times EXCEPT ![t][dispatcher.delivery.snapshot] = @ + 1]
          /\ caught' = caught \ {t}
    /\ dispatcher' = [dispatcher EXCEPT !.call = {}]
    /\ UNCHANGED <<stored, sequence, registrations, reg, events, publisher, registrar, decorated,
                   unsubscribed, dropped, overtaken, failures>>

-------------------------------------------------------------------------------
NoDelivery == [snapshot |-> <<0, 0>>, target |-> Everyone, sequence |-> 0]

ObserversInit ==
    /\ stored = [e \in Entries |-> 0]
    /\ sequence = 0 /\ registrations = <<>> /\ events = <<>>
    /\ reg = [t \in Threads |-> [active |-> FALSE, initialising |-> TRUE, pending |-> <<>>,
                                 started |-> 0, bootstrapped |-> 0]]
    /\ publisher = [e \in Entries |-> [pc |-> "idle", next |-> 0, seq |-> 0, to |-> {}]]
    /\ \E cast \in Casts : registrar = [t \in Threads |->
          [pc |-> IF t \notin cast THEN "done"
                  ELSE IF t \in Activators THEN "choose" ELSE "register", batch |-> <<>>]]
    /\ decorated = [cancelled |-> FALSE, activating |-> FALSE, subscription |-> {}]
    /\ dispatcher = [delivery |-> NoDelivery, to |-> <<>>, call |-> {}]
    /\ times = [t \in Threads |-> [s \in Snapshots |-> 0]]
    /\ unsubscribed = {} /\ caught = {} /\ dropped = FALSE /\ overtaken = {} /\ failures = 0

Work(e) == Record(e) \/ Publish(e) \/ PublishQueue(e)
Registering(t) ==
    Choose(t) \/ Register(t) \/ List(t) \/ Activate(t) \/ QueueBatch(t) \/ Finish(t) \/ Undo(t)
DispatchForever == Get \/ Check \/ CallBack

ObserversNext ==
    \/ \E e \in Entries : Work(e)
    \/ \E t \in Threads : Registering(t) \/ ListFails(t) \/ AnotherFails(t) \/ Unsubscribe(t)
    \/ UnsubscribeDecorated
    \/ DispatchForever

ObserversSpec == ObserversInit /\ [][ObserversNext]_observervars

\* Every thread is scheduled.
ObserversFairSpec ==
    /\ ObserversSpec
    /\ WF_observervars(DispatchForever)
    /\ \A e \in Entries : WF_observervars(Work(e))
    /\ \A t \in Threads : WF_observervars(Registering(t))

-------------------------------------------------------------------------------
\* The variables have their shapes; the delivery queue never outgrows its bound.
ObserversTypeOK ==
    /\ stored \in [Entries -> 0 .. LastStage]
    /\ sequence \in Nat
    /\ registrations \in Seq(Threads)
    /\ reg \in [Threads -> [active : BOOLEAN, initialising : BOOLEAN, pending : Seq(Snapshots),
                            started : 0 .. sequence, bootstrapped : 0 .. sequence]]
    /\ events \in Seq([snapshot : Snapshots, target : Threads \cup {Everyone}, sequence : Nat])
    /\ Len(events) <= Capacity
    /\ decorated \in [cancelled : BOOLEAN, activating : BOOLEAN, subscription : SUBSET Activators]

\* However many threads resolve the alias at once, the decorated observer has
\* one live registration at most, and one that its handle can reach or that is
\* about to become reachable.
OneActivation ==
    /\ ObserversTypeOK
    /\ Cardinality({t \in Activators : reg[t].active}) <= 1
    /\ \A t \in Activators : reg[t].active /\ registrar[t].pc = "done" => t \in decorated.subscription

\* After unsubscribe() has returned, a callback is not called again, not even for
\* a delivery that is already being dispatched; the exception is the one call for
\* which the dispatcher had found it active before.  (A decorated observer that is
\* unsubscribed while a thread activates it is silent once that thread is done.)
UnsubscribedIsSilent ==
    \A t \in unsubscribed \ caught : registrar[t].pc = "done" => times'[t] = times[t]

\* No snapshot falls between the retained records and the publications: every
\* stage that is stored after an observer has registered reaches it, unless it
\* unsubscribes or the queue overflows.  A decorated observer is one observer,
\* whichever thread activates it.
Callbacks == {{t} : t \in Direct} \cup {Activators}
NothingMissed ==
    \A ts \in Callbacks, e \in Entries, k \in 1 .. LastStage :
        ((\E t \in ts : reg[t].active) /\ stored[e] = k - 1)
            ~> ((\E t \in ts : times[t][<<e, k>>] > 0) \/ (\A t \in ts : ~reg[t].active) \/ dropped)

\* The snapshots of an entry come in the order of its stages, the retained ones
\* included (openspec/specs/completion-notifications), and each at most twice: once
\* as retained record, once as publication.  The exception to the order is a
\* publication between the end of the initialisation and the last snapshot of
\* the bootstrap batch, which overtakes the batch.
StagesInOrder ==
    /\ \A t \in Threads, s \in Snapshots : times'[t][s] <= 2
    /\ \A t \in Threads \ overtaken, e \in Entries : \A j, k \in 0 .. LastStage :
           j < k /\ times'[t][<<e, j>>] > times[t][<<e, j>>] => times[t][<<e, k>>] = 0

\* A callback is called in order, and only while it is subscribed.
CallbacksInOrder == [][UnsubscribedIsSilent /\ StagesInOrder]_observervars

===============================================================================
