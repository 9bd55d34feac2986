----------------------------- MODULE Notifications -----------------------------
(***************************************************************************)
(* The NotificationQueue of both backends.  Redis: the stored copies and   *)
(* their deadline index (the notification Functions of library.lua), the   *)
(* Pub/Sub channel, and one receiver per process.  In process: the tables  *)
(* and the queue of unseen entries of QueueProviderMemory, which outlives  *)
(* its receiver.  The receivers are NotificationQueueWorkers, kept up by   *)
(* the queue runtime.                                                      *)
(***************************************************************************)
EXTENDS RedisValues

CONSTANTS
    Notes,          \* notification IDs
    Receivers,      \* the processes that run a receiver
    Home,           \* the one among them that an in-process queue belongs to
    NumListeners,   \* listeners registered in each process
    Outcomes,       \* what a listener does: "skips" by its filter, "runs", "fails"
    Lifetimes,      \* sender-set lifetimes
    RemovalLease,   \* _NOTIFICATION_REMOVAL_LEASE_MS
    MaxTime,        \* bound on the clock of the model
    MaxFaults       \* bound: failing Redis calls and receivers stopped

ASSUME NotificationConstantsOK ==
    /\ Notes \subseteq Nat /\ Home \in Receivers
    /\ NumListeners \in Nat \ {0}
    /\ Outcomes \subseteq {"skips", "runs", "fails"}
    /\ Lifetimes \subseteq Nat /\ RemovalLease \in Nat
    /\ MaxTime \in Nat /\ MaxFaults \in Nat

VARIABLES
    backend,        \* "redis" or "memory"
    records,        \* the notifications with a stored copy
    deadlines,      \* the deadline ZSET, or table
    leases,         \* removal leases and when Redis drops them
    now,            \* the queue clock
    inbox,          \* what a receiver has not read: messages of its subscription, or
                    \* the entries of _notification_seen
    receiver,       \* each receiver: where it is, its message, its next listener
    faults,         \* faults so far
    published,      \* history: the notes published, in order
    audience,       \* history: who was to see a note when it was published
    tried,          \* history: how often a listener was invoked for a note
    missed          \* history: messages a receiver gave up, and why

store == <<records, deadlines, leases>>
history == <<published, audience, tried, missed>>
notificationvars == <<backend, store, now, inbox, receiver, faults, history>>

Listeners == 1 .. NumListeners
At(r, where) == receiver[r].at = where
Go(r, where) == receiver' = [receiver EXCEPT ![r].at = where]
Redis == backend = "redis"
Published == Range(published)
Position(n) == CHOOSE i \in DOMAIN published : published[i] = n
Running == {r \in Receivers : ~At(r, "down") /\ ~At(r, "stopped")}
Audience == IF Redis THEN Running ELSE {Home}

-------------------------------------------------------------------------------
\* Mutant of Publish: the message goes to one receiver, as a claim would.
PublishNoteToOne(n) ==
    IF Audience = {} THEN UNCHANGED inbox
    ELSE inbox' = [inbox EXCEPT ![CHOOSE r \in Audience : TRUE] = Append(@, n)]

\* PUBLISH reaches every connection that is subscribed; _notification_seen waits for
\* its receiver.
PublishNote(n) ==
    inbox' = [r \in Receivers |-> IF r \in Audience THEN Append(inbox[r], n) ELSE inbox[r]]

\* NotificationQueue.aenqueue: django_queue_notification_store, astore_notification.
NotificationStore(n, life) ==
    /\ n \notin Published
    /\ now + life <= MaxTime
    /\ records' = records \cup {n}
    /\ deadlines' = Zadd(deadlines, n, now + life)
    /\ PublishNote(n)
    /\ published' = Append(published, n)
    /\ audience' = [audience EXCEPT ![n] = Audience]
    /\ UNCHANGED <<backend, leases, now, receiver, faults, tried, missed>>

\* django_queue_notification_get, which afind calls: GET only.
Found(n) == n \notin DOMAIN leases /\ n \in records

\* Which of two copies expires first: in Redis by deadline and ID, in process by
\* deadline and age.
Sooner(n, m) ==
    IF Redis THEN Before(deadlines, n, m)
    ELSE \/ deadlines[n] < deadlines[m]
         \/ deadlines[n] = deadlines[m] /\ Position(n) < Position(m)
Expiring == {n \in DueAt(deadlines, now) : \A m \in DOMAIN deadlines \ {n} : Sooner(n, m)}
Lease(S) ==
    IF Redis
    THEN [n \in DOMAIN leases \cup S |-> IF n \in S THEN now + RemovalLease ELSE leases[n]]
    ELSE leases

\* django_queue_notification_expire, aexpire_due_notifications: the copy with the
\* earliest deadline goes, if it is due.
Expired ==
    /\ records' = records \ Expiring
    /\ deadlines' = Without(deadlines, Expiring)
    /\ leases' = Lease(Expiring)

\* NotificationQueue.aclear: django_queue_notification_clear, aclear_notifications,
\* which also empties _notification_seen.
NotificationClear ==
    /\ records # {} \/ (~Redis /\ inbox[Home] # <<>>)
    /\ records' = records \ DOMAIN deadlines
    /\ deadlines' = <<>>
    /\ leases' = Without(leases, DOMAIN deadlines)
    /\ IF Redis THEN UNCHANGED <<inbox, missed>>
       ELSE /\ inbox' = [inbox EXCEPT ![Home] = <<>>]
            /\ missed' = missed \cup {<<Home, n>> : n \in Range(inbox[Home])}
    /\ UNCHANGED <<backend, now, receiver, faults, published, audience, tried>>

\* Time passes, and Redis drops the leases that have run out.
Tick ==
    /\ now < MaxTime
    /\ now' = now + 1
    /\ leases' = Without(leases, DueAt(leases, now + 1))
    /\ UNCHANGED <<backend, records, deadlines, inbox, receiver, faults, history>>

-------------------------------------------------------------------------------
\* The runtime starts the receiver; in Redis its run subscribes first.
EnsureSubscribed(r) ==
    /\ At(r, "down")
    /\ Redis \/ r = Home
    /\ Go(r, "expire")
    /\ UNCHANGED <<backend, store, now, inbox, faults, history>>

\* adispatch_once: at most one expiry, then at most one message.
ExpireDue(r) ==
    /\ At(r, "expire")
    /\ Expired
    /\ Go(r, "next")
    /\ UNCHANGED <<backend, now, inbox, faults, history>>

\* Mutant of NextMessage: get_message waits without a timeout.
NextMessageWaits(r) ==
    /\ At(r, "next")
    /\ inbox[r] # <<>>
    /\ receiver' = [receiver EXCEPT ![r] = [at |-> "dispatch", note |-> Head(inbox[r]), listener |-> 1]]
    /\ inbox' = [inbox EXCEPT ![r] = Tail(@)]
    /\ UNCHANGED <<backend, store, now, faults, history>>

\* _next: get_message with the idle delay as its timeout; asee_next_notification.
NextMessage(r) ==
    /\ At(r, "next")
    /\ IF inbox[r] = <<>>
       THEN Go(r, "expire") /\ UNCHANGED inbox
       ELSE /\ receiver' = [receiver EXCEPT
                   ![r] = [at |-> "dispatch", note |-> Head(inbox[r]), listener |-> 1]]
            /\ inbox' = [inbox EXCEPT ![r] = Tail(@)]
    /\ UNCHANGED <<backend, store, now, faults, history>>

\* Mutant of AfterListener: a failing listener ends the dispatch.
AfterFailureStop(r, outcome) ==
    IF outcome = "fails" \/ receiver[r].listener >= NumListeners
    THEN [receiver[r] EXCEPT !.at = "expire"]
    ELSE [receiver[r] EXCEPT !.listener = @ + 1]

\* The loop of _dispatch: whatever a listener does, the next one is tried.
AfterListener(r, outcome) ==
    IF receiver[r].listener >= NumListeners
    THEN [receiver[r] EXCEPT !.at = "expire"]
    ELSE [receiver[r] EXCEPT !.listener = @ + 1]

\* _dispatch, one listener at a time.
Dispatch(r, outcome) ==
    /\ At(r, "dispatch")
    /\ receiver' = [receiver EXCEPT ![r] = AfterListener(r, outcome)]
    /\ tried' = [tried EXCEPT ![r][receiver[r].note][receiver[r].listener] = @ + 1]
    /\ UNCHANGED <<backend, store, now, inbox, faults, published, audience, missed>>

-------------------------------------------------------------------------------
\* A receiver ends.  What is left of the dispatch it was in is gone; so is, as run
\* closes the subscription, what it had not read.  _notification_seen stays.
Unread(r) ==
    (IF Redis THEN Range(inbox[r]) ELSE {}) \cup (IF At(r, "dispatch") THEN {receiver[r].note} ELSE {})

Stop(r, where) ==
    /\ faults < MaxFaults
    /\ faults' = faults + 1
    /\ Go(r, where)
    /\ inbox' = IF Redis THEN [inbox EXCEPT ![r] = <<>>] ELSE inbox
    /\ missed' = missed \cup {<<r, n>> : n \in Unread(r)}
    /\ UNCHANGED <<backend, store, now, published, audience, tried>>

\* A Redis call fails: the worker's run ends and the runtime starts another one.
CallFails(r) == Redis /\ (At(r, "expire") \/ At(r, "next")) /\ Stop(r, "down")

\* The receiver's task is cancelled: its process is on its way out, which an
\* in-process queue would not survive, or it is stopped and started again.
ReceiverCancelled(r) == r \in Running /\ Stop(r, IF Redis THEN "stopped" ELSE "down")

NotificationsInit ==
    /\ backend \in {"redis", "memory"}
    /\ records = {} /\ deadlines = <<>> /\ leases = <<>> /\ now = 0
    /\ inbox = [r \in Receivers |-> <<>>]
    /\ receiver = [r \in Receivers |-> [at |-> "down", note |-> 0, listener |-> 1]]
    /\ faults = 0
    /\ published = <<>> /\ audience = [n \in Notes |-> {}] /\ missed = {}
    /\ tried = [r \in Receivers |-> [n \in Notes |-> [l \in Listeners |-> 0]]]

ReceiverStep(r) ==
    \/ EnsureSubscribed(r)
    \/ ExpireDue(r)
    \/ NextMessage(r)
    \/ \E outcome \in Outcomes : Dispatch(r, outcome)

NotificationsNext ==
    \/ \E n \in Notes, life \in Lifetimes : NotificationStore(n, life)
    \/ NotificationClear
    \/ Tick
    \/ \E r \in Receivers : ReceiverStep(r) \/ CallFails(r) \/ ReceiverCancelled(r)

NotificationsSpec == NotificationsInit /\ [][NotificationsNext]_notificationvars

\* A receiver's task keeps running (its listeners return), and time passes.
Fairness == WF_notificationvars(Tick) /\ \A r \in Receivers : WF_notificationvars(ReceiverStep(r))
NotificationsFairSpec == NotificationsSpec /\ Fairness

-------------------------------------------------------------------------------
\* The shape of the keys and of the receivers.
NotificationsTypeOK ==
    /\ records \subseteq Notes
    /\ deadlines \in [DOMAIN deadlines -> 0 .. MaxTime] /\ DOMAIN deadlines \subseteq Notes
    /\ leases \in [DOMAIN leases -> Nat] /\ DOMAIN leases \subseteq Notes
    /\ inbox \in [Receivers -> Seq(Notes)] /\ (~Redis => leases = <<>>)
    /\ \A r \in Receivers :
          /\ receiver[r].at \in {"down", "expire", "next", "dispatch", "stopped"}
          /\ receiver[r].listener \in Listeners
          /\ At(r, "dispatch") => receiver[r].note \in Published
    /\ faults \in 0 .. MaxFaults

\* A receiver that has moved on from a note it read has invoked every listener
\* exactly once for it, whatever the others did: failures are isolated and
\* nothing is dispatched twice.  One that is reading it has invoked those before
\* the next one, and notes are read in the order of their publication, also
\* across a restart of the receiver.
EveryListenerOnce ==
    /\ NotificationsTypeOK
    /\ \A r \in Receivers, n \in Published, l \in Listeners :
          /\ <<r, n>> \notin missed =>
                 tried[r][n][l] =
                     IF r \notin audience[n] \/ n \in Range(inbox[r]) THEN 0
                     ELSE IF At(r, "dispatch") /\ receiver[r].note = n
                     THEN IF l < receiver[r].listener THEN 1 ELSE 0
                     ELSE 1
          /\ tried[r][n][l] > 0 => \A m \in Range(inbox[r]) : Position(n) < Position(m)

\* A stored copy leaves only by a clear or, one at a time and earliest first, once
\* its lifetime is over, however many receivers tick.
ExpiresInTurn ==
    \/ records \subseteq records'
    \/ NotificationClear
    \/ \E n \in records :
          /\ records' = records \ {n}
          /\ deadlines[n] <= now
          /\ \A m \in records : deadlines[n] <= deadlines[m]

\* A notification that afind no longer finds does not come back, in particular
\* not when its removal lease runs out.
StaysGone == \A n \in Published : ~Found(n) => ~Found(n)'

\* Copies expire in turn, and for good, and each is removed in the end, also when
\* nothing is published, as long as one receiver is not stopped.
EveryCopyExpires ==
    /\ [][ExpiresInTurn /\ StaysGone]_notificationvars
    /\ \A n \in Notes : n \in records ~> (n \notin records \/ \A r \in Receivers : At(r, "stopped"))

\* A note is tried on every listener of each receiver that was to see it, unless that
\* receiver ends.  (In Redis a failing call ends it too: the runtime subscribes
\* anew, but what the old subscription had received and not yet read is gone.  In
\* process only the note in its hands is lost to a restart, or what a clear took,
\* and an expired copy is still seen.)
SeenByAudience ==
    \A n \in Notes, r \in Receivers :
        r \in audience[n] ~> \/ \A l \in Listeners : tried[r][n][l] > 0
                             \/ <<r, n>> \in missed

===============================================================================
