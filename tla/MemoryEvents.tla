------------------------------ MODULE MemoryEvents ------------------------------
(***************************************************************************)
(* The in-process store of one EventQueue (backends/memory/provider.py).   *)
(* The threads of the process share it under a lock.  An operation reads   *)
(* the clock before it takes the lock, so by the time it works with the    *)
(* reading t the clock may be up to lag ahead of it.  Recovery of lapsed   *)
(* claims is part of the calls that need it.                               *)
(***************************************************************************)
EXTENDS RedisValues

CONSTANTS
    Events,         \* event IDs
    Workers,        \* runtime identities of event workers
    Lifetimes,      \* unclaimed lifetimes; 0: used up when the store is reached
    Leases,         \* lease durations
    NoLease,        \* a claim without a deadline
    Delays,         \* release delays
    Lags,           \* bounds on the wait between the clock reading and the lock
    MaxTime,        \* bound on the clock of the model
    MaxLeft,        \* bound on the rest of a lifetime, which late readings stretch
    NoEvent         \* the reply of a call that got no event

ASSUME MemoryConstantsOK ==
    /\ Events \subseteq Nat
    /\ NoEvent \notin Events
    /\ Lifetimes \subseteq Nat
    /\ Leases \subseteq Nat \ {0} /\ NoLease \notin Nat
    /\ Delays \subseteq Nat
    /\ Lags \subseteq Nat /\ MaxTime \in Nat /\ MaxLeft \in Nat

VARIABLES
    entries,                \* the events that have a record
    pending,                \* the FIFO of pending IDs
    available_at,           \* released events: not before this time
    unclaimed_deadlines,    \* the end of the lifetime of an unclaimed event
    unclaimed_remaining,    \* what is left of the lifetime of a claimed one
    claims,                 \* the owner of a claimed event
    claim_deadlines,        \* the end of a claim's lease, if it has one
    now,                    \* the clock
    lag,                    \* how late calls reach the lock in this history
    storing,                \* events between astore_event and apush
    issued,                 \* history: the events that were enqueued
    ended                   \* history: how the events that are gone ended

tables == <<entries, available_at, unclaimed_deadlines, unclaimed_remaining,
            claims, claim_deadlines>>
vars == <<tables, pending, now, lag, storing, issued, ended>>

\* What an operation that works now may have read from the clock.
Readings == {t \in 0 .. now : now - lag <= t}

End(S, how) == ended' = [e \in DOMAIN ended \cup S |-> IF e \in S THEN how ELSE ended[e]]

-------------------------------------------------------------------------------
\* EventQueue._astore_and_push: the record and its deadline, then the ID.
AstoreEvent(e, life, t) ==
    /\ e \notin issued
    /\ entries' = entries \cup {e}
    /\ unclaimed_deadlines' = Zadd(unclaimed_deadlines, e, t + life)
    /\ storing' = storing \cup {e}
    /\ issued' = issued \cup {e}
    /\ UNCHANGED <<pending, available_at, unclaimed_remaining, claims, claim_deadlines, now, ended>>

Apush(e) ==
    /\ e \in storing
    /\ pending' = Append(pending, e)
    /\ storing' = storing \ {e}
    /\ UNCHANGED <<tables, now, issued, ended>>

\* Mutant of Lapsed: a lease ends one unit early.
LapsedEarly(t) == DueAt(claim_deadlines, t + 1)

\* _recover_expired_claims(t), which the callers below do first: the claims whose
\* lease has run out, and the tables without them.  The lapsed events are pushed
\* in the order of their claims, which the model leaves open.
Lapsed(t) == DueAt(claim_deadlines, t)
Returned(t) ==
    {list \in [1 .. Cardinality(Lapsed(t) \cap entries) -> Lapsed(t) \cap entries] :
        Injective(list)}
Held(t) == Without(claims, Lapsed(t))

Resumed(t) ==
    LET back == Lapsed(t) \cap entries \cap DOMAIN unclaimed_remaining
    IN [e \in DOMAIN unclaimed_deadlines \cup back |->
            IF e \in back THEN t + unclaimed_remaining[e] ELSE unclaimed_deadlines[e]]

Waiting(e, t) == e \in DOMAIN available_at /\ available_at[e] > t

\* Mutant of Dead: the boundary belongs to the lifetime.
DeadLater(e, t) == e \notin DOMAIN Resumed(t) \/ Resumed(t)[e] < t

Dead(e, t) == e \notin DOMAIN Resumed(t) \/ Resumed(t)[e] <= t

\* The tables once Lapsed(t) is recovered and the events S are deleted
\* (_delete_event); the claim of an event in S is not touched, as there is none.
Recovered(t, S) ==
    /\ entries' = entries \ S
    /\ available_at' = Without(available_at, S)
    /\ unclaimed_deadlines' = Without(Resumed(t), S)
    /\ unclaimed_remaining' = Without(unclaimed_remaining, Lapsed(t) \cup S)
    /\ claims' = Held(t)
    /\ claim_deadlines' = Without(claim_deadlines, Lapsed(t))

\* n is the first position of list whose event is not in S, or one past the end.
FirstOutside(list, S, n) ==
    /\ n <= Len(list) => list[n] \notin S
    /\ \A i \in 1 .. n - 1 : list[i] \in S

\* adequeue: events that wait or are claimed go to the far end, dead ones are
\* deleted, the first other one is consumed.
Adequeue(got, t) ==
    \E back \in Returned(t) : \E n \in 1 .. Len(pending \o back) + 1 :
        LET list == pending \o back
            skipped == {e \in Range(list) : Waiting(e, t) \/ e \in DOMAIN Held(t)}
            dead == {e \in Range(list) \ skipped : e \notin entries \/ Dead(e, t)}
            passed == SubSeq(list, 1, n - 1)
            taken == IF n > Len(list) THEN {} ELSE {list[n]}
            out == taken \cup (dead \cap Range(passed))
        IN
        /\ FirstOutside(list, skipped \cup dead, n)
        /\ got = IF taken = {} THEN NoEvent ELSE list[n]
        /\ pending' = SubSeq(list, n + 1, Len(list)) \o Keep(passed, skipped)
        /\ Recovered(t, out)
        /\ ended' = [e \in DOMAIN ended \cup (out \cap entries) |->
               IF e \in taken THEN "consumed"
               ELSE IF e \in out \cap entries THEN "expired" ELSE ended[e]]
        /\ UNCHANGED <<now, storing, issued>>

\* The tables once Lapsed(t) is recovered and w has a claim on e.
Claimed(w, e, lease, t) ==
    /\ unclaimed_deadlines' = Without(Resumed(t), {e})
    /\ unclaimed_remaining' =
           Zadd(Without(unclaimed_remaining, Lapsed(t)), e, Resumed(t)[e] - t)
    /\ available_at' = Without(available_at, {e})
    /\ claims' = Zadd(Held(t), e, w)
    /\ claim_deadlines' =
           LET kept == Without(claim_deadlines, Lapsed(t))
           IN IF lease = NoLease THEN kept ELSE Zadd(kept, e, t + lease)

\* _aclaim with expire_unclaimed: events that wait go to the far end, and the
\* first other one decides.  got is NoEvent for an empty queue, a conflict, a
\* missing record and an event that has used up its lifetime.
Aclaim(w, lease, got, t) ==
    \E back \in Returned(t) : \E n \in 1 .. Len(pending \o back) + 1 :
        LET list == pending \o back
            rest == SubSeq(list, n + 1, Len(list)) \o SubSeq(list, 1, n - 1)
            e == list[n]
        IN
        /\ FirstOutside(list, {x \in Range(list) : Waiting(x, t)}, n)
        /\ IF n > Len(list) \/ e \notin entries
           THEN got = NoEvent /\ pending' = rest /\ Recovered(t, {}) /\ UNCHANGED ended
           ELSE IF e \in DOMAIN Held(t)
           THEN /\ got = NoEvent /\ pending' = Append(rest, e)
                /\ Recovered(t, {}) /\ UNCHANGED ended
           ELSE IF Dead(e, t)
           THEN got = NoEvent /\ pending' = rest /\ Recovered(t, {e}) /\ End({e}, "expired")
           ELSE got = e /\ pending' = rest /\ Claimed(w, e, lease, t) /\ UNCHANGED <<entries, ended>>
        /\ UNCHANGED <<now, storing, issued>>

\* arenew: the lapsed claims are recovered whether or not w owns e.
Arenew(w, e, lease, t) ==
    \E back \in Returned(t) :
        /\ pending' = pending \o back
        /\ entries' = entries
        /\ available_at' = available_at
        /\ unclaimed_deadlines' = Resumed(t)
        /\ unclaimed_remaining' = Without(unclaimed_remaining, Lapsed(t))
        /\ claims' = Held(t)
        /\ claim_deadlines' =
               LET kept == Without(claim_deadlines, Lapsed(t))
               IN IF e \in DOMAIN Held(t) /\ claims[e] = w THEN Zadd(kept, e, t + lease) ELSE kept
        /\ UNCHANGED <<now, storing, issued, ended>>

Owns(w, e) == e \in DOMAIN claims /\ claims[e] = w

\* Mutant of Arelease: the claim is kept.
AreleaseKeeps(w, e, delay, t) ==
    /\ Owns(w, e)
    /\ unclaimed_deadlines' = Zadd(unclaimed_deadlines, e, t + unclaimed_remaining[e])
    /\ available_at' = Zadd(available_at, e, t + delay)
    /\ pending' = Append(pending, e)
    /\ UNCHANGED <<entries, unclaimed_remaining, claims, claim_deadlines, now, storing, issued, ended>>

Arelease(w, e, delay, t) ==
    /\ Owns(w, e)
    /\ claims' = Without(claims, {e})
    /\ claim_deadlines' = Without(claim_deadlines, {e})
    /\ unclaimed_remaining' = Without(unclaimed_remaining, {e})
    /\ unclaimed_deadlines' = Zadd(unclaimed_deadlines, e, t + unclaimed_remaining[e])
    /\ available_at' = Zadd(available_at, e, t + delay)
    /\ pending' = Append(pending, e)
    /\ UNCHANGED <<entries, now, storing, issued, ended>>

\* Every table but the claims forgets the events S.
Forget(S, how) ==
    /\ entries' = entries \ S
    /\ available_at' = Without(available_at, S)
    /\ unclaimed_deadlines' = Without(unclaimed_deadlines, S)
    /\ unclaimed_remaining' = Without(unclaimed_remaining, S)
    /\ pending' = Keep(pending, Events \ S)
    /\ End(S \cap entries, how)
    /\ UNCHANGED <<now, storing, issued>>

Unclaim(e) ==
    /\ claims' = Without(claims, {e})
    /\ claim_deadlines' = Without(claim_deadlines, {e})

Aremove(w, e) == Owns(w, e) /\ Forget({e}, "consumed") /\ Unclaim(e)

\* aexpire_due, from the worker and from ahas_pending.
AexpireDue(t) ==
    /\ Forget(DueAt(unclaimed_deadlines, t) \ DOMAIN claims, "expired")
    /\ UNCHANGED <<claims, claim_deadlines>>

\* aexpire, which nothing in the package calls: it does not look at the deadline.
Aexpire(e) ==
    /\ e \in entries \ DOMAIN claims
    /\ Forget({e}, "cleared")
    /\ UNCHANGED <<claims, claim_deadlines>>

\* adelete: EventQueue.aclear, for each record it listed.
Adelete(e) == Forget({e}, "cleared") /\ Unclaim(e)

Tick ==
    /\ now < MaxTime
    /\ now' = now + 1
    /\ UNCHANGED <<tables, pending, storing, issued, ended>>

-------------------------------------------------------------------------------
Init ==
    /\ entries = {} /\ pending = <<>> /\ available_at = <<>>
    /\ unclaimed_deadlines = <<>> /\ unclaimed_remaining = <<>>
    /\ claims = <<>> /\ claim_deadlines = <<>>
    /\ now = 0 /\ lag \in Lags /\ storing = {} /\ issued = {} /\ ended = <<>>

WorkerCall(w, t) ==
    \/ /\ \E lease \in Leases \cup {NoLease}, got \in Events \cup {NoEvent} : Aclaim(w, lease, got, t)
       /\ \A e \in DOMAIN unclaimed_remaining' : unclaimed_remaining'[e] <= MaxLeft
    \/ \E e \in Events :
          \/ \E lease \in Leases : Arenew(w, e, lease, t)
          \/ \E delay \in Delays : Arelease(w, e, delay, t)
          \/ Aremove(w, e)

\* The calls of the threads that produce, consume directly, look and clear.
ThreadCall(t) ==
    \/ \E e \in Events, life \in Lifetimes : AstoreEvent(e, life, t)
    \/ \E e \in Events : Apush(e)
    \/ \E got \in Events \cup {NoEvent} : Adequeue(got, t)
    \/ AexpireDue(t)
    \/ \E e \in issued : Aexpire(e) \/ Adelete(e)

Next ==
    /\ \/ \E t \in Readings : ThreadCall(t) \/ \E w \in Workers : WorkerCall(w, t)
       \/ Tick
    /\ UNCHANGED lag

Spec == Init /\ [][Next]_vars

-------------------------------------------------------------------------------
\* Every table of the provider maps the events it should.
TypeOK ==
    /\ issued \subseteq Events /\ IsFiniteSet(issued)
    /\ entries \subseteq issued /\ storing \subseteq issued
    /\ pending \in Seq(issued)
    /\ available_at \in [DOMAIN available_at -> Nat]
    /\ unclaimed_deadlines \in [DOMAIN unclaimed_deadlines -> Nat]
    /\ unclaimed_remaining \in [DOMAIN unclaimed_remaining -> Nat \ {0}]
    /\ claims \in [DOMAIN claims -> Workers]
    /\ claim_deadlines \in [DOMAIN claim_deadlines -> Nat]
    /\ now \in Nat /\ lag \in Lags
    /\ ended \in [issued \ entries -> {"consumed", "expired", "cleared"}]

\* An event with a record is in one place: on its way to the pending FIFO, listed
\* there once, or claimed.  So no two consumers hold it, none is stranded, and a
\* claim never runs into the conflict that _aclaim guards against.
OnePlace ==
    /\ Injective(pending)
    /\ Range(pending) \cap DOMAIN claims = {}
    /\ storing \cap (Range(pending) \cup DOMAIN claims) = {}
    /\ DOMAIN claims \subseteq entries
    /\ entries \subseteq storing \cup Range(pending) \cup DOMAIN claims

\* No event is immortal and none is left behind: an unclaimed record has a
\* deadline that aexpire_due finds, a claimed one the rest of its lifetime, and
\* no table remembers an event that is gone.
LifetimeTables ==
    /\ DOMAIN unclaimed_deadlines = entries \ DOMAIN claims
    /\ DOMAIN unclaimed_remaining = DOMAIN claims
    /\ DOMAIN claim_deadlines \subseteq DOMAIN claims
    /\ DOMAIN available_at \subseteq entries \ DOMAIN claims

\* The tables of the provider agree, however late the lock is reached: every event
\* with a record is in one place from which a consumer, recovery or expiry takes it.
NoEventStranded == TypeOK /\ OnePlace /\ LifetimeTables

\* However late the lock is reached: while its lease runs, or for ever if it has
\* none, only its owner or a clear ends a claim and takes the event.
ClaimHonoured ==
    \A e \in DOMAIN claims :
        (e \in DOMAIN claim_deadlines => claim_deadlines[e] > now)
            => \/ e \in DOMAIN claims' /\ claims'[e] = claims[e] /\ e \in entries'
               \/ \E delay \in Delays, t \in Readings : Arelease(claims[e], e, delay, t)
               \/ Aremove(claims[e], e)
               \/ Adelete(e)
AlwaysClaimHonoured == [][ClaimHonoured]_vars

\* In a history whose readings are all up to date (lag = 0) the store implements
\* EventLifetime: a claim stops the lifetime, only a live event is delivered, only
\* one that has used up its lifetime is discarded, and none ends twice.  Of the
\* other histories, in which a late reading stretches a lifetime, it says nothing.
state == [e \in Events |->
    IF lag > 0 \/ e \notin issued THEN "new"
    ELSE IF e \in DOMAIN ended THEN ended[e]
    ELSE IF e \in DOMAIN claims THEN "claimed" ELSE "available"]

left == [e \in Events |->
    IF lag > 0 THEN 0
    ELSE IF e \in DOMAIN unclaimed_remaining THEN unclaimed_remaining[e]
    ELSE IF e \in DOMAIN unclaimed_deadlines THEN unclaimed_deadlines[e] - now ELSE 0]

Lifetime == INSTANCE EventLifetime
    WITH Events <- Events, Lifetimes <- Lifetimes, state <- state, left <- left
LifetimeSpec == Lifetime!Spec

===============================================================================
