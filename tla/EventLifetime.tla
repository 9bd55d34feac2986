----------------------------- MODULE EventLifetime -----------------------------
(***************************************************************************)
(* What a store of an EventQueue promises, whatever its provider.  An      *)
(* event is available until a worker claims it, goes back when the claim   *)
(* is released or lapses, and ends once.  Its lifetime runs down only      *)
(* while it is available; it is delivered only while some lifetime is      *)
(* left, and discarded as expired only when none is.  One call may move    *)
(* several events, so a step lets each keep its state or take one          *)
(* transition.                                                             *)
(***************************************************************************)
EXTENDS Integers

CONSTANTS Events, Lifetimes

VARIABLES
    state,      \* where each event is
    left        \* what is left of its lifetime

vars == <<state, left>>

States == {"new", "available", "claimed", "consumed", "expired", "cleared"}
Ended == {"consumed", "expired", "cleared"}

\* The states event e may be in after a step from its present one.
Follow(e) ==
    {state[e]}
    \cup (IF state[e] = "new" THEN {"available"} ELSE {})
    \cup (IF state[e] = "available" /\ left[e] > 0 THEN {"claimed", "consumed"} ELSE {})
    \cup (IF state[e] = "available" /\ left[e] <= 0 THEN {"expired"} ELSE {})
    \cup (IF state[e] = "claimed" THEN {"available", "consumed"} ELSE {})
    \cup (IF state[e] \in {"available", "claimed"} THEN {"cleared"} ELSE {})

\* What may be left of its lifetime then.
LeftAfter(e, s) ==
    IF s \in Ended THEN {0}
    ELSE IF state[e] = "new" /\ s = "available" THEN Lifetimes
    ELSE {left[e]}

Init == state = [e \in Events |-> "new"] /\ left = [e \in Events |-> 0]

Call ==
    /\ state' \in [Events -> States]
    /\ left' \in [Events -> Int]
    /\ \A e \in Events : state'[e] \in Follow(e) /\ left'[e] \in LeftAfter(e, state'[e])

\* Time passes.
Pass ==
    /\ left' = [e \in Events |-> IF state[e] = "available" THEN left[e] - 1 ELSE left[e]]
    /\ UNCHANGED state

Spec == Init /\ [][Call \/ Pass]_vars

===============================================================================
