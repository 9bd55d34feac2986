------------------------------ MODULE RedisClock ------------------------------
(***************************************************************************)
(* RedisQueueClock as QueueProviderRedis uses it on one event loop         *)
(* (clock.py; _async_clock and aclose of backends/redis/provider.py).  The *)
(* first reader of a clock fetches the offset between Redis TIME and the   *)
(* local clock and holds the lock meanwhile; later ones use the offset     *)
(* and, once it is old, start one background task that fetches a new one.  *)
(* aclose takes the clock out of the table and cancels its task, while     *)
(* readers that already have the clock go on and others make a new one.    *)
(* The offset itself is left out: a clock is calibrated or not.            *)
(***************************************************************************)
EXTENDS Integers

CONSTANTS
    Readers,        \* the tasks of the loop that read the time
    Clocks,         \* 1 .. n: the clocks that are made, one after the other
    Interval        \* refresh_interval

ASSUME ClockConstantsOK ==
    /\ Clocks \subseteq Nat \ {0}
    /\ Interval \in Nat \ {0}

VARIABLES
    current,        \* _clocks_by_loop: the clock of the loop, 0 for none
    clock,          \* the attributes and the background task of each clock
    reader,         \* each reader: where it is and with which clock
    inside          \* history: clocks that were closed with a reader in them

clockvars == <<current, clock, reader, inside>>

\* task: "none", "reading", "storing" or "clearing"; closer: "open", "awaiting" the
\* cancelled task, "finishing" once that has ended, "closed".
Fresh == [calibrated |-> FALSE, since |-> Interval, refreshing |-> FALSE,
          task |-> "none", closer |-> "open"]

ReaderAt(r, where, c) == reader[r] = [at |-> where, clock |-> c]
Locked(c) == \E r \in Readers : ReaderAt(r, "calibrating", c)
Leave(r) == reader' = [reader EXCEPT ![r] = [at |-> "idle", clock |-> 0]]
NeedsRefresh(c) == clock[c].since >= Interval

\* _async_clock, which makes the loop's clock if there is none; then anow waits
\* for _async_lock.
Anow(r) ==
    /\ reader[r].at = "idle"
    /\ \E c \in Clocks :
          /\ IF current # 0 THEN c = current
             ELSE clock[c] = Fresh /\ \A d \in Clocks : d < c => clock[d].closer # "open"
          /\ current' = c
          /\ reader' = [reader EXCEPT ![r] = [at |-> "waiting", clock |-> c]]
    /\ UNCHANGED <<clock, inside>>

StartsRefresh(c) == NeedsRefresh(c) /\ ~clock[c].refreshing

\* It gets the lock.  A calibrated clock answers at once, and starts a refresh
\* when one is due and none is running.
Enter(r, c) ==
    /\ ReaderAt(r, "waiting", c) /\ ~Locked(c)
    /\ IF ~clock[c].calibrated
       THEN /\ reader' = [reader EXCEPT ![r].at = "calibrating"]
            /\ UNCHANGED clock
       ELSE /\ Leave(r)
            /\ clock' = IF StartsRefresh(c)
                        THEN [clock EXCEPT ![c].refreshing = TRUE, ![c].since = 0,
                                           ![c].task = "reading"]
                        ELSE clock
    /\ UNCHANGED <<current, inside>>

\* The first calibration answers (_set_calibration); or Redis fails, or the clocks
\* are too far apart, and the caller gets the error.
Calibrates(r, c) ==
    /\ ReaderAt(r, "calibrating", c)
    /\ Leave(r)
    /\ clock' \in {clock, [clock EXCEPT ![c].calibrated = TRUE, ![c].since = 0]}
    /\ UNCHANGED <<current, inside>>

\* _arefresh_in_background: Redis answers, or the call fails.
Read(c) ==
    /\ clock[c].task = "reading"
    /\ clock' \in {[clock EXCEPT ![c].task = "storing"],
                   [clock EXCEPT ![c].task = "clearing"]}
    /\ UNCHANGED <<current, reader, inside>>

Store(c) ==
    /\ clock[c].task = "storing" /\ ~Locked(c)
    /\ clock' = [clock EXCEPT ![c].since = 0, ![c].task = "clearing"]
    /\ UNCHANGED <<current, reader, inside>>

\* Its finally clause.
\* Mutant of Clear: the task ends without it.
ClearForgotten(c) ==
    /\ clock[c].task = "clearing" /\ ~Locked(c)
    /\ clock' = [clock EXCEPT ![c].task = "none",
                              ![c].closer = IF @ = "awaiting" THEN "finishing" ELSE @]
    /\ UNCHANGED <<current, reader, inside>>

Clear(c) ==
    /\ clock[c].task = "clearing" /\ ~Locked(c)
    /\ clock' = [clock EXCEPT ![c].task = "none", ![c].refreshing = FALSE,
                              ![c].closer = IF @ = "awaiting" THEN "finishing" ELSE @]
    /\ UNCHANGED <<current, reader, inside>>

\* QueueProviderRedis.aclose takes the clock out of the table, and the clock's
\* aclose cancels the task: in a call or at the lock it goes on to its finally;
\* not yet started, or waiting for the lock there, it ends at once.
Aclose(c) ==
    /\ c = current
    /\ current' = 0
    /\ inside' = inside \cup {d \in {c} : \E r \in Readers : reader[r].clock = d}
    /\ LET cancelled == [clock EXCEPT ![c].closer = "awaiting", ![c].task = "clearing"]
           ended == [clock EXCEPT ![c].closer = "finishing", ![c].task = "none"]
       IN clock' \in
          CASE clock[c].task = "none"    -> {[clock EXCEPT ![c].closer = "closed"]}
            [] clock[c].task = "reading" -> {cancelled, ended}
            [] clock[c].task = "storing" -> {cancelled}
            [] OTHER                     -> {ended}
    /\ UNCHANGED reader

\* The finally clause of the clock's aclose; a refresh that a late reader has
\* started since is left alone.
Closed(c) ==
    /\ clock[c].closer = "finishing" /\ ~Locked(c)
    /\ clock' = [clock EXCEPT ![c].closer = "closed", ![c].refreshing = clock[c].task # "none"]
    /\ UNCHANGED <<current, reader, inside>>

\* Time passes.
ClockTick ==
    /\ \E c \in Clocks : clock[c].since < Interval
    /\ clock' = [c \in Clocks |->
          [clock[c] EXCEPT !.since = IF @ < Interval THEN @ + 1 ELSE @]]
    /\ UNCHANGED <<current, reader, inside>>

-------------------------------------------------------------------------------
ClockInit ==
    /\ current = 0 /\ inside = {}
    /\ clock = [c \in Clocks |-> Fresh]
    /\ reader = [r \in Readers |-> [at |-> "idle", clock |-> 0]]

ReaderStep(r) == \E c \in Clocks : Enter(r, c) \/ Calibrates(r, c)
TaskStep(c) == Read(c) \/ Store(c) \/ Clear(c)

ClockNext ==
    \/ \E r \in Readers : Anow(r) \/ ReaderStep(r)
    \/ \E c \in Clocks : TaskStep(c) \/ Aclose(c) \/ Closed(c)
    \/ ClockTick

ClockTypeOK ==
    /\ current \in Clocks \cup {0}
    /\ clock \in [Clocks -> [calibrated : BOOLEAN, since : 0 .. Interval, refreshing : BOOLEAN,
                             task : {"none", "reading", "storing", "clearing"},
                             closer : {"open", "awaiting", "finishing", "closed"}]]

\* A refresh that failed or was cancelled cannot stop a clock from refreshing: the
\* flag is up exactly while a refresh is under way, or aclose is about to lower it.
\* And no refresh outlives its clock, unless a reader that held the clock when it
\* was closed has started it.
FlagMeansRefresh ==
    /\ ClockTypeOK
    /\ \A c \in Clocks :
          /\ clock[c].task # "none" => clock[c].refreshing
          /\ clock[c].refreshing => clock[c].task # "none" \/ clock[c].closer = "finishing"
          /\ clock[c].closer = "closed" /\ c \notin inside => clock[c].task = "none"

===============================================================================
