---------------------------- MODULE EntryLifecycle ----------------------------
(***************************************************************************)
(* What every store of an AsyncQueue promises about the status of its      *)
(* entries: QueueEntryStatus and QueueEntryStatus.next_state of entries.py *)
(* (django_queue/entries.py).  One call of a store may move several        *)
(* entries (recovery works in batches), so a step lets every entry either  *)
(* keep its status or take one transition.                                 *)
(***************************************************************************)
CONSTANT Entries        \* the entry IDs

VARIABLE status         \* [Entries -> Statuses]

\* The statuses that a stored record can carry.
Terminal == {"succeeded", "failed", "cancelled", "timeout"}
Stored == {"queued", "running"} \cup Terminal

\* "new": not enqueued yet.  "terminated": pruned, only its last snapshot was
\* published.  "lost": the record was removed behind the queue's back.
Statuses == Stored \cup {"new", "terminated", "lost"}

\* next_state: the statuses that may follow s.
NextState(s) ==
    CASE s = "queued"   -> {"running", "failed"}
      [] s = "running"  -> {"queued"} \cup Terminal
      [] s \in Terminal -> {"terminated"}
      [] OTHER          -> {}

TypeOK == status \in [Entries -> Statuses]

Init == status = [e \in Entries |-> "new"]

\* One entry keeps its status, is enqueued, takes a transition of next_state,
\* or loses its record.
Follows(old, new) ==
    \/ new = old
    \/ old = "new" /\ new = "queued"
    \/ new \in NextState(old)
    \/ old \in Stored /\ new = "lost"

Next ==
    /\ status' \in [Entries -> Statuses]
    /\ \A e \in Entries : Follows(status[e], status'[e])

Spec == Init /\ [][Next]_status

===============================================================================
