------------------------------- MODULE Runqueues -------------------------------
(***************************************************************************)
(* The runqueues command (management/commands/runqueues.py): one task per  *)
(* queue with a handler, which waits for work and then runs the queue's    *)
(* worker, and the supervisor that watches the tasks and a shutdown event. *)
(* A step of the supervisor runs from one await to the next.               *)
(***************************************************************************)
EXTENDS Integers, FiniteSets

CONSTANTS
    Handled,            \* the aliases with a HANDLER
    MaxInterrupts,      \* bound: cancellations of the command's main task
    MaxSwallowed        \* bound: cancellations a worker swallows

ASSUME RunqueuesConstantsOK ==
    /\ IsFiniteSet(Handled) /\ Handled # {}
    /\ MaxInterrupts \in Nat /\ MaxSwallowed \in Nat

VARIABLES
    work,           \* the queues for which ahas_pending has held
    activation,           \* each task: see TaskStates
    supervised,     \* the keys of tasks: those _supervise_workers has not popped
    shutdown,       \* shutdown_task: no signal yet, its event set, done
    supervisor,     \* wait, gather, aclose, exited: the await it is at
    status,         \* how the command is going to end
    disposed,       \* the queues whose aclose has run
    interrupts,     \* cancellations of the main task
    swallowed       \* cancellations that a worker has not obeyed

commandvars == <<work, activation, supervised, shutdown, supervisor, status, disposed, interrupts, swallowed>>
rest == <<supervised, shutdown, supervisor, status, disposed, interrupts>>

\* A task waits for work, runs its worker, and may be asked to stop in either.
TaskStates == {"waiting", "working", "waiting, cancelled", "working, cancelled", "ended"}
Cancelled == {a \in Handled : activation[a] \in {"waiting, cancelled", "working, cancelled"}}
Ended == {a \in Handled : activation[a] = "ended"}

\* Task.cancel on each task of a set.
Cancel(S) == [a \in Handled |->
    IF a \notin S THEN activation[a]
    ELSE CASE activation[a] = "waiting" -> "waiting, cancelled"
           [] activation[a] = "working" -> "working, cancelled"
           [] OTHER -> activation[a]]

\* _activate_worker polls until there is work, then runs the worker.
WorkArrives(a) ==
    /\ a \notin work
    /\ work' = work \cup {a}
    /\ UNCHANGED <<activation, swallowed, rest>>

ActivateWorker(a) ==
    /\ activation[a] = "waiting" /\ a \in work
    /\ activation' = [activation EXCEPT ![a] = "working"]
    /\ UNCHANGED <<work, swallowed, rest>>

\* A task ends by itself: ahas_pending or the worker's run raises or returns.
TaskFails(a) ==
    /\ activation[a] \in {"waiting", "working"}
    /\ activation' = [activation EXCEPT ![a] = "ended"]
    /\ UNCHANGED <<work, swallowed, rest>>

\* A cancelled task comes to its end.
TaskStops(a) ==
    /\ a \in Cancelled
    /\ activation' = [activation EXCEPT ![a] = "ended"]
    /\ UNCHANGED <<work, swallowed, rest>>

\* A worker that is cancelled while it awaits its renewal task suppresses the
\* CancelledError as if it were the renewal's, and works on.
WorkerSwallows(a) ==
    /\ swallowed < MaxSwallowed /\ activation[a] = "working, cancelled"
    /\ activation' = [activation EXCEPT ![a] = "working"]
    /\ swallowed' = swallowed + 1
    /\ UNCHANGED <<work, rest>>

\* SIGINT or SIGTERM, while the supervisor's handlers are installed, and the task
\* that waits for the event they set.
Signal ==
    /\ supervisor = "wait" /\ shutdown = "no"
    /\ shutdown' = "set"
    /\ UNCHANGED <<work, activation, supervised, supervisor, status, disposed, interrupts, swallowed>>

ShutdownTaskEnds ==
    /\ supervisor = "wait" /\ shutdown = "set"
    /\ shutdown' = "done"
    /\ UNCHANGED <<work, activation, supervised, supervisor, status, disposed, interrupts, swallowed>>

\* The finally clause up to its first await.
CleanUp(left, how) ==
    /\ supervisor' = "gather" /\ status' = how
    /\ activation' = Cancel(left)

\* The loop of _supervise_workers, each time asyncio.wait returns: a shutdown
\* ends it; the tasks that ended are popped, and the last one's error raised.
\* Mutant of Supervise: the wait is for all.
SuperviseAll ==
    /\ supervisor = "wait" /\ shutdown = "done" /\ supervised \subseteq Ended
    /\ CleanUp(supervised, "ok")
    /\ UNCHANGED <<work, supervised, shutdown, disposed, interrupts, swallowed>>

Supervise ==
    /\ supervisor = "wait"
    /\ \/ shutdown = "done" /\ CleanUp(supervised, "ok") /\ UNCHANGED supervised
       \/ /\ shutdown # "done" /\ supervised \cap Ended # {}
          /\ supervised' = supervised \ Ended
          /\ IF supervised' = {} THEN CleanUp({}, "error")
             ELSE UNCHANGED <<activation, supervisor, status>>
    /\ UNCHANGED <<work, shutdown, disposed, interrupts, swallowed>>

\* The gather of the cancelled tasks returns.  If the main task was cancelled
\* while it waited there, that ends the command now.
\* Mutant of Gathered: the tasks are not awaited.
GatheredEarly ==
    /\ supervisor = "gather"
    /\ supervisor' = IF status = "interrupted" THEN "exited" ELSE "aclose"
    /\ UNCHANGED <<work, activation, supervised, shutdown, status, disposed, interrupts, swallowed>>

Gathered ==
    /\ supervisor = "gather" /\ supervised \subseteq Ended
    /\ supervisor' = IF status = "interrupted" THEN "exited" ELSE "aclose"
    /\ UNCHANGED <<work, activation, supervised, shutdown, status, disposed, interrupts, swallowed>>

\* aclose of one queue, failing or not; the gather of all of them ends the command.
Aclose(a) ==
    /\ supervisor = "aclose" /\ a \notin disposed
    /\ disposed' = disposed \cup {a}
    /\ supervisor' = IF disposed' = Handled THEN "exited" ELSE "aclose"
    /\ UNCHANGED <<work, activation, supervised, shutdown, status, interrupts, swallowed>>

\* The main task is cancelled.  The awaits of the finally clause are not shielded:
\* the first gather cancels its tasks again and ends the command once they have
\* ended, the second gives up the queues that are not closed.
Interrupt ==
    /\ interrupts < MaxInterrupts
    /\ interrupts' = interrupts + 1
    /\ \/ supervisor = "wait" /\ CleanUp(supervised, "cancelled")
       \/ supervisor = "gather" /\ CleanUp(supervised, "interrupted")
       \/ /\ supervisor = "aclose"
          /\ supervisor' = "exited" /\ status' = "interrupted" /\ UNCHANGED activation
    /\ UNCHANGED <<work, supervised, shutdown, disposed, swallowed>>

-------------------------------------------------------------------------------
\* _run_configured_workers: one task per activation, and then the supervisor.
CommandInit ==
    /\ work = {} /\ activation = [a \in Handled |-> "waiting"] /\ supervised = Handled
    /\ shutdown = "no" /\ supervisor = "wait" /\ status = "none"
    /\ disposed = {} /\ interrupts = 0 /\ swallowed = 0

Steps == ShutdownTaskEnds \/ Supervise \/ Gathered \/ \E a \in Handled : Aclose(a)
CommandNext ==
    \/ Steps \/ Signal \/ Interrupt
    \/ \E a \in Handled :
          WorkArrives(a) \/ ActivateWorker(a) \/ TaskFails(a) \/ TaskStops(a) \/ WorkerSwallows(a)

CommandSpec == CommandInit /\ [][CommandNext]_commandvars

\* The event loop runs what is ready, and delivers a cancellation.
CommandFairSpec == CommandSpec /\ WF_commandvars(Steps) /\ \A a \in Handled : WF_commandvars(TaskStops(a))

-------------------------------------------------------------------------------
\* The variables have their shapes.
CommandTypeOK ==
    /\ work \subseteq Handled /\ supervised \subseteq Handled /\ disposed \subseteq Handled
    /\ activation \in [Handled -> TaskStates]
    /\ shutdown \in {"no", "set", "done"}
    /\ supervisor \in {"wait", "gather", "aclose", "exited"}
    /\ status \in {"none", "ok", "error", "cancelled", "interrupted"}
    /\ interrupts \in 0 .. MaxInterrupts /\ swallowed \in 0 .. MaxSwallowed

\* The failure of some workers never stops the others (_supervise_workers):
\* a worker is cancelled only after a signal or a cancellation of the command,
\* however failures and signals coincide.
HealthyWorkersRunOn == Cancelled # {} => shutdown = "done" \/ interrupts > 0

\* A queue is disposed of (the finally clause) only when no worker is left that
\* could be using it, popped from the supervised ones or not.
DisposedIsIdle == disposed # {} => Ended = Handled

\* The command ends only when every worker has ended; it has disposed of every
\* queue unless it was cancelled while cleaning up; it ends without an error
\* only because of a signal, never because its workers are gone.
ExitIsClean ==
    supervisor = "exited" =>
        /\ Ended = Handled
        /\ status # "interrupted" => disposed = Handled
        /\ status = "ok" => shutdown = "done"

\* Workers are stopped for a reason, their queues are closed after them, and the
\* command's exit tells the truth about them.
CleanSupervision == CommandTypeOK /\ HealthyWorkersRunOn /\ DisposedIsIdle /\ ExitIsClean

\* The command ends when every worker has failed (raise error in the loop), and
\* when a signal comes, unless a worker swallows its cancellation.
CommandEnds ==
    /\ (Ended = Handled) ~> supervisor = "exited"
    /\ (shutdown # "no") ~> (supervisor = "exited" \/ swallowed > 0)

===============================================================================
