------------------------------ MODULE QueueRuntime ------------------------------
(***************************************************************************)
(* QueueRuntime (queue_runtime.py): one background thread whose asyncio    *)
(* loop hosts a task per alias.  Any thread may call start_thread,         *)
(* start_one, stop_one and shutdown.  They reach the loop only through     *)
(* call_soon_threadsafe, whose callbacks run in the order of their calls.  *)
(* An action of a caller is a critical section or the call after it; an    *)
(* action of the loop is a callback or a step of a task.                   *)
(***************************************************************************)
EXTENDS Integers, Sequences, FiniteSets

CONSTANTS
    Aliases,        \* the aliases of QUEUES
    ObserverAliases,      \* those whose task ends when it fails (observer receivers)
    EventAliases,   \* those whose task is the worker of an event queue
    Callers,        \* the threads that use the runtime
    MaxCalls,       \* bound: calls that each makes
    NoTask          \* no task

ASSUME RuntimeConstantsOK ==
    /\ ObserverAliases \subseteq Aliases /\ EventAliases \subseteq Aliases
    /\ MaxCalls \in Nat /\ NoTask \notin Nat \ {0}

VARIABLES
    closed,         \* _closed
    loop,           \* _loop and what its thread does with it; none and gone: None
    thread,         \* _thread: none, starting, running, gone
    tasks,          \* _tasks: the task registered for an alias
    task,           \* every task so far: its alias, its state, the calls that await it
    drained,        \* _run_loop's pending: the tasks that it cancels and awaits
    callbacks,      \* the callbacks of the loop, in order
    caller          \* each calling thread's place in its code, locals and last result

runtimevars == <<closed, loop, thread, tasks, task, drained, callbacks, caller>>

\* The loop runs; the loop takes callbacks (nobody runs a broken one).
Runs == loop \in {"running", "stopping", "draining"}
Accepts == Runs \/ loop = "broken"
HasLoop == loop \notin {"none", "gone"}

Unfinished(a) == {id \in DOMAIN task : task[id].alias = a /\ task[id].state # "ended"}

CallerAt(c, where) == caller[c].pc = where
Return(c, result) == caller' = [caller EXCEPT ![c].pc = "idle", ![c].result = result]

\* Thread c makes a call, of a task or of none, and goes on at where.
Begin(c, where, id, result) ==
    /\ CallerAt(c, "idle") /\ caller[c].calls < MaxCalls
    /\ caller' = [caller EXCEPT ![c] = [pc |-> where, calls |-> @.calls + 1, id |-> id,
                                        saw_loop |-> HasLoop, result |-> result]]

-------------------------------------------------------------------------------
\* start_thread; _ready is set when _run_loop has set _loop.
StartThread(c) ==
    /\ Begin(c, IF closed THEN "idle" ELSE "wait_ready", NoTask, "none")
    /\ thread' = IF ~closed /\ thread = "none" THEN "starting" ELSE thread
    /\ UNCHANGED <<closed, loop, tasks, task, drained, callbacks>>

WaitReady(c) ==
    /\ CallerAt(c, "wait_ready") /\ loop # "none"
    /\ Return(c, "started")
    /\ UNCHANGED <<closed, loop, thread, tasks, task, drained, callbacks>>

\* start_one: a callback on the loop, if there is one.  (closed never becomes
\* FALSE again, so its first look at closed adds nothing to the second.)  The
\* callback remembers how many tasks there were, if none of the alias was left.
StartOne(c, a) ==
    /\ Begin(c, "idle", NoTask, "none")
    /\ callbacks' = IF closed \/ ~HasLoop THEN callbacks
                    ELSE Append(callbacks, [what |-> "start", alias |-> a,
                          after |-> IF Unfinished(a) = {} THEN Len(task) ELSE NoTask])
    /\ UNCHANGED <<closed, loop, thread, tasks, task, drained>>

\* stop_one: reads the loop and the task under the lock ...
StopOne(c, a) ==
    /\ IF HasLoop /\ a \in DOMAIN tasks
       THEN Begin(c, "submit_cancel", tasks[a], "none")
       ELSE Begin(c, "idle", NoTask, "none")
    /\ UNCHANGED <<closed, loop, thread, tasks, task, drained, callbacks>>

\* ... submits _cancel_and_wait, which a closed loop refuses ...
ThisCall(c) == [by |-> c, call |-> caller[c].calls]
SubmitCancel(c) ==
    /\ CallerAt(c, "submit_cancel")
    /\ IF Accepts
       THEN /\ caller' = [caller EXCEPT ![c].pc = "wait_cancel"]
            /\ callbacks' = Append(callbacks,
                  [what |-> "cancel", id |-> caller[c].id, waiter |-> ThisCall(c)])
       ELSE Return(c, "raised") /\ UNCHANGED callbacks
    /\ UNCHANGED <<closed, loop, thread, tasks, task, drained>>

\* ... and waits for its end, at most for the timeout.
StopTimesOut(c) ==
    /\ CallerAt(c, "wait_cancel")
    /\ Return(c, "timeout")
    /\ UNCHANGED <<closed, loop, thread, tasks, task, drained, callbacks>>

\* shutdown: sets closed and reads the loop and the thread under the lock ...
Shutdown(c) ==
    /\ closed' = TRUE
    /\ IF HasLoop THEN Begin(c, "submit_stop", NoTask, "none")
       ELSE IF thread = "starting" THEN Begin(c, "join", NoTask, "none")
       ELSE Begin(c, "idle", NoTask, "shut")
    /\ UNCHANGED <<loop, thread, tasks, task, drained, callbacks>>

\* ... stops the loop, if it saw one, and joins the thread.
SubmitStop(c) ==
    /\ CallerAt(c, "submit_stop")
    /\ IF Accepts
       THEN /\ caller' = [caller EXCEPT ![c].pc = "join"]
            /\ callbacks' = Append(callbacks, [what |-> "stop"])
       ELSE Return(c, "raised") /\ UNCHANGED callbacks
    /\ UNCHANGED <<closed, loop, thread, tasks, task, drained>>

Join(c) ==
    /\ CallerAt(c, "join") /\ thread = "gone"
    /\ Return(c, "shut")
    /\ UNCHANGED <<closed, loop, thread, tasks, task, drained, callbacks>>

-------------------------------------------------------------------------------
\* _run_loop, up to run_forever.
RunLoop ==
    /\ thread = "starting"
    /\ thread' = "running" /\ loop' = "running"
    /\ UNCHANGED <<closed, tasks, task, drained, callbacks, caller>>

Created(a) ==
    /\ task' = Append(task, [alias |-> a, state |-> "running", waiters |-> <<>>])
    /\ tasks' = [x \in DOMAIN tasks \cup {a} |-> IF x = a THEN Len(task) + 1 ELSE tasks[x]]

\* Mutant of StartTask: a registered task is not looked at.
StartTaskTwice(a) == IF closed THEN UNCHANGED <<tasks, task>> ELSE Created(a)

\* _start_worker, _start_notification_receiver, _start_receiver
StartTask(a) ==
    IF closed \/ a \in DOMAIN tasks THEN UNCHANGED <<tasks, task>> ELSE Created(a)

\* Mutant of Done: the task stays registered.
DoneKeeps(a) == tasks' = tasks

\* _worker_done, _notification_receiver_done, _receiver_done: the alias is free.
Done(a) == tasks' = [x \in DOMAIN tasks \ {a} |-> tasks[x]]

\* _cancel_and_wait: a task that has ended cannot be cancelled, nor awaited long.
CancelAndWait(id, waiter) ==
    IF task[id].state = "ended"
    THEN /\ callbacks' = Append(Tail(callbacks), [what |-> "wake", waiter |-> waiter])
         /\ UNCHANGED task
    ELSE /\ callbacks' = Tail(callbacks)
         /\ task' = [task EXCEPT ![id].state = "cancelling",
                                 ![id].waiters = Append(task[id].waiters, waiter)]

\* What the next callback of the loop does.  While the loop is draining, a
\* result of _cancel_and_wait may be its own cancellation, and another stop ends
\* the run_until_complete that awaits the tasks or the queues' aclose: it raises
\* out of _run_loop, and nothing is cleared.
Callback ==
    /\ Runs /\ callbacks # <<>>
    /\ LET callback == Head(callbacks) IN
       \/ /\ callback.what = "start"
          /\ StartTask(callback.alias)
          /\ callbacks' = Tail(callbacks)
          /\ UNCHANGED <<loop, thread, caller>>
       \/ /\ callback.what = "done"
          /\ Done(callback.alias)
          /\ callbacks' = Tail(callbacks)
          /\ UNCHANGED <<loop, thread, task, caller>>
       \/ /\ callback.what = "cancel"
          /\ CancelAndWait(callback.id, callback.waiter)
          /\ UNCHANGED <<loop, thread, tasks, caller>>
       \/ /\ callback.what = "wake"
          /\ LET c == callback.waiter.by IN
             IF CallerAt(c, "wait_cancel") /\ callback.waiter = ThisCall(c)
             THEN Return(c, "stopped") \/ (loop = "draining" /\ Return(c, "raised"))
             ELSE UNCHANGED caller
          /\ callbacks' = Tail(callbacks)
          /\ UNCHANGED <<loop, thread, tasks, task>>
       \/ /\ callback.what = "stop"
          /\ \/ loop # "draining" /\ loop' = "stopping" /\ UNCHANGED thread
             \/ loop = "draining" /\ loop' = "broken" /\ thread' = "gone"
          /\ callbacks' = Tail(callbacks)
          /\ UNCHANGED <<tasks, task, caller>>
    /\ UNCHANGED <<closed, drained>>

\* A task ends: its callbacks are scheduled in the order they were added, first
\* the one that frees the alias, then those of the calls that await it.
End(id) ==
    /\ task' = [task EXCEPT ![id].state = "ended"]
    /\ callbacks' = Append(callbacks, [what |-> "done", alias |-> task[id].alias])
          \o [i \in DOMAIN task[id].waiters |-> [what |-> "wake", waiter |-> task[id].waiters[i]]]
    /\ UNCHANGED <<closed, loop, thread, tasks, drained, caller>>

\* A cancelled task is done cleaning up.  The receiver of an observed queue ends
\* when it fails; the other tasks go round in _run_worker.
TaskEnds(id) == Runs /\ task[id].state = "cancelling" /\ End(id)
ReceiverFails(id) ==
    Runs /\ task[id].state = "running" /\ task[id].alias \in ObserverAliases /\ End(id)

\* _dispatch of an event worker suppresses a cancellation that comes while its
\* finally clause awaits the renewal task: "deaf", the worker goes on as before.
SuppressesCancel(id) ==
    /\ Runs /\ task[id].state = "cancelling" /\ task[id].alias \in EventAliases
    /\ task' = [task EXCEPT ![id].state = "deaf"]
    /\ UNCHANGED <<closed, loop, thread, tasks, drained, callbacks, caller>>

\* Mutant of Drain: the tasks are not cancelled.
DrainOnly ==
    /\ loop = "stopping"
    /\ loop' = "draining"
    /\ drained' = {id \in DOMAIN task : task[id].state # "ended"}
    /\ UNCHANGED <<closed, thread, tasks, task, callbacks, caller>>

\* _run_loop after run_forever: cancels all tasks, once ...
Drain ==
    /\ loop = "stopping"
    /\ loop' = "draining"
    /\ drained' = {id \in DOMAIN task : task[id].state # "ended"}
    /\ task' = [id \in DOMAIN task |->
          [task[id] EXCEPT !.state = IF @ = "ended" THEN @ ELSE "cancelling"]]
    /\ UNCHANGED <<closed, thread, tasks, callbacks, caller>>

\* ... awaits them and then the aclose of every queue, and closes the loop ...
CloseLoop ==
    /\ loop = "draining"
    /\ \A id \in drained : task[id].state = "ended"
    /\ \A i \in DOMAIN callbacks : callbacks[i].what # "done"
    /\ loop' = "closed"
    /\ UNCHANGED <<closed, thread, tasks, task, drained, callbacks, caller>>

\* ... and clears everything under the lock.
Clear ==
    /\ loop = "closed"
    /\ loop' = "gone" /\ thread' = "gone" /\ tasks' = <<>>
    /\ UNCHANGED <<closed, task, drained, callbacks, caller>>

-------------------------------------------------------------------------------
RuntimeInit ==
    /\ closed = FALSE /\ loop = "none" /\ thread = "none"
    /\ tasks = <<>> /\ task = <<>> /\ drained = {} /\ callbacks = <<>>
    /\ caller = [c \in Callers |-> [pc |-> "idle", calls |-> 0, id |-> NoTask,
                                    saw_loop |-> FALSE, result |-> "none"]]

GoesOn(c) == WaitReady(c) \/ SubmitCancel(c) \/ SubmitStop(c) \/ Join(c)
Call(c) ==
    \/ StartThread(c) \/ Shutdown(c) \/ StopTimesOut(c)
    \/ \E a \in Aliases : StartOne(c, a) \/ StopOne(c, a)
LoopStep == RunLoop \/ Callback \/ Drain \/ CloseLoop \/ Clear

RuntimeNext ==
    \/ \E c \in Callers : Call(c) \/ GoesOn(c)
    \/ LoopStep
    \/ \E id \in DOMAIN task : TaskEnds(id) \/ SuppressesCancel(id) \/ ReceiverFails(id)

RuntimeSpec == RuntimeInit /\ [][RuntimeNext]_runtimevars

\* Every thread is scheduled, and a cancelled task ends or suppresses it.
Ending == \E id \in DOMAIN task : TaskEnds(id) \/ SuppressesCancel(id)
RuntimeFairSpec ==
    /\ RuntimeSpec
    /\ \A c \in Callers : WF_runtimevars(GoesOn(c))
    /\ WF_runtimevars(LoopStep) /\ WF_runtimevars(Ending)

-------------------------------------------------------------------------------
\* The variables have their shapes.
RuntimeTypeOK ==
    /\ closed \in BOOLEAN
    /\ loop \in {"none", "running", "stopping", "draining", "broken", "closed", "gone"}
    /\ thread \in {"none", "starting", "running", "gone"}
    /\ DOMAIN tasks \subseteq Aliases /\ \A a \in DOMAIN tasks : tasks[a] \in DOMAIN task
    /\ \A id \in DOMAIN task :
          /\ task[id].alias \in Aliases
          /\ task[id].state \in {"running", "cancelling", "deaf", "ended"}
    /\ drained \subseteq DOMAIN task
    /\ \A c \in Callers : caller[c].calls \in 0 .. MaxCalls

\* An alias has one unfinished task at most, and that task is the registered one:
\* whatever callers start and stop, no queue gets two workers in this process and
\* none runs out of reach of stop_one.
OneTaskPerAlias ==
    Runs => \A id \in DOMAIN task : task[id].state # "ended" =>
        task[id].alias \in DOMAIN tasks /\ tasks[task[id].alias] = id

\* When stop_one returns, its task has really ended and has freed its alias, so
\* that the next start_one of the caller is not dropped.
StopIsComplete ==
    \A c \in Callers : caller[c].result = "stopped" =>
        LET id == caller[c].id IN
        task[id].state = "ended" /\ \A a \in DOMAIN tasks : tasks[a] # id

\* A start that is called when every task of the alias has ended is not lost:
\* the ended task frees the alias before the start's callback runs, or another
\* start was quicker (_receiver_done: a later registration starts a fresh one).
RestartIsNotLost ==
    [][LET callback == Head(callbacks) IN
        (/\ callbacks # <<>> /\ callback.what = "start" /\ callbacks' = Tail(callbacks)
         /\ callback.after # NoTask /\ ~closed)
            => \E id \in DOMAIN task' : id > callback.after /\ task'[id].alias = callback.alias]_runtimevars

\* The thread leaves no task behind when it clears its state: the drain caught
\* them all, those that stop_one was cancelling too, and none starts after it.
\* (A second shutdown may stop the loop inside the drain; the thread then dies
\* of the exception, "broken", before it gets here.)
NothingLeftBehind ==
    loop = "gone" => \A id \in DOMAIN task : task[id].state = "ended"

\* No task is out of reach of the runtime, while its loop runs and after, nor of
\* the caller that stopped it.
NoStrayTask == RuntimeTypeOK /\ OneTaskPerAlias /\ StopIsComplete /\ NothingLeftBehind

\* A shutdown that found the loop returns, unless an event worker suppresses the
\* cancellation of the drain, which waits for it then.  (One that comes between the
\* start of the thread and the creation of its loop joins a thread that nobody stops.)
ShutdownOfLoopReturns ==
    \A c \in Callers :
        CallerAt(c, "join") /\ caller[c].saw_loop
            ~> CallerAt(c, "idle") \/ \E id \in drained : task[id].state = "deaf"

===============================================================================
