---------------------------- MODULE Process_proofs ----------------------------
(***************************************************************************)
(* What runs in one process, for every instance: the supervisor of         *)
(* runqueues (Runqueues.tla) and the background tasks of the runtime       *)
(* (QueueRuntime.tla).                                                     *)
(***************************************************************************)
EXTENDS Runqueues, QueueRuntime, TLAPS

\* What CleanSupervision rests on: a task that was popped has ended; nothing is
\* closed before the tasks are gathered; and a command that ends regularly has
\* closed everything.
RInv ==
    /\ CommandTypeOK
    /\ HealthyWorkersRunOn
    /\ Handled \ supervised \subseteq Ended
    /\ supervisor \in {"wait", "gather"} => disposed = {}
    /\ supervisor \in {"aclose", "exited"} => Ended = Handled
    /\ supervisor = "exited" /\ status # "interrupted" => disposed = Handled
    /\ status = "ok" => shutdown = "done"

LEMMA RInitInv == CommandInit => RInv
<1> SUFFICES ASSUME CommandInit PROVE RInv
  BY Zenon
<1>1. CommandTypeOK
  BY RunqueuesConstantsOK DEF CommandInit, CommandTypeOK, TaskStates
<1>2. Cancelled = {}
  BY Zenon DEF CommandInit, Cancelled
<1> QED BY <1>1, <1>2, Zenon DEF CommandInit, RInv, HealthyWorkersRunOn

\* Task.cancel keeps a task that has ended, and only cancels.
LEMMA CancelIs ==
    ASSUME CommandTypeOK, NEW S \in SUBSET Handled, activation' = Cancel(S)
    PROVE  activation' \in [Handled -> TaskStates] /\ Ended' = Ended
BY Zenon DEF CommandTypeOK, Cancel, TaskStates, Ended

\* The steps of a task, which move nothing but it.
LEMMA TaskStep ==
    ASSUME RInv, NEW a \in Handled, NEW s \in TaskStates, UNCHANGED <<work, rest>>,
           activation' = [activation EXCEPT ![a] = s], activation[a] # "ended",
           s \in {"waiting, cancelled", "working, cancelled"} => a \in Cancelled,
           swallowed' \in 0 .. MaxSwallowed
    PROVE  RInv'
<1>1. CommandTypeOK /\ CommandTypeOK'
  BY Zenon DEF RInv, CommandTypeOK, rest
<1>2. Ended \subseteq Ended' /\ Ended' \subseteq Handled
  BY <1>1, Zenon DEF CommandTypeOK, Ended
<1>3. Cancelled' \subseteq Cancelled
  BY <1>1, Zenon DEF CommandTypeOK, Cancelled
<1> QED BY <1>1, <1>2, <1>3, Zenon DEF RInv, HealthyWorkersRunOn, rest

\* The steps of the finally clause's beginning.
LEMMA CleanUpStep ==
    ASSUME RInv, NEW left \in SUBSET supervised, NEW how \in {"ok", "error", "cancelled", "interrupted"},
           CleanUp(left, how), supervisor \in {"wait", "gather"},
           supervised' \subseteq supervised, supervised \ supervised' \subseteq Ended,
           left # {} => shutdown = "done" \/ interrupts' > 0,
           how = "ok" => shutdown = "done", interrupts <= interrupts',
           interrupts' \in 0 .. MaxInterrupts, UNCHANGED <<work, shutdown, disposed, swallowed>>
    PROVE  RInv'
<1>1. CommandTypeOK /\ left \subseteq Handled
  BY Zenon DEF RInv, CommandTypeOK
<1>2. activation' \in [Handled -> TaskStates] /\ Ended' = Ended
  BY <1>1, CancelIs, Zenon DEF CleanUp
<1>3. CommandTypeOK'
  BY <1>1, <1>2, Zenon DEF CommandTypeOK, CleanUp
<1>4. left = {} => Cancelled' = Cancelled
  BY <1>1, Zenon DEF CleanUp, Cancel, Cancelled
<1>5. HealthyWorkersRunOn'
  BY <1>1, <1>4 DEF RInv, HealthyWorkersRunOn, CommandTypeOK
<1> QED BY <1>2, <1>3, <1>5, Zenon DEF RInv, CleanUp, Ended

LEMMA RNextInv == RInv /\ [CommandNext]_commandvars => RInv'
<1> SUFFICES ASSUME RInv, [CommandNext]_commandvars PROVE RInv'
  BY Zenon
<1>0. CommandTypeOK
  BY Zenon DEF RInv
<1>1. ASSUME UNCHANGED <<activation, supervised>> PROVE Ended' = Ended /\ Cancelled' = Cancelled
  BY <1>1, Zenon DEF Ended, Cancelled
<1>2. CASE UNCHANGED commandvars
  BY <1>1, <1>2, Zenon DEF RInv, CommandTypeOK, HealthyWorkersRunOn, commandvars
<1>3. CASE Signal \/ ShutdownTaskEnds
  BY <1>1, <1>3, Zenon DEF RInv, CommandTypeOK, HealthyWorkersRunOn, Signal, ShutdownTaskEnds
<1>4. CASE Supervise
  <2>1. CASE shutdown = "done" /\ CleanUp(supervised, "ok") /\ UNCHANGED supervised
    BY <1>0, <1>4, <2>1, CleanUpStep DEF Supervise, CommandTypeOK
  <2>2. CASE supervised' = supervised \ Ended /\ CleanUp({}, "error")
    BY <1>0, <1>4, <2>2, CleanUpStep DEF Supervise, CommandTypeOK
  <2>3. CASE supervised' = supervised \ Ended /\ UNCHANGED <<activation, supervisor, status>>
    <3>1. Ended' = Ended /\ Cancelled' = Cancelled
      BY <2>3, Zenon DEF Ended, Cancelled
    <3>2. CommandTypeOK' /\ UNCHANGED <<shutdown, disposed, interrupts>>
      BY <1>0, <1>4, <2>3, Zenon DEF Supervise, CommandTypeOK
    <3>3. Handled \ supervised' \subseteq Ended'
      BY <2>3, <3>1, Zenon DEF RInv
    <3> QED BY <2>3, <3>1, <3>2, <3>3, Zenon DEF RInv, HealthyWorkersRunOn
  <2> QED BY <1>4, <2>1, <2>2, <2>3, Zenon DEF Supervise
<1>5. CASE Gathered
  <2>1. Ended' = Ended /\ Cancelled' = Cancelled /\ Ended = Handled
    BY <1>1, <1>5, Zenon DEF Gathered, RInv, Ended
  <2> QED BY <1>5, <2>1, Zenon DEF Gathered, RInv, CommandTypeOK, HealthyWorkersRunOn
<1>6. ASSUME NEW a \in Handled, Aclose(a) PROVE RInv'
  <2>1. Ended' = Ended /\ Cancelled' = Cancelled /\ Ended = Handled
    BY <1>1, <1>6, Zenon DEF Aclose, RInv
  <2> QED BY <1>6, <2>1, Zenon DEF Aclose, RInv, CommandTypeOK, HealthyWorkersRunOn
<1>7. CASE Interrupt
  <2>1. interrupts' \in 0 .. MaxInterrupts /\ interrupts' > 0 /\ interrupts <= interrupts'
    BY <1>0, <1>7, RunqueuesConstantsOK DEF Interrupt, CommandTypeOK
  <2>2. CASE supervisor = "wait" /\ CleanUp(supervised, "cancelled")
    BY <1>7, <2>1, <2>2, CleanUpStep, Zenon DEF Interrupt
  <2>3. CASE supervisor = "gather" /\ CleanUp(supervised, "interrupted")
    BY <1>7, <2>1, <2>3, CleanUpStep, Zenon DEF Interrupt
  <2>4. CASE supervisor = "aclose" /\ supervisor' = "exited" /\ status' = "interrupted" /\ UNCHANGED activation
    <3>1. UNCHANGED <<work, supervised, shutdown, disposed, swallowed>>
      BY <1>7, Zenon DEF Interrupt
    <3>2. Ended' = Ended /\ Cancelled' = Cancelled
      BY <1>1, <2>4, <3>1, Zenon
    <3> QED BY <2>1, <2>4, <3>1, <3>2, Zenon DEF RInv, CommandTypeOK, HealthyWorkersRunOn
  <2> QED BY <1>7, <2>2, <2>3, <2>4, Zenon DEF Interrupt
<1>8. ASSUME NEW a \in Handled, WorkArrives(a) PROVE RInv'
  BY <1>1, <1>8, Zenon DEF WorkArrives, RInv, CommandTypeOK, HealthyWorkersRunOn, rest
<1>9. ASSUME NEW a \in Handled, ActivateWorker(a) \/ TaskFails(a) \/ TaskStops(a) PROVE RInv'
  <2>1. \E s \in {"working", "ended"} : activation' = [activation EXCEPT ![a] = s]
    BY <1>9, Zenon DEF ActivateWorker, TaskFails, TaskStops
  <2>2. UNCHANGED <<work, rest>> /\ swallowed' = swallowed /\ activation[a] # "ended"
    BY <1>9, Zenon DEF ActivateWorker, TaskFails, TaskStops, Cancelled
  <2>3. swallowed' \in 0 .. MaxSwallowed
    BY <1>0, <2>2, Zenon DEF CommandTypeOK
  <2> QED BY <2>1, <2>2, <2>3, TaskStep, Zenon DEF TaskStates
<1>10. ASSUME NEW a \in Handled, WorkerSwallows(a) PROVE RInv'
  <2>1. swallowed' \in 0 .. MaxSwallowed
    <3>1. swallowed \in 0 .. MaxSwallowed /\ swallowed < MaxSwallowed /\ swallowed' = swallowed + 1
      BY <1>0, <1>10, Zenon DEF WorkerSwallows, CommandTypeOK
    <3> QED BY <3>1, RunqueuesConstantsOK
  <2> QED BY <1>10, <2>1, TaskStep, Zenon DEF WorkerSwallows, TaskStates
<1> QED BY <1>2, <1>3, <1>4, <1>5, <1>6, <1>7, <1>8, <1>9, <1>10, Zenon DEF CommandNext, Steps

\* runqueues cancels a worker only after a signal or a cancellation of its own,
\* closes a queue only when no worker is left, and ends with every worker ended
\* and every queue closed, for every set of queues (_supervise_workers).
THEOREM SupervisionIsClean == CommandSpec => []CleanSupervision
<1>1. RInv => CleanSupervision
  BY Zenon DEF RInv, CleanSupervision, DisposedIsIdle, ExitIsClean, CommandTypeOK
<1> QED BY <1>1, RInitInv, RNextInv, PTL DEF CommandSpec

\* The waiter of a stop_one, the callbacks of the loop, and its tasks.
Waiters == [by : Callers, call : Nat]
Callbacks ==
    [what : {"start"}, alias : Aliases, after : Nat \cup {NoTask}]
        \cup [what : {"done"}, alias : Aliases] \cup [what : {"cancel"}, id : Nat, waiter : Waiters]
        \cup [what : {"wake"}, waiter : Waiters] \cup [what : {"stop"}]
Tasks == [alias : Aliases, state : {"running", "cancelling", "deaf", "ended"}, waiters : Seq(Waiters)]
CallerPlaces == {"idle", "wait_ready", "submit_cancel", "wait_cancel", "submit_stop", "join"}
CallerResults == {"none", "started", "raised", "timeout", "shut", "stopped"}
CallerLocals == [pc : CallerPlaces, calls : Nat, id : Nat \cup {NoTask}, saw_loop : BOOLEAN,
                 result : CallerResults]
RuntimeShapes ==
    /\ RuntimeTypeOK
    /\ callbacks \in Seq(Callbacks) /\ task \in Seq(Tasks) /\ caller \in [Callers -> CallerLocals]

\* The callback at i frees alias a.
Frees(i, a) == i \in DOMAIN callbacks /\ callbacks[i].what = "done" /\ callbacks[i].alias = a
FreedBefore(j, a) == \E i \in 1 .. j - 1 : Frees(i, a)

\* An alias is registered for a task of its own, and freed once that has ended.
RegisteredInv ==
    /\ \A a \in DOMAIN tasks :
          /\ task[tasks[a]].alias = a
          /\ task[tasks[a]].state = "ended" => \E i \in DOMAIN callbacks : Frees(i, a)
    /\ \A i \in DOMAIN callbacks, a \in Aliases : Frees(i, a) =>
          /\ a \in DOMAIN tasks /\ task[tasks[a]].state = "ended"
          /\ \A j \in DOMAIN callbacks : Frees(j, a) => j = i

\* Only a closed runtime is stopped, and its drain knows every task that is left.
PhasesInv ==
    /\ loop = "none" <=> thread \in {"none", "starting"}
    /\ loop = "none" => task = <<>> /\ tasks = <<>> /\ callbacks = <<>>
    /\ loop \in {"stopping", "draining", "broken", "closed", "gone"} => closed
    /\ \A c \in Callers : CallerAt(c, "submit_stop") => closed
    /\ \A i \in DOMAIN callbacks : callbacks[i].what = "stop" => closed
    /\ \A id \in DOMAIN task : task[id].state # "ended" =>
          /\ loop = "draining" => id \in drained
          /\ loop \notin {"closed", "gone"}
          /\ task[id].alias \in DOMAIN tasks /\ tasks[task[id].alias] = id
    /\ loop \in {"closed", "gone"} => \A i \in DOMAIN callbacks : callbacks[i].what # "done"

\* The call a waiter stands for was made; if it is the last of its thread, it is
\* about task id.
Awaits(waiter, id) ==
    /\ waiter.call <= caller[waiter.by].calls
    /\ waiter = ThisCall(waiter.by) => caller[waiter.by].id = id

\* A task has ended and is out of the way of its alias, or will be at callback j.
OutOfTheWay(id, j) ==
    /\ id \in DOMAIN task /\ task[id].state = "ended"
    /\ \A a \in DOMAIN tasks : tasks[a] = id => FreedBefore(j, a)

WaitersInv ==
    /\ \A c \in Callers : CallerAt(c, "submit_cancel") => caller[c].id \in DOMAIN task
    /\ \A id \in DOMAIN task : \A k \in DOMAIN task[id].waiters : Awaits(task[id].waiters[k], id)
    /\ \A j \in DOMAIN callbacks :
          /\ callbacks[j].what = "cancel" =>
                callbacks[j].id \in DOMAIN task /\ Awaits(callbacks[j].waiter, callbacks[j].id)
          /\ callbacks[j].what = "wake" =>
                \E id \in DOMAIN task : Awaits(callbacks[j].waiter, id) /\ OutOfTheWay(id, j)
    /\ \A c \in Callers : caller[c].result = "stopped" =>
          CallerAt(c, "idle") /\ OutOfTheWay(caller[c].id, 1)

\* The ended task of an alias frees it before the callback of a later start.
StartsInv ==
    \A j \in DOMAIN callbacks : callbacks[j].what = "start" /\ callbacks[j].after # NoTask =>
        /\ callbacks[j].after <= Len(task)
        /\ callbacks[j].alias \in DOMAIN tasks =>
              tasks[callbacks[j].alias] > callbacks[j].after \/ FreedBefore(j, callbacks[j].alias)

RuntimeInv == RuntimeShapes /\ RegisteredInv /\ PhasesInv /\ WaitersInv /\ StartsInv

-------------------------------------------------------------------------------
\* What the invariant says of the callbacks and of the tasks.
LEMMA RuntimeFacts ==
    ASSUME RuntimeInv
    PROVE  /\ callbacks \in Seq(Callbacks) /\ task \in Seq(Tasks) /\ caller \in [Callers -> CallerLocals]
           /\ \A i \in DOMAIN callbacks : callbacks[i] \in Callbacks
           /\ \A id \in DOMAIN task : task[id] \in Tasks
           /\ \A c \in Callers : caller[c] \in CallerLocals
           /\ DOMAIN tasks \subseteq Aliases /\ \A a \in DOMAIN tasks : tasks[a] \in DOMAIN task
           /\ DOMAIN callbacks = 1 .. Len(callbacks) /\ Len(callbacks) \in Nat
           /\ DOMAIN task = 1 .. Len(task) /\ Len(task) \in Nat
<1>1. callbacks \in Seq(Callbacks) /\ task \in Seq(Tasks) /\ caller \in [Callers -> CallerLocals]
  BY Zenon DEF RuntimeInv, RuntimeShapes
<1>2. DOMAIN tasks \subseteq Aliases /\ \A a \in DOMAIN tasks : tasks[a] \in DOMAIN task
  BY Zenon DEF RuntimeInv, RuntimeShapes, RuntimeTypeOK
<1> QED BY <1>1, <1>2

\* A callback is a record of its kind.
LEMMA CallbackFields ==
    ASSUME NEW b \in Callbacks
    PROVE  /\ b.what \in {"start", "done", "cancel", "wake", "stop"}
           /\ b.what = "start" => b.alias \in Aliases /\ b.after \in Nat \cup {NoTask}
           /\ b.what = "done" => b.alias \in Aliases
           /\ b.what = "cancel" => b.id \in Nat /\ b.waiter \in Waiters
           /\ b.what = "wake" => b.waiter \in Waiters
  BY Zenon DEF Callbacks

\* Callbacks that are added come after those that were there.
LEMMA PushedFacts ==
    ASSUME callbacks \in Seq(Callbacks), NEW more \in Seq(Callbacks), callbacks' = callbacks \o more
    PROVE  /\ callbacks' \in Seq(Callbacks) /\ Len(callbacks') = Len(callbacks) + Len(more)
           /\ \A i \in DOMAIN callbacks : i \in DOMAIN callbacks' /\ callbacks'[i] = callbacks[i]
           /\ \A i \in DOMAIN callbacks' \ DOMAIN callbacks :
                 \E k \in DOMAIN more : i = Len(callbacks) + k /\ callbacks'[i] = more[k]
           /\ \A i, a : Frees(i, a) => Frees(i, a)'
           /\ \A j, a : FreedBefore(j, a) => FreedBefore(j, a)'
<1>1. /\ callbacks' \in Seq(Callbacks) /\ Len(callbacks') = Len(callbacks) + Len(more)
      /\ \A i \in DOMAIN callbacks : i \in DOMAIN callbacks' /\ callbacks'[i] = callbacks[i]
  OBVIOUS
<1>2. ASSUME NEW i \in DOMAIN callbacks' \ DOMAIN callbacks
      PROVE  \E k \in DOMAIN more : i = Len(callbacks) + k /\ callbacks'[i] = more[k]
  <2>1. i - Len(callbacks) \in DOMAIN more /\ callbacks'[i] = more[i - Len(callbacks)]
        /\ i = Len(callbacks) + (i - Len(callbacks))
    BY <1>1
  <2> QED BY <2>1, Zenon
<1>3. \A i, a : Frees(i, a) => Frees(i, a)'
  BY <1>1, Zenon DEF Frees
<1>4. \A j, a : FreedBefore(j, a) => FreedBefore(j, a)'
  BY <1>3, Zenon DEF FreedBefore
<1> QED BY <1>1, <1>2, <1>3, <1>4, Zenon

\* The first callback goes, and the others move up.
LEMMA PoppedFacts ==
    ASSUME callbacks \in Seq(Callbacks), callbacks # <<>>, NEW more \in Seq(Callbacks),
           callbacks' = Tail(callbacks) \o more
    PROVE  /\ callbacks' \in Seq(Callbacks) /\ Head(callbacks) = callbacks[1] /\ 1 \in DOMAIN callbacks
           /\ Len(callbacks') = Len(callbacks) - 1 + Len(more)
           /\ \A i \in DOMAIN callbacks : i # 1 =>
                 /\ i - 1 \in DOMAIN callbacks' /\ callbacks'[i - 1] = callbacks[i]
           /\ \A i \in DOMAIN callbacks' :
                 \/ i + 1 \in DOMAIN callbacks /\ callbacks'[i] = callbacks[i + 1]
                 \/ \E k \in DOMAIN more : i = Len(callbacks) - 1 + k /\ callbacks'[i] = more[k]
<1>1. PICK tl \in Seq(Callbacks) : tl = Tail(callbacks)
  <2>1. Tail(callbacks) \in Seq(Callbacks)
    OBVIOUS
  <2> QED BY <2>1, Zenon
<1>2. /\ Len(tl) = Len(callbacks) - 1 /\ Head(callbacks) = callbacks[1] /\ 1 \in DOMAIN callbacks
      /\ \A i \in DOMAIN tl : tl[i] = callbacks[i + 1] /\ i + 1 \in DOMAIN callbacks
      /\ Len(callbacks) \in Nat
  BY <1>1
<1>3. callbacks' = tl \o more
  BY <1>1, Zenon
<1>4. /\ callbacks' \in Seq(Callbacks) /\ Len(callbacks') = Len(callbacks) - 1 + Len(more)
      /\ \A i \in DOMAIN tl : i \in DOMAIN callbacks' /\ callbacks'[i] = tl[i]
  BY <1>2, <1>3
<1>5. ASSUME NEW i \in DOMAIN callbacks, i # 1
      PROVE  i - 1 \in DOMAIN callbacks' /\ callbacks'[i - 1] = callbacks[i]
  <2>1. i - 1 \in DOMAIN tl /\ (i - 1) + 1 = i
    BY <1>2, <1>5
  <2> QED BY <1>2, <1>4, <2>1, Zenon
<1>6. ASSUME NEW i \in DOMAIN callbacks', i \notin DOMAIN tl
      PROVE  \E k \in DOMAIN more : i = Len(callbacks) - 1 + k /\ callbacks'[i] = more[k]
  <2>1. i - Len(tl) \in DOMAIN more /\ callbacks'[i] = more[i - Len(tl)]
        /\ i = Len(callbacks) - 1 + (i - Len(tl))
    BY <1>2, <1>3, <1>6
  <2> QED BY <2>1, Zenon
<1> QED BY <1>2, <1>4, <1>5, <1>6, Zenon

\* Tasks are only added, an ended one stays so, and only a new one is registered.
TasksGrow ==
    /\ Len(task) <= Len(task')
    /\ \A id \in DOMAIN task :
          /\ id \in DOMAIN task' /\ task'[id].alias = task[id].alias
          /\ task[id].state = "ended" => task'[id].state = "ended"
    /\ \A a \in DOMAIN tasks' :
          tasks'[a] \notin DOMAIN task \/ (a \in DOMAIN tasks /\ tasks'[a] = tasks[a])

LEMMA OutStays ==
    ASSUME TasksGrow, NEW id, NEW j, \A a : FreedBefore(j, a) => FreedBefore(j, a)', OutOfTheWay(id, j)
    PROVE  OutOfTheWay(id, j)'
  BY Zenon DEF TasksGrow, OutOfTheWay

\* Nothing is freed before the first callback.
LEMMA FirstIsFirst ==
    \A a : ~FreedBefore(1, a)
  BY DEF FreedBefore

LEMMA OutPopped ==
    ASSUME RuntimeInv, TasksGrow, callbacks # <<>>, NEW more \in Seq(Callbacks),
           callbacks' = Tail(callbacks) \o more,
           callbacks[1].what = "done" => callbacks[1].alias \notin DOMAIN tasks'
    PROVE  /\ \A j \in DOMAIN callbacks, a \in DOMAIN tasks' :
                 j # 1 /\ FreedBefore(j, a) => FreedBefore(j - 1, a)'
           /\ \A id : \A j \in DOMAIN callbacks : j # 1 /\ OutOfTheWay(id, j) => OutOfTheWay(id, j - 1)'
<1>1. /\ callbacks \in Seq(Callbacks) /\ DOMAIN callbacks = 1 .. Len(callbacks) /\ Len(callbacks) \in Nat
  BY RuntimeFacts, Zenon
<1>2. /\ Head(callbacks) = callbacks[1]
      /\ \A i \in DOMAIN callbacks : i # 1 =>
            i - 1 \in DOMAIN callbacks' /\ callbacks'[i - 1] = callbacks[i]
  BY <1>1, PoppedFacts, Zenon
<1>3. ASSUME NEW j \in DOMAIN callbacks, NEW a \in DOMAIN tasks', j # 1, FreedBefore(j, a)
      PROVE  FreedBefore(j - 1, a)'
  <2>1. PICK i \in 1 .. j - 1 : Frees(i, a)
    BY <1>3, Zenon DEF FreedBefore
  <2>2. i # 1
    BY <1>3, <2>1, Zenon DEF Frees
  <2>3. Frees(i - 1, a)'
    BY <1>2, <2>1, <2>2, Zenon DEF Frees
  <2>4. i - 1 \in 1 .. (j - 1) - 1
    BY <1>1, <2>1, <2>2
  <2> QED BY <2>3, <2>4, Zenon DEF FreedBefore
<1>4. ASSUME NEW j \in DOMAIN callbacks, NEW id, j # 1, OutOfTheWay(id, j)
      PROVE  OutOfTheWay(id, j - 1)'
  <2>1. id \in DOMAIN task' /\ task'[id].state = "ended"
    BY <1>4, Zenon DEF TasksGrow, OutOfTheWay
  <2>2. ASSUME NEW a \in DOMAIN tasks', tasks'[a] = id PROVE FreedBefore(j - 1, a)'
    <3>1. a \in DOMAIN tasks /\ tasks[a] = id
      BY <1>4, <2>2, Zenon DEF TasksGrow, OutOfTheWay
    <3> QED BY <1>3, <1>4, <3>1, Zenon DEF OutOfTheWay
  <2> QED BY <2>1, <2>2, Zenon DEF OutOfTheWay
<1> QED BY <1>3, <1>4, Zenon

-------------------------------------------------------------------------------
\* A step of a caller: it goes on with its call, or begins the next one; nothing
\* it does then is the end of a stop_one.
CallerGoes(c) ==
    \E l \in CallerLocals :
        /\ caller' = [caller EXCEPT ![c] = l]
        /\ l.calls <= MaxCalls
        /\ (l.calls = caller[c].calls /\ l.id = caller[c].id) \/ l.calls = caller[c].calls + 1
        /\ l.pc = "submit_stop" => closed'
        /\ l.pc = "submit_cancel" => l.id \in DOMAIN task
        /\ l.result # "stopped"

LEMMA AwaitsStays ==
    ASSUME RuntimeInv, NEW c \in Callers, CallerGoes(c), NEW waiter \in Waiters, NEW id, Awaits(waiter, id)
    PROVE  Awaits(waiter, id)'
<1>1. PICK l \in CallerLocals :
        /\ caller' = [caller EXCEPT ![c] = l]
        /\ (l.calls = caller[c].calls /\ l.id = caller[c].id) \/ l.calls = caller[c].calls + 1
  BY Zenon DEF CallerGoes
<1>2. caller \in [Callers -> CallerLocals] /\ caller[waiter.by] \in CallerLocals /\ caller[c].calls \in Nat
      /\ waiter.by \in Callers /\ waiter.call \in Nat /\ waiter.call <= caller[waiter.by].calls
      /\ waiter = [by |-> waiter.by, call |-> waiter.call]
      /\ caller[waiter.by].calls \in Nat
      /\ (waiter.call = caller[waiter.by].calls => caller[waiter.by].id = id)
  BY RuntimeFacts, Zenon DEF Waiters, CallerLocals, Awaits, ThisCall
<1>3. waiter.call <= caller'[waiter.by].calls
      /\ (waiter.call = caller'[waiter.by].calls => caller'[waiter.by].id = id)
  <2>1. CASE waiter.by = c
    <3>1. caller'[waiter.by] = l
      BY <1>1, <1>2, <2>1, Zenon
    <3> QED BY <1>1, <1>2, <2>1, <3>1
  <2>2. CASE waiter.by # c
    BY <1>1, <1>2, <2>2, Zenon
  <2> QED BY <2>1, <2>2, Zenon
<1> QED BY <1>2, <1>3 DEF Awaits, ThisCall

\* A callback that a caller adds.
Submitted(b) ==
    /\ b.what \in {"start", "cancel", "stop"}
    /\ b.what = "stop" => closed
    /\ b.what = "cancel" => b.id \in DOMAIN task /\ Awaits(b.waiter, b.id)
    /\ b.what = "start" /\ b.after # NoTask =>
          /\ b.after <= Len(task)
          /\ b.alias \in DOMAIN tasks => \E i \in DOMAIN callbacks : Frees(i, b.alias)

\* Every step of a caller: it moves on, and adds a callback at most.
LEMMA CallerStep ==
    ASSUME RuntimeInv, NEW c \in Callers, CallerGoes(c), UNCHANGED <<task, tasks, drained, loop>>,
           closed' \in BOOLEAN, closed => closed',
           thread' = thread \/ (thread = "none" /\ thread' = "starting"),
           NEW more \in Seq(Callbacks), callbacks' = callbacks \o more,
           Len(more) <= 1, \A k \in DOMAIN more : Submitted(more[k]) /\ loop # "none"
    PROVE  RuntimeInv'
<1>1. /\ callbacks \in Seq(Callbacks) /\ task \in Seq(Tasks) /\ caller \in [Callers -> CallerLocals]
      /\ \A i \in DOMAIN callbacks : callbacks[i] \in Callbacks
      /\ \A id \in DOMAIN task : task[id] \in Tasks
      /\ DOMAIN callbacks = 1 .. Len(callbacks) /\ Len(callbacks) \in Nat
      /\ DOMAIN tasks \subseteq Aliases
  BY RuntimeFacts, Zenon
<1>2. /\ callbacks' \in Seq(Callbacks) /\ Len(callbacks') = Len(callbacks) + Len(more)
      /\ \A i \in DOMAIN callbacks : i \in DOMAIN callbacks' /\ callbacks'[i] = callbacks[i]
      /\ \A i \in DOMAIN callbacks' \ DOMAIN callbacks :
            \E k \in DOMAIN more : i = Len(callbacks) + k /\ callbacks'[i] = more[k]
      /\ \A i, a : Frees(i, a) => Frees(i, a)'
      /\ \A j, a : FreedBefore(j, a) => FreedBefore(j, a)'
  BY <1>1, PushedFacts, Zenon
<1>3. \A i \in DOMAIN callbacks' \ DOMAIN callbacks :
        Submitted(callbacks'[i]) /\ i = Len(callbacks) + 1 /\ loop # "none"
  <2>1. DOMAIN more \subseteq {1}
    OBVIOUS
  <2> QED BY <1>2, <2>1, Zenon
<1>4. \A i, a : Frees(i, a)' <=> Frees(i, a)
  BY <1>2, <1>3 DEF Frees, Submitted
<1>5. PICK l \in CallerLocals :
        /\ caller' = [caller EXCEPT ![c] = l]
        /\ l.calls <= MaxCalls
        /\ l.pc = "submit_stop" => closed'
        /\ l.pc = "submit_cancel" => l.id \in DOMAIN task
        /\ l.result # "stopped"
  BY Zenon DEF CallerGoes
<1>6. caller' \in [Callers -> CallerLocals] /\ caller'[c] = l /\ \A x \in Callers \ {c} : caller'[x] = caller[x]
  BY <1>1, <1>5, Zenon
<1>7. TasksGrow
  BY DEF TasksGrow
<1>8. RuntimeShapes'
  <2>1. \A x \in Callers : caller'[x].calls \in 0 .. MaxCalls
    <3>1. \A x \in Callers : caller[x].calls \in 0 .. MaxCalls
      BY Zenon DEF RuntimeInv, RuntimeShapes, RuntimeTypeOK
    <3>2. l.calls \in 0 .. MaxCalls
      BY <1>5, RuntimeConstantsOK DEF CallerLocals
    <3> QED BY <1>6, <3>1, <3>2, Zenon
  <2>2. RuntimeTypeOK'
    BY <2>1, Zenon DEF RuntimeInv, RuntimeShapes, RuntimeTypeOK
  <2> QED BY <1>1, <1>2, <1>6, <2>2, Zenon DEF RuntimeShapes
<1>9. RegisteredInv'
  <2>1. RegisteredInv
    BY Zenon DEF RuntimeInv
  <2>2. \A a \in DOMAIN tasks : task[tasks[a]].state = "ended" =>
          \E i \in DOMAIN callbacks' : Frees(i, a)'
    BY <1>2, <2>1, Zenon DEF RegisteredInv
  <2>3. \A i \in DOMAIN callbacks', a \in Aliases : Frees(i, a)' => i \in DOMAIN callbacks /\ Frees(i, a)
    BY <1>4, Zenon DEF Frees
  <2> QED BY <2>1, <2>2, <2>3 DEF RegisteredInv
<1>10. PhasesInv'
  <2>1. PhasesInv
    BY Zenon DEF RuntimeInv
  <2>2. \A x \in Callers : CallerAt(x, "submit_stop")' => closed'
    BY <1>5, <1>6, <2>1, Zenon DEF PhasesInv, CallerAt
  <2>3. \A i \in DOMAIN callbacks' : callbacks'[i].what = "stop" => closed'
    BY <1>2, <1>3, <2>1 DEF PhasesInv, Submitted
  <2>4. loop \in {"closed", "gone"} => \A i \in DOMAIN callbacks' : callbacks'[i].what # "done"
    BY <1>2, <1>3, <2>1, Zenon DEF PhasesInv, Submitted
  <2>5. loop = "none" => callbacks' = <<>>
    <3>1. SUFFICES ASSUME loop = "none" PROVE callbacks' = <<>>
      BY Zenon
    <3>2. callbacks = <<>>
      BY <2>1, <3>1, Zenon DEF PhasesInv
    <3>3. DOMAIN more = {}
      BY <3>1, Zenon
    <3>4. more = <<>>
      BY <3>3
    <3> QED BY <3>2, <3>4
  <2>6. loop = "none" <=> thread' \in {"none", "starting"}
    BY <2>1, Zenon DEF PhasesInv
  <2> QED BY <2>1, <2>2, <2>3, <2>4, <2>5, <2>6, Zenon DEF PhasesInv
<1>11. WaitersInv'
  <2>1. WaitersInv
    BY Zenon DEF RuntimeInv
  <2>2. \A x \in Callers : CallerAt(x, "submit_cancel")' => caller'[x].id \in DOMAIN task'
    BY <1>5, <1>6, <2>1, Zenon DEF WaitersInv, CallerAt
  <2>3. ASSUME NEW id \in DOMAIN task', NEW k \in DOMAIN task'[id].waiters
        PROVE  Awaits(task[id].waiters[k], id)'
    <3>1. PICK waiter \in Waiters : waiter = task[id].waiters[k]
      BY <1>1, <2>3, SMT, SMTT(30) DEF Tasks
    <3>2. Awaits(waiter, id)
      BY <2>1, <2>3, <3>1, Zenon DEF WaitersInv
    <3>3. Awaits(waiter, id)'
      BY <3>2, AwaitsStays, Zenon
    <3> QED BY <3>1, <3>3, Zenon
  <2>4. ASSUME NEW j \in DOMAIN callbacks', callbacks'[j].what = "cancel"
        PROVE  callbacks'[j].id \in DOMAIN task' /\ Awaits(callbacks[j].waiter, callbacks[j].id)'
    <3>1. PICK b \in Callbacks : b = callbacks'[j]
      <4>1. callbacks' \in Seq(Callbacks)
        BY <1>2, Zenon
      <4>2. callbacks'[j] \in Callbacks
        BY <4>1
      <4> QED BY <4>2, Zenon
    <3>2. b.id \in DOMAIN task /\ Awaits(b.waiter, b.id) /\ b.waiter \in Waiters
      BY <1>2, <1>3, <2>1, <2>4, <3>1, CallbackFields, Zenon DEF WaitersInv, Submitted
    <3>3. Awaits(b.waiter, b.id)'
      BY <3>2, AwaitsStays, Zenon
    <3> QED BY <3>1, <3>2, <3>3, Zenon
  <2>5. ASSUME NEW j \in DOMAIN callbacks', callbacks'[j].what = "wake"
        PROVE  \E id \in DOMAIN task' : Awaits(callbacks[j].waiter, id)' /\ OutOfTheWay(id, j)'
    <3>1. PICK b \in Callbacks : b = callbacks'[j]
      BY <1>2
    <3>2. j \in DOMAIN callbacks /\ b = callbacks[j]
      BY <1>2, <1>3, <2>5, <3>1, ZenonT(30) DEF Submitted
    <3>3. PICK id \in DOMAIN task : Awaits(b.waiter, id) /\ OutOfTheWay(id, j)
      BY <2>1, <2>5, <3>1, <3>2, ZenonT(30) DEF WaitersInv
    <3>4. Awaits(b.waiter, id)'
      BY <2>5, <3>1, <3>3, CallbackFields, AwaitsStays, ZenonT(30)
    <3>5. OutOfTheWay(id, j)'
      BY <1>2, <1>7, <3>3, OutStays, ZenonT(30)
    <3> QED BY <3>1, <3>3, <3>4, <3>5, Zenon
  <2>6. ASSUME NEW x \in Callers, caller'[x].result = "stopped" 
        PROVE  CallerAt(x, "idle")' /\ OutOfTheWay(caller[x].id, 1)'
    <3>1. caller'[x] = caller[x]
      BY <1>5, <1>6, <2>6, Zenon
    <3>2. PICK id : id = caller[x].id
      BY Zenon
    <3>3. CallerAt(x, "idle") /\ OutOfTheWay(id, 1)
      BY <2>1, <2>6, <3>1, <3>2, Zenon DEF WaitersInv
    <3>4. OutOfTheWay(id, 1)'
      BY <1>2, <1>7, <3>3, OutStays, Zenon
    <3> QED BY <3>1, <3>2, <3>3, <3>4, Zenon DEF CallerAt
  <2> QED BY <2>2, <2>3, <2>4, <2>5, <2>6, Zenon DEF WaitersInv
<1>12. StartsInv'
  <2>1. StartsInv
    BY Zenon DEF RuntimeInv
  <2>2. ASSUME NEW j \in DOMAIN callbacks', callbacks'[j].what = "start", callbacks'[j].after # NoTask
        PROVE  /\ callbacks'[j].after <= Len(task)
               /\ callbacks'[j].alias \in DOMAIN tasks =>
                     \/ tasks[callbacks'[j].alias] > callbacks'[j].after
                     \/ FreedBefore(j, callbacks[j].alias)'
    <3>1. PICK b \in Callbacks : b = callbacks'[j]
      BY <1>2
    <3>2. CASE j \in DOMAIN callbacks
      BY <1>2, <2>1, <2>2, <3>1, <3>2, Zenon DEF StartsInv
    <3>3. CASE j \notin DOMAIN callbacks
      <4>1. Submitted(b) /\ j = Len(callbacks) + 1
        BY <1>3, <3>1, <3>3, Zenon
      <4>2. b.after <= Len(task)
        BY <2>2, <3>1, <4>1, Zenon DEF Submitted
      <4>3. ASSUME b.alias \in DOMAIN tasks PROVE FreedBefore(j, b.alias)'
        <5>1. PICK i \in DOMAIN callbacks : Frees(i, b.alias)
          BY <2>2, <3>1, <4>1, <4>3, Zenon DEF Submitted
        <5>2. i \in 1 .. j - 1
          BY <1>1, <4>1
        <5> QED BY <1>2, <5>1, <5>2, Zenon DEF FreedBefore
      <4> QED BY <3>1, <4>2, <4>3, Zenon
    <3> QED BY <3>2, <3>3, Zenon
  <2> QED BY <2>2, Zenon DEF StartsInv
<1> QED BY <1>8, <1>9, <1>10, <1>11, <1>12, Zenon DEF RuntimeInv

LEMMA BeginGoes ==
    ASSUME RuntimeInv, NEW c \in Callers, NEW where \in CallerPlaces, NEW id \in Nat \cup {NoTask},
           NEW result \in CallerResults \ {"stopped"}, Begin(c, where, id, result),
           where = "submit_stop" => closed', where = "submit_cancel" => id \in DOMAIN task
    PROVE  CallerGoes(c)
<1>1. caller[c].calls \in 0 .. MaxCalls /\ caller[c].calls < MaxCalls /\ MaxCalls \in Nat
  BY RuntimeConstantsOK, Zenon DEF RuntimeInv, RuntimeShapes, RuntimeTypeOK, Begin
<1>2. PICK n \in Nat : n = caller[c].calls + 1
  BY <1>1
<1>3. PICK l : l = [pc |-> where, calls |-> n, id |-> id, saw_loop |-> HasLoop, result |-> result]
  BY Zenon
<1>4. l \in CallerLocals
  BY <1>2, <1>3, Zenon DEF CallerLocals, HasLoop
<1>5. caller' = [caller EXCEPT ![c] = l]
  BY <1>2, <1>3, Zenon DEF Begin
<1>6. l.pc = where /\ l.calls = n /\ l.id = id /\ l.result = result
  BY <1>3, Zenon
<1>7. n <= MaxCalls
  BY <1>1, <1>2
<1> QED BY <1>2, <1>4, <1>5, <1>6, <1>7, Zenon DEF CallerGoes

LEMMA MoveGoes ==
    ASSUME RuntimeInv, NEW c \in Callers, NEW where \in CallerPlaces \ {"submit_stop", "submit_cancel"},
           NEW result \in CallerResults \ {"stopped"},
           caller' = [caller EXCEPT ![c].pc = where, ![c].result = result]
    PROVE  CallerGoes(c)
<1>1. caller \in [Callers -> CallerLocals] /\ caller[c] \in CallerLocals /\ caller[c].calls <= MaxCalls
  <2>1. caller[c].calls \in 0 .. MaxCalls
    BY Zenon DEF RuntimeInv, RuntimeShapes, RuntimeTypeOK
  <2> QED BY <2>1, RuntimeFacts, RuntimeConstantsOK
<1>2. PICK l : l = [caller[c] EXCEPT !.pc = where, !.result = result]
  BY Zenon
<1>3. l \in CallerLocals /\ l.calls = caller[c].calls /\ l.id = caller[c].id /\ l.pc = where
      /\ l.result = result
  BY <1>1, <1>2, Zenon DEF CallerLocals
<1>4. caller' = [caller EXCEPT ![c] = l]
  BY <1>1, <1>2, Zenon
<1> QED BY <1>1, <1>3, <1>4, Zenon DEF CallerGoes

LEMMA ReturnGoes ==
    ASSUME RuntimeInv, NEW c \in Callers, NEW result \in CallerResults \ {"stopped"}, Return(c, result)
    PROVE  CallerGoes(c)
<1>1. "idle" \in CallerPlaces \ {"submit_stop", "submit_cancel"}
  BY Zenon DEF CallerPlaces
<1> QED BY <1>1, MoveGoes, Zenon DEF Return

\* A caller at work has no result of its last stop_one any more.
LEMMA SubmitGoes ==
    ASSUME RuntimeInv, NEW c \in Callers, NEW where \in {"wait_cancel", "join"},
           caller[c].pc # "idle", caller' = [caller EXCEPT ![c].pc = where]
    PROVE  CallerGoes(c)
<1>1. caller \in [Callers -> CallerLocals] /\ caller[c] \in CallerLocals
  BY RuntimeFacts, Zenon
<1>2. caller[c].result \in CallerResults \ {"stopped"}
  BY <1>1, Zenon DEF RuntimeInv, WaitersInv, CallerLocals, CallerAt
<1>3. caller' = [caller EXCEPT ![c].pc = where, ![c].result = caller[c].result]
  BY <1>1, Zenon DEF CallerLocals
<1>4. where \in CallerPlaces \ {"submit_stop", "submit_cancel"}
  BY Zenon DEF CallerPlaces
<1> QED BY <1>2, <1>3, <1>4, MoveGoes, Zenon

LEMMA QuietCaller ==
    ASSUME RuntimeInv, NEW c \in Callers, CallerGoes(c),
           UNCHANGED <<task, tasks, drained, loop, callbacks>>, closed' \in BOOLEAN, closed => closed',
           thread' = thread \/ (thread = "none" /\ thread' = "starting")
    PROVE  RuntimeInv'
<1>1. callbacks' = callbacks \o <<>> /\ <<>> \in Seq(Callbacks) /\ Len(<<>>) <= 1 /\ DOMAIN <<>> = {}
  BY RuntimeFacts
<1> QED BY <1>1, CallerStep, Zenon

LEMMA SubmittingCaller ==
    ASSUME RuntimeInv, NEW c \in Callers, CallerGoes(c),
           UNCHANGED <<task, tasks, drained, loop, closed, thread>>, loop # "none",
           NEW b \in Callbacks, Submitted(b), callbacks' = Append(callbacks, b)
    PROVE  RuntimeInv'
<1>1. PICK more \in Seq(Callbacks) : more = <<b>>
  <2>1. <<b>> \in Seq(Callbacks)
    OBVIOUS
  <2> QED BY <2>1, Zenon
<1>2. callbacks' = callbacks \o more /\ Len(more) <= 1 /\ \A k \in DOMAIN more : more[k] = b
  BY <1>1, RuntimeFacts
<1>3. closed' \in BOOLEAN
  BY Zenon DEF RuntimeInv, RuntimeShapes, RuntimeTypeOK
<1> QED BY <1>2, <1>3, CallerStep, Zenon

\* The calls of start_thread and shutdown, and what follows on them.
LEMMA ThreadCallsInv ==
    ASSUME RuntimeInv, NEW c \in Callers,
           StartThread(c) \/ WaitReady(c) \/ Shutdown(c) \/ Join(c) \/ StopTimesOut(c)
    PROVE  RuntimeInv'
<1>0. {"started", "raised", "timeout", "shut"} \subseteq CallerResults \ {"stopped"}
  BY Zenon DEF CallerResults
<1>1. closed \in BOOLEAN
  BY Zenon DEF RuntimeInv, RuntimeShapes, RuntimeTypeOK
<1>2. CASE StartThread(c)
  <2>1. CallerGoes(c)
    <3>1. PICK where \in {"idle", "wait_ready"} : Begin(c, where, NoTask, "none")
      BY <1>2, Zenon DEF StartThread
    <3>2. where \in CallerPlaces /\ "none" \in CallerResults \ {"stopped"}
      BY Zenon DEF CallerPlaces, CallerResults
    <3> QED BY <3>1, <3>2, BeginGoes, Zenon
  <2> QED BY <1>1, <1>2, <2>1, QuietCaller, Zenon DEF StartThread
<1>3. CASE WaitReady(c)
  <2>1. CallerGoes(c)
    BY <1>3, <1>0, ReturnGoes, Zenon DEF WaitReady
  <2> QED BY <1>1, <1>3, <2>1, QuietCaller, Zenon DEF WaitReady
<1>4. CASE Shutdown(c)
  <2>1. \/ Begin(c, "submit_stop", NoTask, "none") \/ Begin(c, "join", NoTask, "none")
        \/ Begin(c, "idle", NoTask, "shut")
    BY <1>4, Zenon DEF Shutdown
  <2>2. /\ "submit_stop" \in CallerPlaces /\ "join" \in CallerPlaces /\ "idle" \in CallerPlaces
        /\ "none" \in CallerResults \ {"stopped"} /\ "shut" \in CallerResults \ {"stopped"}
        /\ closed'
    BY <1>4, Zenon DEF CallerPlaces, CallerResults, Shutdown
  <2>3. CallerGoes(c)
    <3>1. CASE Begin(c, "submit_stop", NoTask, "none")
      BY <2>2, <3>1, BeginGoes, Zenon
    <3>2. CASE Begin(c, "join", NoTask, "none")
      BY <2>2, <3>2, BeginGoes, Zenon
    <3>3. CASE Begin(c, "idle", NoTask, "shut")
      BY <2>2, <3>3, BeginGoes, Zenon
    <3> QED BY <2>1, <3>1, <3>2, <3>3, Zenon
  <2> QED BY <1>1, <1>4, <2>3, QuietCaller, Zenon DEF Shutdown
<1>5. CASE Join(c)
  <2>1. CallerGoes(c)
    BY <1>5, <1>0, ReturnGoes, Zenon DEF Join
  <2> QED BY <1>1, <1>5, <2>1, QuietCaller, Zenon DEF Join
<1>6. CASE StopTimesOut(c)
  <2>1. CallerGoes(c)
    BY <1>6, <1>0, ReturnGoes, Zenon DEF StopTimesOut
  <2> QED BY <1>1, <1>6, <2>1, QuietCaller, Zenon DEF StopTimesOut
<1> QED BY <1>2, <1>3, <1>4, <1>5, <1>6, Zenon

\* start_one: if every task of the alias has ended, the one that is registered
\* frees it before this callback.
LEMMA StartOneInv ==
    ASSUME RuntimeInv, NEW c \in Callers, NEW a \in Aliases, StartOne(c, a)
    PROVE  RuntimeInv'
<1>1. closed \in BOOLEAN
  BY Zenon DEF RuntimeInv, RuntimeShapes, RuntimeTypeOK
<1>2. CallerGoes(c)
  <2>1. "idle" \in CallerPlaces /\ "none" \in CallerResults \ {"stopped"}
    BY Zenon DEF CallerPlaces, CallerResults
  <2> QED BY <2>1, BeginGoes, Zenon DEF StartOne
<1>3. CASE callbacks' = callbacks
  BY <1>1, <1>2, <1>3, QuietCaller, Zenon DEF StartOne
<1>4. CASE HasLoop /\ callbacks' = Append(callbacks, [what |-> "start", alias |-> a,
                          after |-> IF Unfinished(a) = {} THEN Len(task) ELSE NoTask])
  <2>1. PICK n : n = IF Unfinished(a) = {} THEN Len(task) ELSE NoTask
    BY Zenon
  <2>2. PICK b : b = [what |-> "start", alias |-> a, after |-> n]
    BY Zenon
  <2>3. n \in Nat \cup {NoTask} /\ (n # NoTask => n = Len(task) /\ Unfinished(a) = {})
    BY <2>1, RuntimeFacts, Zenon
  <2>4. b \in Callbacks
    BY <2>2, <2>3, Zenon DEF Callbacks
  <2>5. Submitted(b)
    <3>1. ASSUME n # NoTask, a \in DOMAIN tasks PROVE \E i \in DOMAIN callbacks : Frees(i, a)
      <4>1. tasks[a] \in DOMAIN task /\ task[tasks[a]].alias = a
        BY <3>1, RuntimeFacts, Zenon DEF RuntimeInv, RegisteredInv
      <4>2. task[tasks[a]].state = "ended"
        BY <2>3, <3>1, <4>1, Zenon DEF Unfinished
      <4> QED BY <3>1, <4>2, Zenon DEF RuntimeInv, RegisteredInv
    <3>2. n # NoTask => n <= Len(task)
      BY <2>3, RuntimeFacts
    <3> QED BY <2>2, <3>1, <3>2, Zenon DEF Submitted
  <2>6. loop # "none" /\ callbacks' = Append(callbacks, b)
    BY <1>4, <2>1, <2>2, Zenon DEF HasLoop
  <2> QED BY <1>2, <2>4, <2>5, <2>6, SubmittingCaller, Zenon DEF StartOne
<1> QED BY <1>3, <1>4, Zenon DEF StartOne

\* stop_one: reads the task, submits its cancellation, waits.
LEMMA StopOneInv ==
    ASSUME RuntimeInv, NEW c \in Callers,
           (\E a \in Aliases : StopOne(c, a)) \/ SubmitCancel(c) \/ SubmitStop(c)
    PROVE  RuntimeInv'
<1>0. {"started", "raised", "timeout", "shut"} \subseteq CallerResults \ {"stopped"}
  BY Zenon DEF CallerResults
<1>1. closed \in BOOLEAN
  BY Zenon DEF RuntimeInv, RuntimeShapes, RuntimeTypeOK
<1>2. ASSUME NEW a \in Aliases, StopOne(c, a) PROVE RuntimeInv'
  <2>1. CallerGoes(c)
    <3>1. "idle" \in CallerPlaces /\ "submit_cancel" \in CallerPlaces /\ "none" \in CallerResults \ {"stopped"}
      BY Zenon DEF CallerPlaces, CallerResults
    <3>2. a \in DOMAIN tasks => tasks[a] \in DOMAIN task /\ tasks[a] \in Nat
      BY RuntimeFacts
    <3> QED BY <1>2, <3>1, <3>2, BeginGoes, Zenon DEF StopOne
  <2> QED BY <1>1, <1>2, <2>1, QuietCaller, Zenon DEF StopOne
<1>3. CASE SubmitCancel(c)
  <2>1. CASE Return(c, "raised") /\ UNCHANGED callbacks
    <3>1. CallerGoes(c)
      BY <2>1, <1>0, ReturnGoes, Zenon
    <3> QED BY <1>1, <1>3, <2>1, <3>1, QuietCaller, Zenon DEF SubmitCancel
  <2>2. CASE Accepts /\ caller' = [caller EXCEPT ![c].pc = "wait_cancel"]
             /\ callbacks' = Append(callbacks,
                  [what |-> "cancel", id |-> caller[c].id, waiter |-> ThisCall(c)])
    <3>1. PICK waiter : waiter = ThisCall(c)
      BY Zenon
    <3>2. waiter \in Waiters /\ waiter.by = c /\ waiter.call = caller[c].calls /\ caller[c].calls \in Nat
      BY <3>1, RuntimeFacts, Zenon DEF ThisCall, Waiters, CallerLocals
    <3>3. caller[c].id \in DOMAIN task /\ caller[c].id \in Nat
      BY <1>3, RuntimeFacts DEF SubmitCancel, RuntimeInv, WaitersInv
    <3>4. PICK b : b = [what |-> "cancel", id |-> caller[c].id, waiter |-> waiter]
      BY ZenonT(30)
    <3>5. b \in Callbacks
      BY <3>2, <3>3, <3>4, Zenon DEF Callbacks
    <3>6. Awaits(waiter, caller[c].id)
      BY <3>2 DEF Awaits
    <3>7. Submitted(b)
      BY <3>3, <3>4, <3>6, Zenon DEF Submitted
    <3>8. CallerGoes(c)
      BY <1>3, <2>2, SubmitGoes, Zenon DEF SubmitCancel, CallerAt
    <3>9. loop # "none" /\ callbacks' = Append(callbacks, b)
      BY <2>2, <3>1, <3>4, Zenon DEF Accepts, Runs
    <3> QED BY <1>3, <3>5, <3>7, <3>8, <3>9, SubmittingCaller, Zenon DEF SubmitCancel
  <2> QED BY <1>3, <2>1, <2>2, Zenon DEF SubmitCancel
<1>4. CASE SubmitStop(c)
  <2>1. CASE Return(c, "raised") /\ UNCHANGED callbacks
    <3>1. CallerGoes(c)
      BY <2>1, <1>0, ReturnGoes, Zenon
    <3> QED BY <1>1, <1>4, <2>1, <3>1, QuietCaller, Zenon DEF SubmitStop
  <2>2. CASE Accepts /\ caller' = [caller EXCEPT ![c].pc = "join"]
             /\ callbacks' = Append(callbacks, [what |-> "stop"])
    <3>1. PICK b : b = [what |-> "stop"]
      BY Zenon
    <3>2. b \in Callbacks
      BY <3>1, Zenon DEF Callbacks
    <3>3. closed
      BY <1>4, Zenon DEF SubmitStop, RuntimeInv, PhasesInv
    <3>4. Submitted(b)
      BY <3>1, <3>3, Zenon DEF Submitted
    <3>5. CallerGoes(c)
      BY <1>4, <2>2, SubmitGoes, Zenon DEF SubmitStop, CallerAt
    <3>6. loop # "none" /\ callbacks' = Append(callbacks, b)
      BY <2>2, <3>1, Zenon DEF Accepts, Runs
    <3> QED BY <1>4, <3>2, <3>4, <3>5, <3>6, SubmittingCaller, Zenon DEF SubmitStop
  <2> QED BY <1>4, <2>1, <2>2, Zenon DEF SubmitStop
<1> QED BY <1>2, <1>3, <1>4, Zenon

-------------------------------------------------------------------------------
\* The loop starts, or closes when its drain is over.
LEMMA RunLoopInv ==
    ASSUME RuntimeInv, RunLoop \/ CloseLoop
    PROVE  RuntimeInv'
<1>1. UNCHANGED <<closed, tasks, task, drained, callbacks, caller>>
  BY Zenon DEF RunLoop, CloseLoop
<1>2. PhasesInv /\ RuntimeShapes /\ RegisteredInv /\ WaitersInv /\ StartsInv
  BY Zenon DEF RuntimeInv
<1>3. RuntimeShapes'
  BY <1>1, <1>2, Zenon DEF RuntimeShapes, RuntimeTypeOK, RunLoop, CloseLoop
<1>4. RegisteredInv' /\ StartsInv'
  BY <1>1, <1>2 DEF RegisteredInv, StartsInv, Frees, FreedBefore
<1>5. WaitersInv'
  <2>1. \A waiter, x : Awaits(waiter, x)' <=> Awaits(waiter, x)
    BY <1>1, Zenon DEF Awaits, ThisCall
  <2>2. \A j, x : OutOfTheWay(x, j)' <=> OutOfTheWay(x, j)
    BY <1>1, Zenon DEF OutOfTheWay, FreedBefore, Frees
  <2>3. \A c, where : CallerAt(c, where)' <=> CallerAt(c, where)
    BY <1>1, Zenon DEF CallerAt
  <2> QED BY <1>1, <1>2, <2>1, <2>2, <2>3, Zenon DEF WaitersInv
<1>6. CASE RunLoop
  <2>1. loop = "none" /\ task = <<>> /\ tasks = <<>> /\ callbacks = <<>>
    BY <1>2, <1>6, Zenon DEF PhasesInv, RunLoop
  <2>2. thread' = "running" /\ loop' = "running"
    BY <1>6, Zenon DEF RunLoop
  <2>3. PhasesInv'
    BY <1>1, <1>2, <2>1, <2>2, Zenon DEF PhasesInv, CallerAt
  <2> QED BY <1>3, <1>4, <1>5, <2>3, Zenon DEF RuntimeInv
<1>7. CASE CloseLoop
  <2>1. /\ loop = "draining" /\ loop' = "closed" /\ thread' = thread
        /\ \A id \in drained : task[id].state = "ended"
        /\ \A i \in DOMAIN callbacks : callbacks[i].what # "done"
    BY <1>7, Zenon DEF CloseLoop
  <2>2. \A id \in DOMAIN task : task[id].state = "ended"
    BY <1>2, <2>1, Zenon DEF PhasesInv
  <2>3. closed /\ thread \notin {"none", "starting"}
    BY <1>2, <2>1, Zenon DEF PhasesInv
  <2>4. PhasesInv'
    BY <1>1, <1>2, <2>1, <2>2, <2>3, Zenon DEF PhasesInv, CallerAt
  <2> QED BY <1>3, <1>4, <1>5, <2>4, Zenon DEF RuntimeInv
<1> QED BY <1>6, <1>7, Zenon

\* The thread clears its state: nothing is left of it.
LEMMA ClearInv ==
    ASSUME RuntimeInv, Clear
    PROVE  RuntimeInv'
<1>1. /\ UNCHANGED <<closed, task, drained, callbacks, caller>>
      /\ loop = "closed" /\ loop' = "gone" /\ thread' = "gone" /\ tasks' = <<>>
  BY Zenon DEF Clear
<1>2. PhasesInv /\ RuntimeShapes /\ RegisteredInv /\ WaitersInv /\ StartsInv
  BY Zenon DEF RuntimeInv
<1>3. DOMAIN tasks' = {}
  BY <1>1, SMT, SMTT(30)
<1>4. RuntimeShapes'
  BY <1>1, <1>2, <1>3, Zenon DEF RuntimeShapes, RuntimeTypeOK
<1>5. \A i \in DOMAIN callbacks : callbacks[i].what # "done"
  BY <1>1, <1>2, Zenon DEF PhasesInv
<1>6. RegisteredInv'
  BY <1>1, <1>3, <1>5, Zenon DEF RegisteredInv, Frees
<1>7. StartsInv'
  BY <1>1, <1>2, <1>3, Zenon DEF StartsInv
<1>8. PhasesInv'
  BY <1>1, <1>2, <1>5, ZenonT(40) DEF PhasesInv, CallerAt
<1>9. WaitersInv'
  <2>1. \A id, j : OutOfTheWay(id, j) => OutOfTheWay(id, j)'
    BY <1>1, <1>3, Zenon DEF OutOfTheWay
  <2>2. \A id, waiter : Awaits(waiter, id) <=> Awaits(waiter, id)'
    BY <1>1, Zenon DEF Awaits, ThisCall
  <2> QED BY <1>1, <1>2, <2>1, <2>2, Zenon DEF WaitersInv, CallerAt
<1> QED BY <1>4, <1>6, <1>7, <1>8, <1>9, Zenon DEF RuntimeInv

\* A step that cancels tasks, or lets one go on: none ends, and all else stays but
\* for the start of the drain, which notes the tasks that are left.
LEMMA NoneEnds ==
    ASSUME RuntimeInv, UNCHANGED <<closed, thread, tasks, callbacks, caller>>,
           task' = [id \in DOMAIN task |-> task'[id]],
           \A id \in DOMAIN task :
              /\ task'[id] \in Tasks /\ task'[id].alias = task[id].alias
              /\ task'[id].waiters = task[id].waiters
              /\ task'[id].state = "ended" <=> task[id].state = "ended",
           \/ UNCHANGED <<loop, drained>>
           \/ /\ loop = "stopping" /\ loop' = "draining"
              /\ drained' = {id \in DOMAIN task : task[id].state # "ended"}
    PROVE  RuntimeInv'
<1>1. UNCHANGED <<closed, thread, tasks, callbacks, caller>> /\ DOMAIN task' = DOMAIN task
  BY Zenon
<1>2. PhasesInv /\ RuntimeShapes /\ RegisteredInv /\ WaitersInv /\ StartsInv
  BY Zenon DEF RuntimeInv
<1>3. /\ task \in Seq(Tasks) /\ \A id \in DOMAIN task : task[id] \in Tasks
      /\ DOMAIN task = 1 .. Len(task) /\ Len(task) \in Nat
      /\ \A a \in DOMAIN tasks : tasks[a] \in DOMAIN task
  BY RuntimeFacts, Zenon
<1>5. \A id \in DOMAIN task :
        /\ task'[id] \in Tasks /\ task'[id].alias = task[id].alias
        /\ task'[id].waiters = task[id].waiters
        /\ task'[id].state = "ended" <=> task[id].state = "ended"
  BY Zenon
<1>6. task' \in Seq(Tasks) /\ Len(task') = Len(task)
  <2>1. task' = [id \in 1 .. Len(task) |-> task'[id]]
    BY <1>3, Zenon
  <2>2. \A id \in 1 .. Len(task) : task'[id] \in Tasks
    BY <1>3, <1>5, Zenon
  <2> QED BY <1>3, <2>1, <2>2
<1>7. RuntimeShapes'
  <2>1. RuntimeTypeOK'
    <3>1. \A id \in DOMAIN task' : task'[id].alias \in Aliases
            /\ task'[id].state \in {"running", "cancelling", "deaf", "ended"}
      BY <1>1, <1>5, Zenon DEF Tasks
    <3>2. drained' \subseteq DOMAIN task'
      BY <1>1, <1>2, Zenon DEF RuntimeShapes, RuntimeTypeOK
    <3>3. DOMAIN tasks' \subseteq Aliases /\ \A a \in DOMAIN tasks' : tasks'[a] \in DOMAIN task'
      BY <1>1, RuntimeFacts, Zenon
    <3> QED BY <1>1, <1>2, <3>1, <3>2, <3>3, Zenon DEF RuntimeShapes, RuntimeTypeOK
  <2> QED BY <1>1, <1>2, <1>6, <2>1, ZenonT(40) DEF RuntimeShapes
<1>8. \A i, a : Frees(i, a)' <=> Frees(i, a)
  BY <1>1, Zenon DEF Frees
<1>9. \A j, a : FreedBefore(j, a)' <=> FreedBefore(j, a)
  BY <1>8, Zenon DEF FreedBefore
<1>10. RegisteredInv'
  <2>1. \A a \in DOMAIN tasks :
          /\ task'[tasks[a]].alias = a
          /\ task'[tasks[a]].state = "ended" => \E i \in DOMAIN callbacks : Frees(i, a)
    BY <1>2, <1>3, <1>5, Zenon DEF RegisteredInv
  <2>2. \A i \in DOMAIN callbacks, a \in Aliases : Frees(i, a) =>
          /\ a \in DOMAIN tasks /\ task'[tasks[a]].state = "ended"
          /\ \A j \in DOMAIN callbacks : Frees(j, a) => j = i
    BY <1>2, <1>3, <1>5, Zenon DEF RegisteredInv
  <2> QED BY <1>1, <1>8, <2>1, <2>2, Zenon DEF RegisteredInv
<1>11. StartsInv'
  BY <1>1, <1>2, <1>6, <1>9, Zenon DEF StartsInv
<1>12. PhasesInv'
  <2>1. \A id \in DOMAIN task' : task'[id].state # "ended" =>
          /\ loop' = "draining" => id \in drained'
          /\ loop' \notin {"closed", "gone"}
          /\ task'[id].alias \in DOMAIN tasks /\ tasks[task'[id].alias] = id
    BY <1>1, <1>2, <1>5, Zenon DEF PhasesInv
  <2>2. task = <<>> => task' = <<>>
    BY <1>3, <1>6
  <2>3. /\ loop = "none" <=> loop' = "none"
        /\ loop' \in {"stopping", "draining", "broken", "closed", "gone"}
              => loop \in {"stopping", "draining", "broken", "closed", "gone"}
        /\ loop' \in {"closed", "gone"} => loop \in {"closed", "gone"}
    BY Zenon
  <2>4. /\ loop' = "none" <=> thread' \in {"none", "starting"}
        /\ loop' = "none" => task' = <<>> /\ tasks' = <<>> /\ callbacks' = <<>>
    BY <1>1, <1>2, <2>2, <2>3, Zenon DEF PhasesInv
  <2>5. /\ loop' \in {"stopping", "draining", "broken", "closed", "gone"} => closed'
        /\ \A c \in Callers : CallerAt(c, "submit_stop")' => closed'
        /\ \A i \in DOMAIN callbacks' : callbacks'[i].what = "stop" => closed'
        /\ loop' \in {"closed", "gone"} => \A i \in DOMAIN callbacks' : callbacks'[i].what # "done"
    <3>0. closed => closed'
      BY <1>1, SMT, SMTT(30)
    <3>1. loop' \in {"stopping", "draining", "broken", "closed", "gone"} => closed'
      BY <1>2, <2>3, <3>0, Zenon DEF PhasesInv
    <3>2. \A c \in Callers : CallerAt(c, "submit_stop")' => closed'
      BY <1>1, <1>2, <3>0, Zenon DEF PhasesInv, CallerAt
    <3>3. \A i \in DOMAIN callbacks' : callbacks'[i].what = "stop" => closed'
      BY <1>1, <1>2, <3>0, Zenon DEF PhasesInv
    <3>4. loop' \in {"closed", "gone"} => \A i \in DOMAIN callbacks' : callbacks'[i].what # "done"
      BY <1>1, <1>2, <2>3, Zenon DEF PhasesInv
    <3> QED BY <3>1, <3>2, <3>3, <3>4, Zenon
  <2> QED BY <1>1, <2>1, <2>4, <2>5, Zenon DEF PhasesInv
<1>13. WaitersInv'
  <2>1. \A id, j : OutOfTheWay(id, j) => OutOfTheWay(id, j)'
    BY <1>1, <1>5, <1>9, Zenon DEF OutOfTheWay
  <2>2. \A id, waiter : Awaits(waiter, id) <=> Awaits(waiter, id)'
    BY <1>1, Zenon DEF Awaits, ThisCall
  <2>3. ASSUME NEW id \in DOMAIN task', NEW k \in DOMAIN task'[id].waiters
        PROVE  Awaits(task[id].waiters[k], id)'
    BY <1>1, <1>2, <1>5, <2>2, <2>3, Zenon DEF WaitersInv
  <2> QED BY <1>1, <1>2, <2>1, <2>2, <2>3, Zenon DEF WaitersInv, CallerAt
<1> QED BY <1>7, <1>10, <1>11, <1>12, <1>13, Zenon DEF RuntimeInv

\* The drain starts.
LEMMA DrainInv ==
    ASSUME RuntimeInv, Drain
    PROVE  RuntimeInv'
<1>1. \A id \in DOMAIN task : task[id] \in Tasks
  BY RuntimeFacts, Zenon
<1>2. \A id \in DOMAIN task :
        task'[id] = [task[id] EXCEPT !.state = IF task[id].state = "ended" THEN task[id].state
                                               ELSE "cancelling"]
  BY Zenon DEF Drain
<1>3. \A id \in DOMAIN task :
        /\ task'[id] \in Tasks /\ task'[id].alias = task[id].alias
        /\ task'[id].waiters = task[id].waiters
        /\ task'[id].state = "ended" <=> task[id].state = "ended"
  <2> SUFFICES ASSUME NEW id \in DOMAIN task
               PROVE  /\ task'[id] \in Tasks /\ task'[id].alias = task[id].alias
                      /\ task'[id].waiters = task[id].waiters
                      /\ task'[id].state = "ended" <=> task[id].state = "ended"
    BY Zenon
  <2>1. PICK t \in Tasks : t = task[id]
    BY <1>1, Zenon
  <2>2. CASE t.state = "ended"
    <3>1. [t EXCEPT !.state = t.state] = t
      BY Zenon DEF Tasks
    <3> QED BY <1>2, <2>1, <2>2, <3>1, Zenon
  <2>3. CASE t.state # "ended"
    <3>1. task'[id] = [t EXCEPT !.state = "cancelling"]
      BY <1>2, <2>1, <2>3, Zenon
    <3> QED BY <2>1, <2>3, <3>1, Zenon DEF Tasks
  <2> QED BY <2>2, <2>3, Zenon
<1>4. task' = [id \in DOMAIN task |-> task'[id]]
  BY Zenon DEF Drain
<1> QED BY <1>3, <1>4, NoneEnds, Zenon DEF Drain

\* An event worker suppresses its cancellation.
LEMMA SuppressesInv ==
    ASSUME RuntimeInv, NEW x \in DOMAIN task, SuppressesCancel(x)
    PROVE  RuntimeInv'
<1>1. \A id \in DOMAIN task : task[id] \in Tasks
  BY RuntimeFacts, Zenon
<1>2. task' = [task EXCEPT ![x].state = "deaf"] /\ task[x].state = "cancelling"
  BY Zenon DEF SuppressesCancel
<1>3. \A id \in DOMAIN task :
        task'[id] = IF id = x THEN [task[x] EXCEPT !.state = "deaf"] ELSE task[id]
  BY <1>2, Zenon
<1>4. \A id \in DOMAIN task :
        /\ task'[id] \in Tasks /\ task'[id].alias = task[id].alias
        /\ task'[id].waiters = task[id].waiters
        /\ task'[id].state = "ended" <=> task[id].state = "ended"
  BY <1>1, <1>2, <1>3 DEF Tasks
<1>5. task' = [id \in DOMAIN task |-> task'[id]]
  BY <1>2, Zenon
<1> QED BY <1>4, <1>5, NoneEnds, Zenon DEF SuppressesCancel

-------------------------------------------------------------------------------
\* A step of the loop leaves the calls as they are; a stop_one that returns finds
\* its task out of the way.
CallsStay ==
    /\ caller' \in [Callers -> CallerLocals]
    /\ \A c \in Callers :
          /\ caller'[c].calls = caller[c].calls /\ caller'[c].id = caller[c].id
          /\ caller'[c].pc = caller[c].pc \/ caller'[c].pc = "idle"
          /\ caller'[c].result = "stopped" =>
                \/ caller[c].result = "stopped"
                \/ caller'[c].pc = "idle" /\ OutOfTheWay(caller[c].id, 1)'

LEMMA AwaitsSame ==
    ASSUME CallsStay, NEW waiter \in Waiters, NEW id
    PROVE  Awaits(waiter, id)' <=> Awaits(waiter, id)
<1>1. waiter.by \in Callers
  BY Zenon DEF Waiters
<1>2. caller'[waiter.by].calls = caller[waiter.by].calls /\ caller'[waiter.by].id = caller[waiter.by].id
  BY <1>1, Zenon DEF CallsStay
<1> QED BY <1>2, Zenon DEF Awaits, ThisCall

\* What the loop does to waiters: those of the tasks stay or were in a callback,
\* those that are woken find their task out of the way.
LEMMA PopWaiters ==
    ASSUME RuntimeInv, TasksGrow, CallsStay, task' \in Seq(Tasks),
           callbacks # <<>>, NEW more \in Seq(Callbacks), callbacks' = Tail(callbacks) \o more,
           callbacks[1].what = "done" => callbacks[1].alias \notin DOMAIN tasks',
           NEW n \in Nat, n = Len(callbacks),
           \A k \in DOMAIN more : more[k].what = "wake" /\
              \E id \in DOMAIN task' : Awaits(more[k].waiter, id) /\ OutOfTheWay(id, n - 1 + k)',
           \A id \in DOMAIN task' : \A k \in DOMAIN task'[id].waiters : Awaits(task'[id].waiters[k], id)
    PROVE  WaitersInv'
<1>1. /\ callbacks \in Seq(Callbacks) /\ task \in Seq(Tasks) /\ caller \in [Callers -> CallerLocals]
      /\ \A i \in DOMAIN callbacks : callbacks[i] \in Callbacks
      /\ DOMAIN callbacks = 1 .. Len(callbacks) /\ Len(callbacks) \in Nat /\ WaitersInv
  BY RuntimeFacts, Zenon DEF RuntimeInv
<1>2. /\ callbacks' \in Seq(Callbacks) /\ 1 \in DOMAIN callbacks
      /\ \A i \in DOMAIN callbacks' :
            \/ i + 1 \in DOMAIN callbacks /\ callbacks'[i] = callbacks[i + 1]
            \/ \E k \in DOMAIN more : i = Len(callbacks) - 1 + k /\ callbacks'[i] = more[k]
  BY <1>1, PoppedFacts, Zenon
<1>3. \A id : \A j \in DOMAIN callbacks : j # 1 /\ OutOfTheWay(id, j) => OutOfTheWay(id, j - 1)'
  BY OutPopped, Zenon
<1>4. \A c \in Callers : CallerAt(c, "submit_cancel")' => caller'[c].id \in DOMAIN task'
  BY <1>1, ZenonT(30) DEF CallsStay, WaitersInv, CallerAt, TasksGrow
<1>5. ASSUME NEW id \in DOMAIN task', NEW k \in DOMAIN task'[id].waiters
      PROVE  Awaits(task[id].waiters[k], id)'
  <2>1. PICK waiter \in Waiters : waiter = task'[id].waiters[k]
    <3>1. task'[id] \in Tasks
      BY <1>5
    <3>2. task'[id].waiters \in Seq(Waiters)
      BY <3>1, Zenon DEF Tasks
    <3>3. task'[id].waiters[k] \in Waiters
      BY <1>5, <3>2, SMT, SMTT(30)
    <3> QED BY <3>3, Zenon
  <2>2. Awaits(waiter, id)
    BY <1>5, <2>1, Zenon
  <2> QED BY <2>1, <2>2, AwaitsSame, Zenon
<1>6. ASSUME NEW j \in DOMAIN callbacks', callbacks'[j].what = "cancel"
      PROVE  callbacks'[j].id \in DOMAIN task' /\ Awaits(callbacks[j].waiter, callbacks[j].id)'
  <2>1. PICK b \in Callbacks : b = callbacks'[j]
    BY <1>2
  <2>2. j + 1 \in DOMAIN callbacks /\ b = callbacks[j + 1]
    BY <1>2, <1>6, <2>1, Zenon
  <2>3. b.id \in DOMAIN task /\ Awaits(b.waiter, b.id) /\ b.waiter \in Waiters
    BY <1>1, <1>6, <2>1, <2>2, CallbackFields, ZenonT(30) DEF WaitersInv
  <2>4. b.id \in DOMAIN task'
    BY <2>3, Zenon DEF TasksGrow
  <2> QED BY <2>1, <2>3, <2>4, AwaitsSame, Zenon
<1>7. ASSUME NEW j \in DOMAIN callbacks', callbacks'[j].what = "wake"
      PROVE  \E id \in DOMAIN task' : Awaits(callbacks[j].waiter, id)' /\ OutOfTheWay(id, j)'
  <2>1. PICK b \in Callbacks : b = callbacks'[j]
    BY <1>2
  <2>2. b.waiter \in Waiters
    BY <1>7, <2>1, CallbackFields, ZenonT(30)
  <2>3. CASE j + 1 \in DOMAIN callbacks /\ b = callbacks[j + 1]
    <3>1. PICK id \in DOMAIN task : Awaits(b.waiter, id) /\ OutOfTheWay(id, j + 1)
      BY <1>1, <1>7, <2>1, <2>3, Zenon DEF WaitersInv
    <3>2. j \in Nat /\ j + 1 # 1 /\ (j + 1) - 1 = j
      BY <1>2, SMT, SMTT(30)
    <3>3. OutOfTheWay(id, (j + 1) - 1)'
      BY <1>3, <2>3, <3>1, <3>2, Zenon
    <3>4. OutOfTheWay(id, j)'
      BY <3>2, <3>3, Zenon
    <3>5. id \in DOMAIN task'
      BY <3>1, Zenon DEF TasksGrow
    <3> QED BY <2>1, <2>2, <3>1, <3>4, <3>5, AwaitsSame, ZenonT(30)
  <2>4. ASSUME NEW k \in DOMAIN more, j = Len(callbacks) - 1 + k, b = more[k]
        PROVE  \E id \in DOMAIN task' : Awaits(callbacks[j].waiter, id)' /\ OutOfTheWay(id, j)'
    <3>1. PICK id \in DOMAIN task' : Awaits(b.waiter, id) /\ OutOfTheWay(id, j)'
      <4>1. j = n - 1 + k
        BY <2>4, Zenon
      <4> QED BY <2>4, <4>1, Zenon
    <3> QED BY <2>1, <2>2, <3>1, AwaitsSame, Zenon
  <2> QED BY <1>2, <2>1, <2>3, <2>4, ZenonT(30)
<1>8. ASSUME NEW c \in Callers, caller'[c].result = "stopped"
      PROVE  CallerAt(c, "idle")' /\ OutOfTheWay(caller[c].id, 1)'
  <2>1. PICK id : id = caller[c].id /\ id = caller'[c].id
    BY Zenon DEF CallsStay
  <2>2. CASE caller[c].result = "stopped"
    <3>1. OutOfTheWay(id, 1) /\ caller'[c].pc = "idle"
      BY <1>1, <2>1, <2>2, ZenonT(30) DEF WaitersInv, CallsStay, CallerAt
    <3>2. \A a : FreedBefore(1, a) => FreedBefore(1, a)'
      BY FirstIsFirst, Zenon
    <3>3. OutOfTheWay(id, 1)'
      BY <3>1, <3>2, OutStays, Zenon
    <3> QED BY <2>1, <3>1, <3>3, Zenon DEF CallerAt
  <2>3. CASE caller[c].result # "stopped"
    BY <1>8, <2>1, <2>3, Zenon DEF CallsStay, CallerAt
  <2> QED BY <2>2, <2>3, Zenon
<1> QED BY <1>4, <1>5, <1>6, <1>7, <1>8, Zenon DEF WaitersInv

LEMMA PopStarts ==
    ASSUME RuntimeInv, TasksGrow, task' \in Seq(Tasks), \A a \in DOMAIN tasks' : tasks'[a] \in DOMAIN task',
           callbacks # <<>>, NEW more \in Seq(Callbacks), callbacks' = Tail(callbacks) \o more,
           callbacks[1].what = "done" => callbacks[1].alias \notin DOMAIN tasks',
           \A k \in DOMAIN more : more[k].what = "wake"
    PROVE  StartsInv'
<1>1. /\ callbacks \in Seq(Callbacks) /\ task \in Seq(Tasks)
      /\ DOMAIN callbacks = 1 .. Len(callbacks) /\ Len(callbacks) \in Nat /\ StartsInv
      /\ DOMAIN task = 1 .. Len(task) /\ Len(task) \in Nat
      /\ \A i \in DOMAIN callbacks : callbacks[i] \in Callbacks
  BY RuntimeFacts, Zenon DEF RuntimeInv
<1>2. /\ callbacks' \in Seq(Callbacks) /\ 1 \in DOMAIN callbacks
      /\ \A i \in DOMAIN callbacks' :
            \/ i + 1 \in DOMAIN callbacks /\ callbacks'[i] = callbacks[i + 1]
            \/ \E k \in DOMAIN more : i = Len(callbacks) - 1 + k /\ callbacks'[i] = more[k]
  BY <1>1, PoppedFacts, Zenon
<1>3. \A j \in DOMAIN callbacks, a \in DOMAIN tasks' :
        j # 1 /\ FreedBefore(j, a) => FreedBefore(j - 1, a)'
  BY OutPopped, Zenon
<1>4. SUFFICES ASSUME NEW j \in DOMAIN callbacks', callbacks'[j].what = "start", callbacks'[j].after # NoTask
               PROVE  /\ callbacks'[j].after <= Len(task')
                      /\ callbacks'[j].alias \in DOMAIN tasks' =>
                            \/ tasks'[callbacks'[j].alias] > callbacks'[j].after
                            \/ FreedBefore(j, callbacks[j].alias)'
  BY Zenon DEF StartsInv
<1>5. PICK b \in Callbacks : b = callbacks'[j]
  BY <1>2, SMT, SMTT(30)
<1>6. j + 1 \in DOMAIN callbacks /\ b = callbacks[j + 1]
  BY <1>2, <1>4, <1>5, Zenon
<1>7. /\ b.after <= Len(task) /\ b.after \in Nat
      /\ b.alias \in DOMAIN tasks => tasks[b.alias] > b.after \/ FreedBefore(j + 1, b.alias)
  <2>1. b.what = "start" /\ b.after # NoTask /\ b.after \in Nat
    BY <1>4, <1>5, CallbackFields, Zenon
  <2>2. /\ b.after <= Len(task)
        /\ b.alias \in DOMAIN tasks => tasks[b.alias] > b.after \/ FreedBefore(j + 1, b.alias)
    BY <1>1, <1>6, <2>1, Zenon DEF StartsInv
  <2> QED BY <2>1, <2>2, Zenon
<1>8. b.after <= Len(task') /\ Len(task') \in Nat
  BY <1>1, <1>7 DEF TasksGrow
<1>9. ASSUME b.alias \in DOMAIN tasks' PROVE tasks'[b.alias] > b.after \/ FreedBefore(j, b.alias)'
  <2>1. CASE tasks'[b.alias] \notin DOMAIN task
    <3>1. tasks'[b.alias] \in 1 .. Len(task') /\ tasks'[b.alias] \notin 1 .. Len(task)
      BY <1>1, <1>8, <1>9, <2>1, SMT, SMTT(30)
    <3> QED BY <1>1, <1>7, <3>1
  <2>2. CASE b.alias \in DOMAIN tasks /\ tasks'[b.alias] = tasks[b.alias]
    <3>1. j \in Nat /\ j + 1 # 1 /\ (j + 1) - 1 = j
      BY <1>2
    <3>2. FreedBefore(j + 1, b.alias) => FreedBefore((j + 1) - 1, b.alias)'
      BY <1>3, <1>6, <1>9, <3>1, Zenon
    <3> QED BY <1>7, <2>2, <3>1, <3>2, Zenon
  <2> QED BY <1>9, <2>1, <2>2, Zenon DEF TasksGrow
<1> QED BY <1>5, <1>8, <1>9, Zenon

\* A callback other than done keeps what is registered and what is to be freed.
LEMMA PopRegistered ==
    ASSUME RuntimeInv, callbacks # <<>>, NEW more \in Seq(Callbacks), callbacks' = Tail(callbacks) \o more,
           callbacks[1].what # "done", \A k \in DOMAIN more : more[k].what = "wake",
           \A a \in DOMAIN tasks :
              /\ a \in DOMAIN tasks' /\ tasks'[a] = tasks[a] /\ task'[tasks[a]].alias = task[tasks[a]].alias
              /\ task'[tasks[a]].state = "ended" <=> task[tasks[a]].state = "ended",
           \A a \in DOMAIN tasks' \ DOMAIN tasks :
              task'[tasks'[a]].alias = a /\ task'[tasks'[a]].state # "ended"
    PROVE  RegisteredInv'
<1>1. /\ callbacks \in Seq(Callbacks)
      /\ DOMAIN callbacks = 1 .. Len(callbacks) /\ Len(callbacks) \in Nat /\ RegisteredInv
  BY RuntimeFacts, Zenon DEF RuntimeInv
<1>2. /\ callbacks' \in Seq(Callbacks) /\ 1 \in DOMAIN callbacks
      /\ \A i \in DOMAIN callbacks : i # 1 =>
            /\ i - 1 \in DOMAIN callbacks' /\ callbacks'[i - 1] = callbacks[i]
      /\ \A i \in DOMAIN callbacks' :
            \/ i + 1 \in DOMAIN callbacks /\ callbacks'[i] = callbacks[i + 1]
            \/ \E k \in DOMAIN more : i = Len(callbacks) - 1 + k /\ callbacks'[i] = more[k]
  BY <1>1, PoppedFacts, Zenon
<1>3. \A i \in DOMAIN callbacks : \A a : Frees(i, a) => i # 1 /\ i - 1 \in DOMAIN callbacks' /\ Frees(i - 1, a)'
  BY <1>2, Zenon DEF Frees
<1>4. \A i \in DOMAIN callbacks' : \A a : Frees(i, a)' => i + 1 \in DOMAIN callbacks /\ Frees(i + 1, a)
  BY <1>2, Zenon DEF Frees
<1>5. ASSUME NEW a \in DOMAIN tasks'
      PROVE  /\ task'[tasks'[a]].alias = a
             /\ task'[tasks'[a]].state = "ended" => \E i \in DOMAIN callbacks' : Frees(i, a)'
  BY <1>1, <1>3, SMT, SMTT(30) DEF RegisteredInv
<1>6. ASSUME NEW i \in DOMAIN callbacks', NEW a \in Aliases, Frees(i, a)'
      PROVE  /\ a \in DOMAIN tasks' /\ task'[tasks'[a]].state = "ended"
             /\ \A j \in DOMAIN callbacks' : Frees(j, a)' => j = i
  <2>1. i + 1 \in DOMAIN callbacks /\ Frees(i + 1, a)
    BY <1>4, <1>6, Zenon
  <2>2. a \in DOMAIN tasks /\ task[tasks[a]].state = "ended"
    BY <1>1, <2>1, Zenon DEF RegisteredInv
  <2>3. ASSUME NEW j \in DOMAIN callbacks', Frees(j, a)' PROVE j = i
    <3>1. j + 1 = i + 1
      BY <1>1, <1>4, <2>1, <2>3, Zenon DEF RegisteredInv
    <3> QED BY <1>2, <3>1, SMT, SMTT(30)
  <2> QED BY <2>2, <2>3, Zenon
<1> QED BY <1>5, <1>6, Zenon DEF RegisteredInv

LEMMA PopPhases ==
    ASSUME RuntimeInv, Runs, CallsStay, closed' = closed,
           callbacks # <<>>, NEW more \in Seq(Callbacks), callbacks' = Tail(callbacks) \o more,
           \A k \in DOMAIN more : more[k].what = "wake",
           loop' \in {"running", "stopping", "draining", "broken"}, loop' # "running" => closed,
           thread' \notin {"none", "starting"},
           \A id \in DOMAIN task' : task'[id].state # "ended" =>
              /\ loop' = "draining" => id \in drained'
              /\ task'[id].alias \in DOMAIN tasks' /\ tasks'[task'[id].alias] = id
    PROVE  PhasesInv'
<1>1. callbacks \in Seq(Callbacks) /\ PhasesInv
  BY RuntimeFacts, Zenon DEF RuntimeInv
<1>2. \A i \in DOMAIN callbacks' :
         \/ i + 1 \in DOMAIN callbacks /\ callbacks'[i] = callbacks[i + 1]
         \/ \E k \in DOMAIN more : i = Len(callbacks) - 1 + k /\ callbacks'[i] = more[k]
  BY <1>1, PoppedFacts, Zenon
<1>3. \A i \in DOMAIN callbacks' : callbacks'[i].what = "stop" => closed'
  BY <1>1, <1>2, Zenon DEF PhasesInv
<1>4. \A c \in Callers : CallerAt(c, "submit_stop")' => closed'
  BY <1>1, Zenon DEF PhasesInv, CallsStay, CallerAt
<1> QED BY <1>3, <1>4, Zenon DEF PhasesInv

\* The shapes after a step of the loop.
LEMMA LoopShapes ==
    ASSUME RuntimeInv, CallsStay, closed' = closed, task' \in Seq(Tasks), callbacks' \in Seq(Callbacks),
           loop' \in {"running", "stopping", "draining", "broken"},
           thread' \in {"none", "starting", "running", "gone"},
           DOMAIN tasks' \subseteq Aliases, \A a \in DOMAIN tasks' : tasks'[a] \in DOMAIN task',
           drained' = drained, TasksGrow
    PROVE  RuntimeShapes'
<1>1. RuntimeTypeOK
  BY Zenon DEF RuntimeInv, RuntimeShapes
<1>2. \A id \in DOMAIN task' : task'[id].alias \in Aliases
        /\ task'[id].state \in {"running", "cancelling", "deaf", "ended"}
  <2>1. \A id \in DOMAIN task' : task'[id] \in Tasks
    OBVIOUS
  <2> QED BY <2>1, Zenon DEF Tasks
<1>3. drained' \subseteq DOMAIN task'
  BY <1>1, Zenon DEF RuntimeTypeOK, TasksGrow
<1>4. \A c \in Callers : caller'[c].calls \in 0 .. MaxCalls
  BY <1>1, Zenon DEF RuntimeTypeOK, CallsStay
<1>5. RuntimeTypeOK'
  BY <1>1, <1>2, <1>3, <1>4, Zenon DEF RuntimeTypeOK
<1> QED BY <1>5, Zenon DEF RuntimeShapes, CallsStay

\* While the loop runs.
LEMMA RunningFacts ==
    ASSUME RuntimeInv, Runs
    PROVE  /\ loop \in {"running", "stopping", "draining", "broken"} /\ (loop # "running" => closed)
           /\ thread \in {"none", "starting", "running", "gone"} /\ thread \notin {"none", "starting"}
           /\ \A id \in DOMAIN task : task[id].state # "ended" =>
                 /\ loop = "draining" => id \in drained
                 /\ task[id].alias \in DOMAIN tasks /\ tasks[task[id].alias] = id
           /\ \A id \in DOMAIN task : \A k \in DOMAIN task[id].waiters : Awaits(task[id].waiters[k], id)
           /\ drained \subseteq DOMAIN task
  BY Zenon DEF RuntimeInv, Runs, PhasesInv, RuntimeShapes, RuntimeTypeOK, WaitersInv

LEMMA NoMore ==
    ASSUME RuntimeInv, callbacks # <<>>
    PROVE  /\ Tail(callbacks) = Tail(callbacks) \o <<>> /\ <<>> \in Seq(Callbacks) /\ DOMAIN <<>> = {}
           /\ Head(callbacks) = callbacks[1] /\ callbacks[1] \in Callbacks /\ 1 \in DOMAIN callbacks
<1>1. callbacks \in Seq(Callbacks)
  BY RuntimeFacts, Zenon
<1>2. Tail(callbacks) \in Seq(Callbacks)
  BY <1>1
<1> QED BY <1>1, <1>2

\* A callback that only the callers or the loop notice.
LEMMA QuietCallbackInv ==
    ASSUME RuntimeInv, Runs, CallsStay, UNCHANGED <<closed, drained, tasks, task>>,
           callbacks # <<>>, callbacks' = Tail(callbacks), callbacks[1].what # "done",
           loop' \in {loop, "stopping", "broken"}, loop' # loop => closed,
           thread' = thread \/ thread' = "gone"
    PROVE  RuntimeInv'
<1>1. /\ task \in Seq(Tasks) /\ callbacks \in Seq(Callbacks) /\ Len(callbacks) \in Nat
      /\ DOMAIN tasks \subseteq Aliases /\ \A a \in DOMAIN tasks : tasks[a] \in DOMAIN task
      /\ Len(task) \in Nat
  BY RuntimeFacts, Zenon
<1>2. /\ callbacks' = Tail(callbacks) \o <<>> /\ <<>> \in Seq(Callbacks) /\ DOMAIN <<>> = {}
      /\ callbacks' \in Seq(Callbacks)
  BY <1>1, NoMore, SMT, SMTT(30)
<1>3. TasksGrow
  BY <1>1, SMT, SMTT(30) DEF TasksGrow
<1>4. /\ loop' \in {"running", "stopping", "draining", "broken"} /\ (loop' # "running" => closed)
      /\ thread' \in {"none", "starting", "running", "gone"} /\ thread' \notin {"none", "starting"}
  BY RunningFacts, Zenon
<1>5. RuntimeShapes'
  BY <1>1, <1>2, <1>3, <1>4, LoopShapes, Zenon
<1>6. PhasesInv'
  <2>1. \A id \in DOMAIN task' : task'[id].state # "ended" =>
              /\ loop' = "draining" => id \in drained'
              /\ task'[id].alias \in DOMAIN tasks' /\ tasks'[task'[id].alias] = id
    BY RunningFacts, Zenon
  <2> QED BY <1>2, <1>4, <2>1, PopPhases, Zenon
<1>7. RegisteredInv'
  BY <1>2, PopRegistered, Zenon
<1>8. StartsInv'
  BY <1>1, <1>2, <1>3, PopStarts, Zenon
<1>9. WaitersInv'
  <2>1. \A id \in DOMAIN task' : \A k \in DOMAIN task'[id].waiters : Awaits(task'[id].waiters[k], id)
    BY RunningFacts, Zenon
  <2>2. PICK n \in Nat : n = Len(callbacks)
    BY <1>1, Zenon
  <2> QED BY <1>1, <1>2, <1>3, <2>1, <2>2, PopWaiters, Zenon
<1> QED BY <1>5, <1>6, <1>7, <1>8, <1>9, Zenon DEF RuntimeInv

LEMMA CallsSame ==
    ASSUME RuntimeInv, caller' = caller
    PROVE  CallsStay
  BY RuntimeFacts, Zenon DEF CallsStay

\* A stop, and the end of a stop_one.
LEMMA StopCallbackInv ==
    ASSUME RuntimeInv, Runs, callbacks # <<>>, callbacks' = Tail(callbacks), callbacks[1].what = "stop",
           \/ loop # "draining" /\ loop' = "stopping" /\ UNCHANGED thread
           \/ loop = "draining" /\ loop' = "broken" /\ thread' = "gone",
           UNCHANGED <<closed, drained, tasks, task, caller>>
    PROVE  RuntimeInv'
<1>1. closed
  BY NoMore, Zenon DEF RuntimeInv, PhasesInv
<1>2. loop' \in {loop, "stopping", "broken"} /\ (thread' = thread \/ thread' = "gone")
  BY Zenon
<1> QED BY <1>1, <1>2, CallsSame, QuietCallbackInv, Zenon

LEMMA WakeCallbackInv ==
    ASSUME RuntimeInv, Runs, callbacks # <<>>, callbacks' = Tail(callbacks), callbacks[1].what = "wake",
           LET c == callbacks[1].waiter.by IN
             IF CallerAt(c, "wait_cancel") /\ callbacks[1].waiter = ThisCall(c)
             THEN Return(c, "stopped") \/ (loop = "draining" /\ Return(c, "raised"))
             ELSE UNCHANGED caller,
           UNCHANGED <<closed, drained, tasks, task, loop, thread>>
    PROVE  RuntimeInv'
<1>1. CASE caller' = caller
  BY <1>1, CallsSame, QuietCallbackInv, Zenon
<1>2. CASE caller' # caller
  <2>1. PICK c \in Callers : c = callbacks[1].waiter.by
    <3>1. callbacks[1].waiter \in Waiters
      BY NoMore, CallbackFields, Zenon
    <3> QED BY <3>1, Zenon DEF Waiters
  <2>2. /\ callbacks[1].waiter = ThisCall(c) /\ ThisCall(c).by = c
        /\ Return(c, "stopped") \/ Return(c, "raised")
    BY <1>2, <2>1, Zenon DEF ThisCall
  <2>3. PICK result \in {"stopped", "raised"} : Return(c, result)
    BY <2>2, Zenon
  <2>4. caller \in [Callers -> CallerLocals] /\ result \in CallerResults /\ "idle" \in CallerPlaces
    BY RuntimeFacts, Zenon DEF CallerResults, CallerPlaces
  <2>5. PICK l : l = [caller[c] EXCEPT !.pc = "idle", !.result = result]
    BY Zenon
  <2>6. l \in CallerLocals /\ l.calls = caller[c].calls /\ l.id = caller[c].id /\ l.pc = "idle"
    BY <2>4, <2>5, Zenon DEF CallerLocals
  <2>7. caller' = [caller EXCEPT ![c] = l]
    BY <2>3, <2>4, <2>5, Zenon DEF Return
  <2>8. OutOfTheWay(caller[c].id, 1)
    <3>1. PICK id \in DOMAIN task : Awaits(callbacks[1].waiter, id) /\ OutOfTheWay(id, 1)
      BY NoMore, Zenon DEF RuntimeInv, WaitersInv
    <3>2. id = caller[c].id
      BY <2>2, <3>1, Zenon DEF Awaits
    <3> QED BY <3>1, <3>2, Zenon
  <2>9. PICK me : me = caller[c].id
    BY Zenon
  <2>10. OutOfTheWay(me, 1)'
    <3>1. TasksGrow
      BY RuntimeFacts, SMT, SMTT(30) DEF TasksGrow
    <3>2. \A a : FreedBefore(1, a) => FreedBefore(1, a)'
      BY FirstIsFirst, Zenon
    <3> QED BY <2>8, <2>9, <3>1, <3>2, OutStays, Zenon
  <2>11. CallsStay
    <3>1. caller' \in [Callers -> CallerLocals] /\ caller'[c] = l
          /\ \A x \in Callers \ {c} : caller'[x] = caller[x]
      BY <2>4, <2>6, <2>7, Zenon
    <3>2. caller'[c].id = me /\ OutOfTheWay(caller[c].id, 1)'
      BY <2>6, <2>9, <2>10, <3>1, Zenon
    <3> QED BY <2>6, <3>1, <3>2, Zenon DEF CallsStay
  <2> QED BY <2>11, QuietCallbackInv, Zenon
<1> QED BY <1>1, <1>2, Zenon

\* A start: the task is new, if there is one.
LEMMA StartCallbackInv ==
    ASSUME RuntimeInv, Runs, callbacks # <<>>, callbacks' = Tail(callbacks), callbacks[1].what = "start",
           StartTask(callbacks[1].alias), UNCHANGED <<closed, drained, loop, thread, caller>>
    PROVE  RuntimeInv'
<1>1. CASE UNCHANGED <<tasks, task>>
  BY <1>1, CallsSame, QuietCallbackInv, Zenon
<1>2. CASE ~closed /\ callbacks[1].alias \notin DOMAIN tasks /\ Created(callbacks[1].alias)
  <2>1. PICK a \in Aliases : a = callbacks[1].alias
    BY NoMore, CallbackFields, Zenon
  <2>2. /\ task \in Seq(Tasks) /\ callbacks \in Seq(Callbacks) /\ Len(callbacks) \in Nat
        /\ DOMAIN tasks \subseteq Aliases /\ \A x \in DOMAIN tasks : tasks[x] \in DOMAIN task
        /\ Len(task) \in Nat /\ DOMAIN task = 1 .. Len(task)
    BY RuntimeFacts, Zenon
  <2>3. PICK r : r = [alias |-> a, state |-> "running", waiters |-> <<>>]
    BY ZenonT(30)
  <2>4. r \in Tasks /\ r.alias = a /\ r.state = "running" /\ r.waiters = <<>>
    BY <2>3 DEF Tasks
  <2>5. PICK id \in Nat : id = Len(task) + 1
    BY <2>2, SMT, SMTT(30)
  <2>6. task' = Append(task, r) /\ tasks' = [x \in DOMAIN tasks \cup {a} |-> IF x = a THEN id ELSE tasks[x]]
    BY <1>2, <2>1, <2>3, <2>5, Zenon DEF Created
  <2>7. /\ task' \in Seq(Tasks) /\ Len(task') = id /\ DOMAIN task' = DOMAIN task \cup {id}
        /\ task'[id] = r /\ \A x \in DOMAIN task : task'[x] = task[x]
        /\ id \notin DOMAIN task
    BY <2>2, <2>4, <2>5, <2>6, SMT, SMTT(30)
  <2>8. /\ DOMAIN tasks' = DOMAIN tasks \cup {a} /\ tasks'[a] = id
        /\ \A x \in DOMAIN tasks : tasks'[x] = tasks[x] /\ x # a
        /\ \A x \in DOMAIN tasks' : tasks'[x] \in DOMAIN task'
    BY <1>2, <2>1, <2>2, <2>6, <2>7, Zenon
  <2>9. TasksGrow
    BY <2>2, <2>5, <2>7, <2>8, SMT, SMTT(30) DEF TasksGrow
  <2>10. /\ callbacks' = Tail(callbacks) \o <<>> /\ <<>> \in Seq(Callbacks) /\ DOMAIN <<>> = {}
         /\ callbacks' \in Seq(Callbacks)
    BY <2>2, NoMore, SMT, SMTT(30)
  <2>11. CallsStay
    BY CallsSame, Zenon
  <2>12. RuntimeShapes'
    <3>1. DOMAIN tasks' \subseteq Aliases
      BY <2>2, <2>8, Zenon
    <3> QED BY <2>7, <2>8, <2>9, <2>10, <2>11, <3>1, RunningFacts, LoopShapes, ZenonT(30)
  <2>13. PhasesInv'
    <3>1. loop = "running"
      BY <1>2, RunningFacts, Zenon
    <3>2. \A x \in DOMAIN task' : task'[x].state # "ended" =>
              /\ loop' = "draining" => x \in drained'
              /\ task'[x].alias \in DOMAIN tasks' /\ tasks'[task'[x].alias] = x
      BY <2>4, <2>7, <2>8, <3>1, RunningFacts
    <3> QED BY <2>10, <2>11, <3>1, <3>2, RunningFacts, PopPhases, ZenonT(30)
  <2>14. RegisteredInv'
    BY <2>2, <2>4, <2>7, <2>8, <2>10, PopRegistered, ZenonT(30)
  <2>15. StartsInv'
    BY <2>7, <2>8, <2>9, <2>10, PopStarts, ZenonT(30)
  <2>16. WaitersInv'
    <3>1. \A x \in DOMAIN task : \A k \in DOMAIN task[x].waiters : Awaits(task[x].waiters[k], x)
      BY RunningFacts, Zenon
    <3>2. DOMAIN task'[id].waiters = {}
      BY <2>4, <2>7
    <3>3. \A x \in DOMAIN task' : \A k \in DOMAIN task'[x].waiters : Awaits(task'[x].waiters[k], x)
      BY <2>7, <3>1, <3>2, Zenon
    <3>4. PICK n \in Nat : n = Len(callbacks)
      BY <2>2, Zenon
    <3> QED BY <2>7, <2>9, <2>10, <2>11, <3>3, <3>4, PopWaiters, Zenon
  <2> QED BY <2>12, <2>13, <2>14, <2>15, <2>16, Zenon DEF RuntimeInv
<1> QED BY <1>1, <1>2, Zenon DEF StartTask

\* A task that has ended frees its alias.
LEMMA DoneCallbackInv ==
    ASSUME RuntimeInv, Runs, callbacks # <<>>, callbacks' = Tail(callbacks), callbacks[1].what = "done",
           Done(callbacks[1].alias), UNCHANGED <<closed, drained, loop, thread, task, caller>>
    PROVE  RuntimeInv'
<1>1. PICK b \in Aliases : b = callbacks[1].alias
  BY NoMore, CallbackFields, Zenon
<1>2. /\ task \in Seq(Tasks) /\ callbacks \in Seq(Callbacks) /\ Len(callbacks) \in Nat
      /\ DOMAIN tasks \subseteq Aliases /\ \A x \in DOMAIN tasks : tasks[x] \in DOMAIN task
      /\ Len(task) \in Nat /\ DOMAIN task = 1 .. Len(task) /\ DOMAIN callbacks = 1 .. Len(callbacks)
  BY RuntimeFacts, Zenon
<1>3. /\ DOMAIN tasks' = DOMAIN tasks \ {b} /\ \A x \in DOMAIN tasks' : tasks'[x] = tasks[x]
      /\ callbacks[1].alias \notin DOMAIN tasks'
  BY <1>1, Zenon DEF Done
<1>4. Frees(1, b) /\ 1 \in DOMAIN callbacks
  BY <1>1, NoMore, Zenon DEF Frees
<1>5. RegisteredInv /\ \A j \in DOMAIN callbacks : Frees(j, b) => j = 1
  BY <1>4, Zenon DEF RuntimeInv, RegisteredInv
<1>6. TasksGrow
  BY <1>2, <1>3, SMT, SMTT(30) DEF TasksGrow
<1>7. /\ callbacks' = Tail(callbacks) \o <<>> /\ <<>> \in Seq(Callbacks) /\ DOMAIN <<>> = {}
      /\ callbacks' \in Seq(Callbacks)
  BY <1>2, NoMore
<1>8. CallsStay
  BY CallsSame, Zenon
<1>9. RuntimeShapes'
  <2>1. DOMAIN tasks' \subseteq Aliases /\ \A x \in DOMAIN tasks' : tasks'[x] \in DOMAIN task'
    BY <1>2, <1>3, ZenonT(30)
  <2> QED BY <1>2, <1>6, <1>7, <1>8, <2>1, RunningFacts, LoopShapes, Zenon
<1>10. PhasesInv'
  <2>1. b \in DOMAIN tasks /\ task[tasks[b]].state = "ended"
    BY <1>4, <1>5, ZenonT(30) DEF RegisteredInv
  <2>2. \A x \in DOMAIN task' : task'[x].state # "ended" =>
          /\ loop' = "draining" => x \in drained'
          /\ task'[x].alias \in DOMAIN tasks' /\ tasks'[task'[x].alias] = x
    BY <1>3, <2>1, RunningFacts, ZenonT(30)
  <2> QED BY <1>7, <1>8, <2>2, RunningFacts, PopPhases, ZenonT(30)
<1>11. RegisteredInv'
  <2>1. /\ \A i \in DOMAIN callbacks : i # 1 =>
              /\ i - 1 \in DOMAIN callbacks' /\ callbacks'[i - 1] = callbacks[i]
        /\ \A i \in DOMAIN callbacks' : i + 1 \in DOMAIN callbacks /\ callbacks'[i] = callbacks[i + 1]
    <3>1. /\ \A i \in DOMAIN callbacks : i # 1 =>
                /\ i - 1 \in DOMAIN callbacks' /\ callbacks'[i - 1] = callbacks[i]
          /\ \A i \in DOMAIN callbacks' :
                \/ i + 1 \in DOMAIN callbacks /\ callbacks'[i] = callbacks[i + 1]
                \/ \E k \in DOMAIN <<>> : i = Len(callbacks) - 1 + k /\ callbacks'[i] = <<>>[k]
      BY <1>2, <1>7, PoppedFacts, Zenon
    <3> QED BY <1>7, <3>1, Zenon
  <2>2. ASSUME NEW a \in DOMAIN tasks'
        PROVE  /\ task'[tasks'[a]].alias = a
               /\ task'[tasks'[a]].state = "ended" => \E i \in DOMAIN callbacks' : Frees(i, a)'
    <3>1. a \in DOMAIN tasks /\ tasks'[a] = tasks[a] /\ a # b /\ task[tasks[a]].alias = a
      BY <1>3, <1>5, ZenonT(30) DEF RegisteredInv
    <3>2. ASSUME task[tasks[a]].state = "ended" PROVE \E i \in DOMAIN callbacks' : Frees(i, a)'
      <4>1. PICK i \in DOMAIN callbacks : Frees(i, a)
        BY <1>5, <3>1, <3>2, Zenon DEF RegisteredInv
      <4>2. i # 1
        BY <1>1, <3>1, <4>1, Zenon DEF Frees
      <4>3. i - 1 \in DOMAIN callbacks' /\ Frees(i - 1, a)'
        BY <2>1, <4>1, <4>2, Zenon DEF Frees
      <4> QED BY <4>3, ZenonT(30)
    <3> QED BY <3>1, <3>2, Zenon
  <2>3. ASSUME NEW i \in DOMAIN callbacks', NEW a \in Aliases, Frees(i, a)'
        PROVE  /\ a \in DOMAIN tasks' /\ task'[tasks'[a]].state = "ended"
               /\ \A j \in DOMAIN callbacks' : Frees(j, a)' => j = i
    <3>1. i + 1 \in DOMAIN callbacks /\ Frees(i + 1, a) /\ i \in Nat /\ i # 0
      BY <1>7, <2>1, <2>3, SMT, SMTT(30) DEF Frees
    <3>2. a # b
      BY <1>5, <3>1, SMT, SMTT(30)
    <3>3. a \in DOMAIN tasks /\ task[tasks[a]].state = "ended"
      BY <1>5, <3>1, Zenon DEF RegisteredInv
    <3>4. ASSUME NEW j \in DOMAIN callbacks', Frees(j, a)' PROVE j = i
      <4>1. j + 1 \in DOMAIN callbacks /\ Frees(j + 1, a) /\ j \in Nat
        BY <1>7, <2>1, <3>4, SMT, SMTT(30) DEF Frees
      <4>2. j + 1 = i + 1
        BY <1>5, <3>1, <4>1, Zenon DEF RegisteredInv
      <4> QED BY <3>1, <4>1, <4>2, SMT, SMTT(30)
    <3> QED BY <1>3, <3>2, <3>3, <3>4, Zenon
  <2> QED BY <2>2, <2>3, Zenon DEF RegisteredInv
<1>12. StartsInv'
  BY <1>2, <1>3, <1>6, <1>7, PopStarts, ZenonT(30)
<1>13. WaitersInv'
  <2>1. \A x \in DOMAIN task' : \A k \in DOMAIN task'[x].waiters : Awaits(task'[x].waiters[k], x)
    BY RunningFacts, ZenonT(30)
  <2>2. PICK n \in Nat : n = Len(callbacks)
    BY <1>2, Zenon
  <2> QED BY <1>2, <1>3, <1>6, <1>7, <1>8, <2>1, <2>2, PopWaiters, ZenonT(30)
<1> QED BY <1>9, <1>10, <1>11, <1>12, <1>13, Zenon DEF RuntimeInv

\* A cancellation: of a task that has ended it is over at once.
LEMMA CancelCallbackInv ==
    ASSUME RuntimeInv, Runs, callbacks # <<>>, callbacks[1].what = "cancel",
           CancelAndWait(callbacks[1].id, callbacks[1].waiter),
           UNCHANGED <<closed, drained, loop, thread, tasks, caller>>
    PROVE  RuntimeInv'
<1>1. /\ task \in Seq(Tasks) /\ callbacks \in Seq(Callbacks) /\ Len(callbacks) \in Nat
      /\ DOMAIN tasks \subseteq Aliases /\ \A x \in DOMAIN tasks : tasks[x] \in DOMAIN task
      /\ Len(task) \in Nat /\ DOMAIN task = 1 .. Len(task) /\ DOMAIN callbacks = 1 .. Len(callbacks)
      /\ \A x \in DOMAIN task : task[x] \in Tasks
  BY RuntimeFacts, Zenon
<1>2. PICK id \in DOMAIN task : id = callbacks[1].id
  BY NoMore, Zenon DEF RuntimeInv, WaitersInv
<1>3. PICK waiter \in Waiters : waiter = callbacks[1].waiter
  BY NoMore, CallbackFields, Zenon
<1>4. Awaits(waiter, id)
  BY <1>2, <1>3, NoMore, Zenon DEF RuntimeInv, WaitersInv
<1>5. CallsStay
  BY CallsSame, Zenon
<1>6. PICK n \in Nat : n = Len(callbacks)
  BY <1>1, ZenonT(30)
<1>7. CASE task[id].state = "ended"
  <2>1. PICK w : w = [what |-> "wake", waiter |-> waiter]
    BY Zenon
  <2>2. w \in Callbacks /\ w.what = "wake" /\ w.waiter = waiter
    BY <2>1, Zenon DEF Callbacks
  <2>3. PICK more \in Seq(Callbacks) : more = <<w>>
    <3>1. <<w>> \in Seq(Callbacks)
      BY <2>2
    <3> QED BY <3>1, Zenon
  <2>4. DOMAIN more = {1} /\ more[1] = w /\ Len(more) = 1
    BY <2>3
  <2>5. callbacks' = Tail(callbacks) \o more /\ task' = task
    <3>1. callbacks' = Append(Tail(callbacks), w) /\ task' = task
      BY <1>2, <1>3, <1>7, <2>1, Zenon DEF CancelAndWait
    <3>2. Tail(callbacks) \in Seq(Callbacks)
      BY <1>1
    <3> QED BY <2>2, <2>3, <3>1, <3>2
  <2>6. /\ callbacks' \in Seq(Callbacks)
        /\ \A i \in DOMAIN callbacks : i # 1 =>
              /\ i - 1 \in DOMAIN callbacks' /\ callbacks'[i - 1] = callbacks[i]
    BY <1>1, <2>5, PoppedFacts, Zenon
  <2>7. TasksGrow
    BY <1>1, <2>5 DEF TasksGrow
  <2>8. RuntimeShapes'
    BY <1>1, <1>5, <2>5, <2>6, <2>7, RunningFacts, LoopShapes, ZenonT(30)
  <2>9. \A k \in DOMAIN more : more[k].what = "wake"
    BY <2>2, <2>4, ZenonT(30)
  <2>10. PhasesInv'
    <3>1. \A x \in DOMAIN task' : task'[x].state # "ended" =>
            /\ loop' = "draining" => x \in drained'
            /\ task'[x].alias \in DOMAIN tasks' /\ tasks'[task'[x].alias] = x
      BY <2>5, RunningFacts, ZenonT(30)
    <3> QED BY <1>5, <2>5, <2>9, <3>1, RunningFacts, PopPhases, ZenonT(30)
  <2>11. RegisteredInv'
    BY <2>5, <2>9, PopRegistered, Zenon
  <2>12. StartsInv'
    BY <1>1, <2>5, <2>7, <2>9, PopStarts, Zenon
  <2>13. WaitersInv'
    <3>1. OutOfTheWay(id, n)'
      <4>1. ASSUME NEW a \in DOMAIN tasks, tasks[a] = id PROVE FreedBefore(n, a)'
        <5>1. PICK i \in DOMAIN callbacks : Frees(i, a)
          BY <1>7, <4>1, ZenonT(30) DEF RuntimeInv, RegisteredInv
        <5>2. i # 1
          BY <5>1, Zenon DEF Frees
        <5>3. Frees(i - 1, a)'
          BY <2>6, <5>1, <5>2, Zenon DEF Frees
        <5>4. i - 1 \in 1 .. n - 1
          BY <1>1, <1>6, <5>2, SMT, SMTT(30)
        <5> QED BY <5>3, <5>4, Zenon DEF FreedBefore
      <4>2. \A a \in DOMAIN tasks' : tasks'[a] = id => FreedBefore(n, a)'
        BY <4>1, Zenon
      <4>3. id \in DOMAIN task' /\ task'[id].state = "ended"
        BY <1>7, <2>5, Zenon
      <4> QED BY <4>2, <4>3, Zenon DEF OutOfTheWay
    <3>2. \A k \in DOMAIN more : more[k].what = "wake" /\
            \E x \in DOMAIN task' : Awaits(more[k].waiter, x) /\ OutOfTheWay(x, n - 1 + k)'
      <4>1. n - 1 + 1 = n /\ id \in DOMAIN task'
        BY <2>5
      <4> QED BY <1>4, <2>2, <2>4, <3>1, <4>1, Zenon
    <3>3. \A x \in DOMAIN task' : \A k \in DOMAIN task'[x].waiters : Awaits(task'[x].waiters[k], x)
      BY <2>5, RunningFacts, Zenon
    <3>4. task' \in Seq(Tasks) /\ callbacks[1].what # "done"
      BY <1>1, <2>5, Zenon
    <3> QED BY <1>5, <1>6, <2>5, <2>7, <3>2, <3>3, <3>4, PopWaiters, ZenonT(30)
  <2> QED BY <2>8, <2>10, <2>11, <2>12, <2>13, Zenon DEF RuntimeInv
<1>8. CASE task[id].state # "ended"
  <2>1. PICK r : r = [task[id] EXCEPT !.state = "cancelling", !.waiters = Append(task[id].waiters, waiter)]
    BY Zenon
  <2>2. /\ task[id].waiters \in Seq(Waiters) /\ Append(task[id].waiters, waiter) \in Seq(Waiters)
        /\ \A k \in DOMAIN task[id].waiters :
              Append(task[id].waiters, waiter)[k] = task[id].waiters[k]
    <3>1. PICK s \in Seq(Waiters) : s = task[id].waiters
      BY <1>1, Zenon DEF Tasks
    <3>2. Append(s, waiter) \in Seq(Waiters) /\ \A k \in DOMAIN s : Append(s, waiter)[k] = s[k]
      BY <3>1
    <3> QED BY <3>1, <3>2, Zenon
  <2>3. /\ r \in Tasks /\ r.alias = task[id].alias /\ r.state = "cancelling"
        /\ r.waiters = Append(task[id].waiters, waiter)
    BY <1>1, <2>1, <2>2, Zenon DEF Tasks
  <2>4. callbacks' = Tail(callbacks) /\ task' = [task EXCEPT ![id] = r]
    BY <1>1, <1>2, <1>3, <1>8, <2>1, Zenon DEF CancelAndWait
  <2>5. /\ task' \in Seq(Tasks) /\ Len(task') = Len(task) /\ DOMAIN task' = DOMAIN task
        /\ task'[id] = r /\ \A x \in DOMAIN task \ {id} : task'[x] = task[x]
    BY <1>1, <2>3, <2>4, SMT, SMTT(30)
  <2>6. /\ callbacks' = Tail(callbacks) \o <<>> /\ <<>> \in Seq(Callbacks) /\ DOMAIN <<>> = {}
        /\ callbacks' \in Seq(Callbacks)
    BY <1>1, <2>4, NoMore
  <2>7. TasksGrow
    <3>1. Len(task) <= Len(task')
      BY <1>1, <2>5
    <3>2. \A x \in DOMAIN task :
             /\ x \in DOMAIN task' /\ task'[x].alias = task[x].alias
             /\ task[x].state = "ended" => task'[x].state = "ended"
      BY <1>1, <1>8, <2>3, <2>5, ZenonT(30)
    <3>3. \A a \in DOMAIN tasks' : a \in DOMAIN tasks /\ tasks'[a] = tasks[a]
      BY Zenon
    <3> QED BY <3>1, <3>2, <3>3, Zenon DEF TasksGrow
  <2>8. RuntimeShapes'
    BY <1>1, <1>5, <2>5, <2>6, <2>7, RunningFacts, LoopShapes, ZenonT(30)
  <2>9. PhasesInv'
    <3>1. \A x \in DOMAIN task' : task'[x].state # "ended" =>
            /\ loop' = "draining" => x \in drained'
            /\ task'[x].alias \in DOMAIN tasks' /\ tasks'[task'[x].alias] = x
      BY <1>8, <2>3, <2>5, RunningFacts
    <3> QED BY <1>5, <2>6, <3>1, RunningFacts, PopPhases, ZenonT(40)
  <2>10. RegisteredInv'
    <3>1. \A a \in DOMAIN tasks :
            /\ task'[tasks[a]].alias = task[tasks[a]].alias
            /\ task'[tasks[a]].state = "ended" <=> task[tasks[a]].state = "ended"
      BY <1>1, <1>8, <2>3, <2>5, ZenonT(30)
    <3> QED BY <2>6, <3>1, PopRegistered, ZenonT(30)
  <2>11. StartsInv'
    BY <1>1, <2>5, <2>6, <2>7, PopStarts, ZenonT(30)
  <2>12. WaitersInv'
    <3>1. ASSUME NEW x \in DOMAIN task', NEW k \in DOMAIN task'[x].waiters
          PROVE  Awaits(task'[x].waiters[k], x)
      <4>1. CASE x # id
        BY <2>5, <3>1, <4>1, RunningFacts, Zenon
      <4>2. CASE x = id /\ k \in DOMAIN task[id].waiters
        <5>1. task'[x].waiters[k] = task[id].waiters[k]
          BY <2>2, <2>3, <2>5, <4>2, ZenonT(30)
        <5> QED BY <4>2, <5>1, RunningFacts, Zenon
      <4>3. CASE x = id /\ k \notin DOMAIN task[id].waiters
        <5>1. task'[x].waiters[k] = waiter
          BY <2>2, <2>3, <2>5, <3>1, <4>3
        <5> QED BY <1>4, <4>3, <5>1, ZenonT(30)
      <4> QED BY <4>1, <4>2, <4>3, Zenon
    <3> QED BY <1>1, <1>5, <1>6, <2>5, <2>6, <2>7, <3>1, PopWaiters, ZenonT(30)
  <2> QED BY <2>8, <2>9, <2>10, <2>11, <2>12, Zenon DEF RuntimeInv
<1> QED BY <1>7, <1>8, Zenon

LEMMA CallbackInv ==
    ASSUME RuntimeInv, Callback
    PROVE  RuntimeInv'
<1>1. Runs /\ callbacks # <<>> /\ UNCHANGED <<closed, drained>> /\ Head(callbacks) = callbacks[1]
  BY NoMore, Zenon DEF Callback
<1>2. CASE callbacks[1].what = "start"
  BY <1>1, <1>2, StartCallbackInv, Zenon DEF Callback
<1>3. CASE callbacks[1].what = "done"
  BY <1>1, <1>3, DoneCallbackInv, ZenonT(30) DEF Callback
<1>4. CASE callbacks[1].what = "cancel"
  BY <1>1, <1>4, CancelCallbackInv, ZenonT(30) DEF Callback
<1>5. CASE callbacks[1].what = "wake"
  BY <1>1, <1>5, WakeCallbackInv, ZenonT(30) DEF Callback
<1>6. CASE callbacks[1].what = "stop"
  BY <1>1, <1>6, StopCallbackInv, Zenon DEF Callback
<1> QED BY <1>1, <1>2, <1>3, <1>4, <1>5, <1>6, NoMore, CallbackFields, Zenon

\* A list that grows by one entry and then by k more has three parts.
LEMMA ThreeParts ==
    ASSUME NEW n \in Nat, NEW k \in Nat, NEW j \in 1 .. n + 1 + k
    PROVE  j \in 1 .. n \/ j = n + 1 \/ j \in n + 2 .. n + 1 + k
  OBVIOUS

\* The end of a task: the alias is freed by a callback, and after it the calls
\* that await the task are woken.
LEMMA EndInv ==
    ASSUME RuntimeInv, Runs, NEW id \in DOMAIN task, task[id].state # "ended", End(id)
    PROVE  RuntimeInv'
<1>1. /\ task \in Seq(Tasks) /\ callbacks \in Seq(Callbacks) /\ Len(callbacks) \in Nat
      /\ DOMAIN tasks \subseteq Aliases /\ \A x \in DOMAIN tasks : tasks[x] \in DOMAIN task
      /\ Len(task) \in Nat /\ DOMAIN task = 1 .. Len(task) /\ DOMAIN callbacks = 1 .. Len(callbacks)
      /\ \A x \in DOMAIN task : task[x] \in Tasks
  BY RuntimeFacts, Zenon
<1>2. UNCHANGED <<closed, loop, thread, tasks, drained, caller>>
  BY Zenon DEF End
<1>3. PICK alias \in Aliases : alias = task[id].alias
  BY <1>1, ZenonT(30) DEF Tasks
<1>4. PICK ws \in Seq(Waiters) : ws = task[id].waiters
  BY <1>1, ZenonT(30) DEF Tasks
<1>5. PICK n \in Nat : n = Len(callbacks)
  BY <1>1, Zenon
<1>6. /\ task' \in Seq(Tasks) /\ Len(task') = Len(task) /\ DOMAIN task' = DOMAIN task
      /\ task'[id].alias = alias /\ task'[id].state = "ended" /\ task'[id].waiters = ws
      /\ \A x \in DOMAIN task \ {id} : task'[x] = task[x]
  <2>1. PICK r : r = [task[id] EXCEPT !.state = "ended"]
    BY Zenon
  <2>2. r \in Tasks /\ r.alias = alias /\ r.state = "ended" /\ r.waiters = ws
    BY <1>1, <1>3, <1>4, <2>1, Zenon DEF Tasks
  <2>3. task' = [task EXCEPT ![id] = r]
    BY <1>1, <2>1, Zenon DEF End
  <2> QED BY <1>1, <2>2, <2>3
<1>7. /\ callbacks' \in Seq(Callbacks) /\ DOMAIN callbacks' = 1 .. n + 1 + Len(ws)
      /\ \A i \in 1 .. n : callbacks'[i] = callbacks[i]
      /\ callbacks'[n + 1].what = "done" /\ callbacks'[n + 1].alias = alias
      /\ \A i \in n + 2 .. n + 1 + Len(ws) :
            /\ i - n - 1 \in DOMAIN ws
            /\ callbacks'[i].what = "wake" /\ callbacks'[i].waiter = ws[i - n - 1]
  <2>1. PICK d : d = [what |-> "done", alias |-> alias]
    BY Zenon
  <2>2. d \in Callbacks /\ d.what = "done" /\ d.alias = alias
    BY <2>1, Zenon DEF Callbacks
  <2>3. PICK q \in Seq(Callbacks) : q = Append(callbacks, d)
    <3>1. Append(callbacks, d) \in Seq(Callbacks)
      BY <1>1, <2>2, SMT, SMTT(30)
    <3> QED BY <3>1, Zenon
  <2>4. Len(q) = n + 1 /\ q[n + 1] = d /\ \A i \in 1 .. n : q[i] = callbacks[i]
    BY <1>1, <1>5, <2>3
  <2>5. PICK wakes : wakes = [i \in DOMAIN ws |-> [what |-> "wake", waiter |-> ws[i]]]
    BY ZenonT(30)
  <2>6. \A i \in DOMAIN ws : wakes[i] \in Callbacks /\ wakes[i].what = "wake" /\ wakes[i].waiter = ws[i]
    <3>1. ASSUME NEW i \in DOMAIN ws
          PROVE  wakes[i] \in Callbacks /\ wakes[i].what = "wake" /\ wakes[i].waiter = ws[i]
      <4>1. wakes[i] = [what |-> "wake", waiter |-> ws[i]] /\ ws[i] \in Waiters
        BY <2>5
      <4> QED BY <4>1, SMT, SMTT(30) DEF Callbacks
    <3> QED BY <3>1, Zenon
  <2>7. wakes \in Seq(Callbacks) /\ Len(wakes) = Len(ws) /\ DOMAIN wakes = DOMAIN ws
    <3>1. DOMAIN wakes = 1 .. Len(ws) /\ DOMAIN ws = 1 .. Len(ws) /\ Len(ws) \in Nat
      BY <2>5, SMT, SMTT(30)
    <3>2. wakes = [i \in 1 .. Len(ws) |-> wakes[i]]
      BY <2>5, <3>1, Zenon
    <3>3. wakes \in [1 .. Len(ws) -> Callbacks]
      BY <2>6, <3>1, <3>2, Zenon
    <3> QED BY <3>1, <3>3, SMT, SMTT(30)
  <2>8. callbacks' = q \o wakes
    BY <1>3, <1>4, <2>1, <2>3, <2>5, Zenon DEF End
  <2>9. /\ callbacks' \in Seq(Callbacks) /\ Len(callbacks') = n + 1 + Len(ws)
        /\ \A i \in 1 .. n + 1 : callbacks'[i] = q[i]
        /\ \A i \in n + 2 .. n + 1 + Len(ws) : callbacks'[i] = wakes[i - n - 1]
    <3>1. PICK m \in Nat : m = Len(ws)
      OBVIOUS
    <3>2. q \o wakes \in Seq(Callbacks) /\ Len(q \o wakes) = n + 1 + m
      BY <2>4, <2>7, <3>1, SMT, SMTT(30)
    <3>3. \A i \in 1 .. n + 1 : (q \o wakes)[i] = q[i]
      BY <2>4, <2>7, <3>1, SMT, SMTT(30)
    <3>4. \A i \in n + 2 .. n + 1 + m : (q \o wakes)[i] = wakes[i - (n + 1)]
      BY <2>4, <2>7, <3>1
    <3>5. \A i \in n + 2 .. n + 1 + m : i - (n + 1) = i - n - 1
      OBVIOUS
    <3> QED BY <2>8, <3>1, <3>2, <3>3, <3>4, <3>5, Zenon
  <2>10. DOMAIN callbacks' = 1 .. n + 1 + Len(ws)
    BY <2>9
  <2>11. \A i \in n + 2 .. n + 1 + Len(ws) : i - n - 1 \in DOMAIN ws
    BY SMT, SMTT(30)
  <2>12. \A i \in 1 .. n : callbacks'[i] = callbacks[i]
    BY <2>4, <2>9, SMT, SMTT(30)
  <2>13. callbacks'[n + 1] = d
    BY <2>4, <2>9
  <2>14. ASSUME NEW i \in n + 2 .. n + 1 + Len(ws)
         PROVE  /\ i - n - 1 \in DOMAIN ws
                /\ callbacks'[i].what = "wake" /\ callbacks'[i].waiter = ws[i - n - 1]
    BY <2>6, <2>9, <2>11, Zenon
  <2> QED BY <2>2, <2>9, <2>10, <2>12, <2>13, <2>14, ZenonT(30)
<1>a. \A j \in DOMAIN callbacks' : j \in 1 .. n \/ j = n + 1 \/ j \in n + 2 .. n + 1 + Len(ws)
  <2>1. DOMAIN callbacks' = 1 .. n + 1 + Len(ws)
    BY <1>7, Zenon
  <2>2. Len(ws) \in Nat
    BY <1>4
  <2> QED BY <2>1, <2>2, ThreeParts, Zenon
<1>8. n + 1 \in DOMAIN callbacks' /\ DOMAIN callbacks \subseteq DOMAIN callbacks' /\ n + 1 \notin DOMAIN callbacks
  BY <1>1, <1>5, <1>7
<1>9. /\ \A i, a : Frees(i, a) => Frees(i, a)'
      /\ Frees(n + 1, alias)'
      /\ \A i, a : Frees(i, a)' => Frees(i, a) \/ (i = n + 1 /\ a = alias)
  <2>1. \A i, a : Frees(i, a) => Frees(i, a)'
    BY <1>1, <1>5, <1>7, <1>8, Zenon DEF Frees
  <2>2. Frees(n + 1, alias)'
    BY <1>7, <1>8, Zenon DEF Frees
  <2>3. ASSUME NEW i, NEW a, Frees(i, a)' PROVE Frees(i, a) \/ (i = n + 1 /\ a = alias)
    <3>1. i \in DOMAIN callbacks' /\ callbacks'[i].what = "done" /\ callbacks'[i].alias = a
      BY <2>3, Zenon DEF Frees
    <3>2. i \in 1 .. n \/ i = n + 1 \/ i \in n + 2 .. n + 1 + Len(ws)
      <4>1. i \in 1 .. n + 1 + Len(ws) /\ Len(ws) \in Nat
        BY <1>7, <3>1
      <4> QED BY <4>1, SMT, SMTT(30)
    <3>3. CASE i \in 1 .. n
      BY <1>1, <1>5, <1>7, <3>1, <3>3, Zenon DEF Frees
    <3>4. CASE i = n + 1
      BY <1>7, <3>1, <3>4, Zenon
    <3>5. CASE i \in n + 2 .. n + 1 + Len(ws)
      BY <1>7, <3>1, <3>5, Zenon
    <3> QED BY <3>2, <3>3, <3>4, <3>5, Zenon
  <2> QED BY <2>1, <2>2, <2>3, Zenon
<1>10. /\ \A j, a : FreedBefore(j, a) => FreedBefore(j, a)'
       /\ \A j \in n + 2 .. n + 1 + Len(ws) : FreedBefore(j, alias)'
  <2>1. \A j, a : FreedBefore(j, a) => FreedBefore(j, a)'
    BY <1>9, Zenon DEF FreedBefore
  <2>2. \A j \in n + 2 .. n + 1 + Len(ws) : n + 1 \in 1 .. j - 1
    BY <1>4, SMT, SMTT(30)
  <2>3. \A j \in n + 2 .. n + 1 + Len(ws) : FreedBefore(j, alias)'
    BY <1>9, <2>2, Zenon DEF FreedBefore
  <2> QED BY <2>1, <2>3, Zenon
<1>11. TasksGrow
  <2>1. ASSUME NEW x \in DOMAIN task
        PROVE  /\ x \in DOMAIN task' /\ task'[x].alias = task[x].alias
               /\ task[x].state = "ended" => task'[x].state = "ended"
    BY <1>3, <1>6, Zenon
  <2>2. Len(task) <= Len(task')
    BY <1>1, <1>6, SMT, SMTT(30)
  <2> QED BY <1>2, <2>1, <2>2, Zenon DEF TasksGrow
<1>12. CallsStay
  BY <1>2, CallsSame, Zenon
<1>13. RuntimeShapes'
  <2>1. loop' \in {"running", "stopping", "draining", "broken"} /\ thread' \in {"none", "starting", "running", "gone"}
    BY <1>2, RunningFacts, ZenonT(30)
  <2> QED BY <1>1, <1>2, <1>6, <1>7, <1>11, <1>12, <2>1, LoopShapes, ZenonT(30)
<1>14. alias \in DOMAIN tasks /\ tasks[alias] = id
  BY <1>3, RunningFacts, Zenon
<1>15. \A a \in DOMAIN tasks : tasks[a] = id => a = alias
  BY <1>3, Zenon DEF RuntimeInv, RegisteredInv
<1>16. RegisteredInv'
  <2>1. RegisteredInv
    BY Zenon DEF RuntimeInv
  <2>2. ASSUME NEW a \in DOMAIN tasks
        PROVE  /\ task'[tasks[a]].alias = a
               /\ task'[tasks[a]].state = "ended" => \E i \in DOMAIN callbacks' : Frees(i, a)'
    <3>1. CASE a = alias
      BY <1>6, <1>8, <1>9, <1>14, <3>1, Zenon
    <3>2. CASE a # alias
      <4>1. task'[tasks[a]] = task[tasks[a]]
        BY <1>1, <1>6, <1>15, <3>2, Zenon
      <4> QED BY <1>8, <1>9, <2>1, <4>1, ZenonT(30) DEF RegisteredInv
    <3> QED BY <3>1, <3>2, Zenon
  <2>3. \A i : ~Frees(i, alias)
    <3>1. ASSUME NEW i, Frees(i, alias) PROVE FALSE
      <4>1. i \in DOMAIN callbacks
        BY <3>1, Zenon DEF Frees
      <4> QED BY <1>14, <2>1, <3>1, <4>1, Zenon DEF RegisteredInv
    <3> QED BY <3>1, Zenon
  <2>4. ASSUME NEW i \in DOMAIN callbacks', NEW a \in Aliases, Frees(i, a)'
        PROVE  /\ a \in DOMAIN tasks /\ task'[tasks[a]].state = "ended"
               /\ \A j \in DOMAIN callbacks' : Frees(j, a)' => j = i
    <3>1. CASE a = alias
      <4>1. i = n + 1 /\ \A j : Frees(j, a)' => j = n + 1
        BY <1>9, <2>3, <2>4, <3>1, Zenon
      <4> QED BY <1>6, <1>14, <3>1, <4>1, Zenon
    <3>2. CASE a # alias
      <4>1. Frees(i, a) /\ i \in DOMAIN callbacks
        BY <1>9, <2>4, <3>2, Zenon DEF Frees
      <4>2. a \in DOMAIN tasks /\ task[tasks[a]].state = "ended"
        BY <2>1, <4>1, Zenon DEF RegisteredInv
      <4>3. task'[tasks[a]] = task[tasks[a]]
        BY <1>1, <1>6, <1>15, <3>2, <4>2, Zenon
      <4>4. \A j \in DOMAIN callbacks' : Frees(j, a)' => j \in DOMAIN callbacks /\ Frees(j, a)
        BY <1>9, <3>2, Zenon DEF Frees
      <4>5. \A j \in DOMAIN callbacks : Frees(j, a) => j = i
        BY <2>1, <4>1, ZenonT(30) DEF RegisteredInv
      <4> QED BY <4>2, <4>3, <4>4, <4>5, Zenon
    <3> QED BY <3>1, <3>2, Zenon
  <2> QED BY <1>2, <2>2, <2>4, ZenonT(40) DEF RegisteredInv
<1>17. PhasesInv'
  <2>1. PhasesInv /\ loop \notin {"none", "closed", "gone"}
    BY Zenon DEF RuntimeInv, Runs
  <2>2. \A x \in DOMAIN task' : task'[x].state # "ended" => x \in DOMAIN task /\ x # id /\ task'[x] = task[x]
    BY <1>6, ZenonT(30)
  <2>3. \A i \in DOMAIN callbacks' : callbacks'[i].what = "stop" => closed
    <3>1. ASSUME NEW i \in DOMAIN callbacks', callbacks'[i].what = "stop" PROVE closed
      <4>1. i \in 1 .. n \/ i = n + 1 \/ i \in n + 2 .. n + 1 + Len(ws)
        BY <1>a, Zenon
      <4>2. i \in 1 .. n
        BY <1>7, <3>1, <4>1, Zenon
      <4> QED BY <1>1, <1>5, <1>7, <2>1, <3>1, <4>2, ZenonT(30) DEF PhasesInv
    <3> QED BY <3>1, ZenonT(30)
  <2>4. \A c \in Callers : CallerAt(c, "submit_stop")' => closed
    BY <1>2, <2>1, Zenon DEF PhasesInv, CallerAt
  <2> QED BY <1>2, <2>1, <2>2, <2>3, <2>4, Zenon DEF PhasesInv
<1>18. WaitersInv'
  <2>1. WaitersInv
    BY Zenon DEF RuntimeInv
  <2>2. \A waiter, x : Awaits(waiter, x)' <=> Awaits(waiter, x)
    BY <1>2, Zenon DEF Awaits, ThisCall
  <2>3. \A c \in Callers : CallerAt(c, "submit_cancel")' => caller'[c].id \in DOMAIN task'
    BY <1>2, <1>6, <2>1, ZenonT(30) DEF WaitersInv, CallerAt
  <2>4. \A x \in DOMAIN task' : \A k \in DOMAIN task'[x].waiters : Awaits(task[x].waiters[k], x)'
    <3>1. \A x \in DOMAIN task' : task'[x].waiters = task[x].waiters
      BY <1>4, <1>6, Zenon
    <3>2. ASSUME NEW x \in DOMAIN task', NEW k \in DOMAIN task'[x].waiters
          PROVE  Awaits(task[x].waiters[k], x)'
      <4>1. PICK w : w = task[x].waiters[k]
        BY Zenon
      <4>2. Awaits(w, x)
        BY <1>6, <2>1, <3>1, <3>2, <4>1, ZenonT(30) DEF WaitersInv
      <4>3. Awaits(w, x)'
        BY <2>2, <4>2, Zenon
      <4>4. w = (task[x].waiters[k])'
        BY <3>1, <4>1, Zenon
      <4> QED BY <4>3, <4>4, Zenon
    <3> QED BY <3>2, ZenonT(30)
  <2>5. ASSUME NEW j \in DOMAIN callbacks', callbacks'[j].what = "cancel"
        PROVE  callbacks'[j].id \in DOMAIN task' /\ Awaits(callbacks[j].waiter, callbacks[j].id)'
    <3>1. j \in 1 .. n \/ j = n + 1 \/ j \in n + 2 .. n + 1 + Len(ws)
      BY <1>a, Zenon
    <3>2. j \in DOMAIN callbacks /\ callbacks'[j] = callbacks[j]
      BY <1>1, <1>5, <1>7, <2>5, <3>1, Zenon
    <3>3. PICK b : b = callbacks[j]
      BY Zenon
    <3>4. b.id \in DOMAIN task /\ Awaits(b.waiter, b.id)
      BY <2>1, <2>5, <3>2, <3>3, ZenonT(30) DEF WaitersInv
    <3>5. Awaits(b.waiter, b.id)'
      BY <2>2, <3>4, Zenon
    <3>6. b = callbacks'[j]
      BY <3>2, <3>3, Zenon
    <3> QED BY <1>6, <3>4, <3>5, <3>6, ZenonT(30)
  <2>6. ASSUME NEW j \in DOMAIN callbacks', callbacks'[j].what = "wake"
        PROVE  \E x \in DOMAIN task' : Awaits(callbacks[j].waiter, x)' /\ OutOfTheWay(x, j)'
    <3>1. j \in 1 .. n \/ j = n + 1 \/ j \in n + 2 .. n + 1 + Len(ws)
      BY <1>a, Zenon
    <3>2. PICK b : b = callbacks'[j]
      BY ZenonT(30)
    <3>3. CASE j \in 1 .. n
      <4>1. j \in DOMAIN callbacks /\ b = callbacks[j] /\ b.what = "wake"
        BY <1>1, <1>5, <1>7, <2>6, <3>2, <3>3, ZenonT(30)
      <4>2. PICK x \in DOMAIN task : Awaits(b.waiter, x) /\ OutOfTheWay(x, j)
        BY <2>1, <4>1, Zenon DEF WaitersInv
      <4>3. OutOfTheWay(x, j)'
        BY <1>10, <1>11, <4>2, OutStays, Zenon
      <4>4. Awaits(b.waiter, x)'
        BY <2>2, <4>2, ZenonT(30)
      <4> QED BY <1>6, <3>2, <4>3, <4>4, ZenonT(30)
    <3>4. CASE j \in n + 2 .. n + 1 + Len(ws)
      <4>1. PICK w \in Waiters : w = b.waiter /\ \E k \in DOMAIN ws : w = ws[k]
        <5>1. j - n - 1 \in DOMAIN ws /\ b.waiter = ws[j - n - 1]
          BY <1>7, <3>2, <3>4, Zenon
        <5>2. ws[j - n - 1] \in Waiters
          BY <1>4, <5>1
        <5> QED BY <5>1, <5>2, Zenon
      <4>2. Awaits(w, id)
        BY <1>4, <2>1, <4>1, Zenon DEF WaitersInv
      <4>3. Awaits(w, id)'
        BY <2>2, <4>2, ZenonT(30)
      <4>4. OutOfTheWay(id, j)'
        <5>1. \A a \in DOMAIN tasks' : tasks'[a] = id => FreedBefore(j, a)'
          BY <1>2, <1>10, <1>15, <3>4, ZenonT(30)
        <5> QED BY <1>6, <5>1, Zenon DEF OutOfTheWay
      <4> QED BY <1>6, <3>2, <4>1, <4>3, <4>4, ZenonT(30)
    <3> QED BY <1>7, <2>6, <3>1, <3>3, <3>4, ZenonT(30)
  <2>7. ASSUME NEW c \in Callers, caller'[c].result = "stopped"
        PROVE  CallerAt(c, "idle")' /\ OutOfTheWay(caller[c].id, 1)'
    <3>1. PICK x : x = caller[c].id
      BY ZenonT(30)
    <3>2. CallerAt(c, "idle") /\ OutOfTheWay(x, 1)
      BY <1>2, <2>1, <2>7, <3>1, Zenon DEF WaitersInv
    <3>3. OutOfTheWay(x, 1)'
      BY <1>10, <1>11, <3>2, OutStays, Zenon
    <3>4. x = (caller[c].id)' /\ CallerAt(c, "idle")'
      BY <1>2, <3>1, <3>2, ZenonT(30) DEF CallerAt
    <3> QED BY <3>3, <3>4, ZenonT(30)
  <2> QED BY <2>3, <2>4, <2>5, <2>6, <2>7, Zenon DEF WaitersInv
<1>19. StartsInv'
  <2>1. StartsInv
    BY Zenon DEF RuntimeInv
  <2>2. ASSUME NEW j \in DOMAIN callbacks', callbacks'[j].what = "start", callbacks'[j].after # NoTask
        PROVE  /\ callbacks'[j].after <= Len(task')
               /\ callbacks'[j].alias \in DOMAIN tasks' =>
                     tasks'[callbacks'[j].alias] > callbacks'[j].after \/ FreedBefore(j, callbacks[j].alias)'
    <3>1. j \in 1 .. n \/ j = n + 1 \/ j \in n + 2 .. n + 1 + Len(ws)
      BY <1>a, Zenon
    <3>2. j \in DOMAIN callbacks /\ callbacks'[j] = callbacks[j]
      BY <1>1, <1>5, <1>7, <2>2, <3>1, ZenonT(30)
    <3>3. PICK a : a = callbacks[j].alias
      BY ZenonT(30)
    <3>4. /\ callbacks[j].after <= Len(task)
          /\ a \in DOMAIN tasks => tasks[a] > callbacks[j].after \/ FreedBefore(j, a)
      BY <2>1, <2>2, <3>2, <3>3, ZenonT(30) DEF StartsInv
    <3>5. FreedBefore(j, a) => FreedBefore(j, a)'
      BY <1>10, Zenon
    <3>6. a = (callbacks[j].alias)'
      BY <3>2, <3>3, Zenon
    <3> QED BY <1>2, <1>6, <3>2, <3>3, <3>4, <3>5, <3>6, ZenonT(30)
  <2> QED BY <2>2, Zenon DEF StartsInv
<1> QED BY <1>13, <1>16, <1>17, <1>18, <1>19, Zenon DEF RuntimeInv

LEMMA RuntimeStarts ==
    ASSUME RuntimeInit
    PROVE  RuntimeInv
<1>1. callbacks = <<>> /\ task = <<>> /\ tasks = <<>> /\ DOMAIN <<>> = {} /\ drained = {}
  BY DEF RuntimeInit
<1>2. callbacks \in Seq(Callbacks) /\ task \in Seq(Tasks)
  BY <1>1, SMT, SMTT(30)
<1>3. /\ caller \in [Callers -> CallerLocals]
      /\ \A c \in Callers : caller[c].pc = "idle" /\ caller[c].calls = 0 /\ caller[c].result = "none"
  BY Zenon DEF RuntimeInit, CallerLocals, CallerPlaces, CallerResults
<1>4. RuntimeShapes
  <2>1. \A c \in Callers : caller[c].calls \in 0 .. MaxCalls
    BY <1>3, RuntimeConstantsOK
  <2> QED BY <1>1, <1>2, <1>3, <2>1, ZenonT(30) DEF RuntimeInit, RuntimeShapes, RuntimeTypeOK
<1>5. RegisteredInv /\ StartsInv
  BY <1>1, Zenon DEF RegisteredInv, StartsInv
<1>6. PhasesInv
  BY <1>1, <1>3, Zenon DEF RuntimeInit, PhasesInv, CallerAt
<1>7. WaitersInv
  BY <1>1, <1>3, Zenon DEF WaitersInv, CallerAt
<1> QED BY <1>4, <1>5, <1>6, <1>7, Zenon DEF RuntimeInv

LEMMA RuntimeStutters ==
    ASSUME RuntimeInv, UNCHANGED runtimevars
    PROVE  RuntimeInv'
<1>1. UNCHANGED <<closed, loop, thread, tasks, task, drained, callbacks, caller>>
  BY Zenon DEF runtimevars
<1>2. RuntimeShapes' = RuntimeShapes
  BY <1>1, ZenonT(30) DEF RuntimeShapes, RuntimeTypeOK
<1>3. \A i, a : Frees(i, a)' = Frees(i, a)
  BY <1>1, Zenon DEF Frees
<1>4. \A j, a : FreedBefore(j, a)' = FreedBefore(j, a)
  BY <1>3, Zenon DEF FreedBefore
<1>5. \A id, j : OutOfTheWay(id, j)' = OutOfTheWay(id, j)
  BY <1>1, <1>4, Zenon DEF OutOfTheWay
<1>6. \A waiter, id : Awaits(waiter, id)' = Awaits(waiter, id)
  BY <1>1, Zenon DEF Awaits, ThisCall
<1>7. \A c, where : CallerAt(c, where)' = CallerAt(c, where)
  BY <1>1, Zenon DEF CallerAt
<1>8. RegisteredInv' = RegisteredInv
  BY <1>1, <1>3, ZenonT(30) DEF RegisteredInv
<1>9. PhasesInv' = PhasesInv
  BY <1>1, <1>7, Zenon DEF PhasesInv
<1>10. WaitersInv' = WaitersInv
  BY <1>1, <1>5, <1>6, <1>7, ZenonT(30) DEF WaitersInv
<1>11. StartsInv' = StartsInv
  BY <1>1, <1>4, Zenon DEF StartsInv
<1> QED BY <1>2, <1>8, <1>9, <1>10, <1>11, Zenon DEF RuntimeInv

LEMMA RuntimeSteps ==
    ASSUME RuntimeInv, [RuntimeNext]_runtimevars
    PROVE  RuntimeInv'
<1>1. ASSUME NEW c \in Callers, Call(c) \/ GoesOn(c) PROVE RuntimeInv'
  <2>1. CASE StartThread(c) \/ WaitReady(c) \/ Shutdown(c) \/ Join(c) \/ StopTimesOut(c)
    BY <2>1, ThreadCallsInv, Zenon
  <2>2. CASE \E a \in Aliases : StartOne(c, a)
    BY <2>2, StartOneInv, Zenon
  <2>3. CASE (\E a \in Aliases : StopOne(c, a)) \/ SubmitCancel(c) \/ SubmitStop(c)
    BY <2>3, StopOneInv, Zenon
  <2> QED BY <1>1, <2>1, <2>2, <2>3, Zenon DEF Call, GoesOn
<1>2. CASE LoopStep
  <2>1. CASE RunLoop \/ CloseLoop
    BY <2>1, RunLoopInv, Zenon
  <2>2. CASE Callback
    BY <2>2, CallbackInv, Zenon
  <2>3. CASE Drain
    BY <2>3, DrainInv, Zenon
  <2>4. CASE Clear
    BY <2>4, ClearInv, Zenon
  <2> QED BY <1>2, <2>1, <2>2, <2>3, <2>4, Zenon DEF LoopStep
<1>3. ASSUME NEW id \in DOMAIN task, TaskEnds(id) \/ SuppressesCancel(id) \/ ReceiverFails(id)
      PROVE  RuntimeInv'
  BY <1>3, EndInv, SuppressesInv, Zenon DEF TaskEnds, ReceiverFails
<1>4. CASE UNCHANGED runtimevars
  BY <1>4, RuntimeStutters, Zenon
<1> QED BY <1>1, <1>2, <1>3, <1>4, Zenon DEF RuntimeNext

\* What the runtime promises, from what its state is.
LEMMA NothingStrays ==
    ASSUME RuntimeInv
    PROVE  NoStrayTask
<1>1. RuntimeTypeOK
  BY Zenon DEF RuntimeInv, RuntimeShapes
<1>2. OneTaskPerAlias
  BY Zenon DEF RuntimeInv, PhasesInv, OneTaskPerAlias
<1>3. StopIsComplete
  <2>1. ASSUME NEW c \in Callers, caller[c].result = "stopped"
        PROVE  task[caller[c].id].state = "ended" /\ \A a \in DOMAIN tasks : tasks[a] # caller[c].id
    BY <2>1, FirstIsFirst, Zenon DEF RuntimeInv, WaitersInv, OutOfTheWay
  <2> QED BY <2>1, Zenon DEF StopIsComplete
<1>4. NothingLeftBehind
  BY Zenon DEF RuntimeInv, PhasesInv, NothingLeftBehind
<1> QED BY <1>1, <1>2, <1>3, <1>4, Zenon DEF NoStrayTask

\* No task is out of reach of the runtime nor of the caller that stopped it
\* (queue_runtime.py), whatever threads start, stop and shut down.
THEOREM RuntimeHasNoStrayTask == RuntimeSpec => []NoStrayTask
<1>1. RuntimeInit => RuntimeInv
  BY RuntimeStarts, Zenon
<1>2. RuntimeInv /\ [RuntimeNext]_runtimevars => RuntimeInv'
  BY RuntimeSteps, Zenon
<1>3. RuntimeInv => NoStrayTask
  BY NothingStrays, Zenon
<1> QED BY <1>1, <1>2, <1>3, PTL DEF RuntimeSpec

\* Only a callback takes one off the loop's queue.
LEMMA OnlyCallbacksPop ==
    ASSUME RuntimeInv, [RuntimeNext]_runtimevars, callbacks # <<>>, callbacks' = Tail(callbacks)
    PROVE  Callback
<1>1. callbacks \in Seq(Callbacks) /\ Len(callbacks) \in Nat /\ Len(callbacks) > 0
  BY RuntimeFacts
<1>2. Len(callbacks') = Len(callbacks) - 1
  BY <1>1
<1>3. callbacks' # callbacks
  <2>1. PICK n \in Nat : n = Len(callbacks)
    BY <1>1, Zenon
  <2>2. n - 1 # n
    OBVIOUS
  <2>3. Len(callbacks') = n - 1
    BY <1>2, <2>1, Zenon
  <2> QED BY <2>1, <2>2, <2>3, Zenon
<1>4. ASSUME NEW b, callbacks' = Append(callbacks, b) PROVE FALSE
  <2>1. Len(Append(callbacks, b)) = Len(callbacks) + 1
    BY <1>1
  <2> QED BY <1>1, <1>2, <1>4, <2>1
<1>5. \A b : callbacks' # Append(callbacks, b)
  BY <1>4, Zenon
<1>6. ASSUME NEW c \in Callers, Call(c) \/ GoesOn(c) PROVE FALSE
  <2>1. CASE StartThread(c) \/ WaitReady(c) \/ Shutdown(c) \/ Join(c) \/ StopTimesOut(c)
    BY <1>3, <2>1, Zenon DEF StartThread, WaitReady, Shutdown, Join, StopTimesOut
  <2>2. CASE \E a \in Aliases : StartOne(c, a)
    BY <1>3, <1>5, <2>2, Zenon DEF StartOne
  <2>3. CASE (\E a \in Aliases : StopOne(c, a)) \/ SubmitCancel(c) \/ SubmitStop(c)
    BY <1>3, <1>5, <2>3, Zenon DEF StopOne, SubmitCancel, SubmitStop
  <2> QED BY <1>6, <2>1, <2>2, <2>3, Zenon DEF Call, GoesOn
<1>7. ASSUME NEW id \in DOMAIN task, End(id) PROVE FALSE
  <2>1. task[id].waiters \in Seq(Waiters)
    BY RuntimeFacts, Zenon DEF Tasks
  <2>2. PICK m \in Nat : DOMAIN task[id].waiters = 1 .. m
    BY <2>1
  <2>3. PICK d : d = [what |-> "done", alias |-> task[id].alias]
    BY Zenon
  <2>4. PICK wakes : wakes = [i \in 1 .. m |-> [what |-> "wake", waiter |-> task[id].waiters[i]]]
    BY Zenon
  <2>5. PICK T : T = {wakes[i] : i \in 1 .. m} \cup {callbacks[i] : i \in DOMAIN callbacks} \cup {d}
    BY Zenon
  <2>6. wakes \in Seq(T) /\ Len(wakes) = m
    <3>1. wakes \in [1 .. m -> T]
      BY <2>4, <2>5, Zenon
    <3> QED BY <3>1
  <2>7. callbacks \in Seq(T) /\ d \in T
    <3>1. callbacks \in [1 .. Len(callbacks) -> T]
      BY <1>1, <2>5
    <3> QED BY <1>1, <2>5, <3>1, SMT, SMTT(30)
  <2>8. callbacks' = Append(callbacks, d) \o wakes
    BY <1>7, <2>2, <2>3, <2>4, Zenon DEF End
  <2>9. Append(callbacks, d) \in Seq(T) /\ Len(Append(callbacks, d)) = Len(callbacks) + 1
    BY <2>7
  <2>10. Len(callbacks') = Len(callbacks) + 1 + m
    BY <2>6, <2>8, <2>9, SMT, SMTT(30)
  <2> QED BY <1>1, <1>2, <2>10, SMT, SMTT(30)
<1>8. ASSUME NEW id \in DOMAIN task, TaskEnds(id) \/ SuppressesCancel(id) \/ ReceiverFails(id)
      PROVE  FALSE
  BY <1>3, <1>7, <1>8, Zenon DEF TaskEnds, ReceiverFails, SuppressesCancel
<1>9. CASE LoopStep
  BY <1>3, <1>9, Zenon DEF LoopStep, RunLoop, Drain, CloseLoop, Clear
<1>10. CASE UNCHANGED runtimevars
  BY <1>3, <1>10, Zenon DEF runtimevars
<1> QED BY <1>6, <1>8, <1>9, <1>10, Zenon DEF RuntimeNext

LEMMA StartsAreKept ==
    ASSUME RuntimeInv, [RuntimeNext]_runtimevars, callbacks # <<>>, Head(callbacks).what = "start",
           callbacks' = Tail(callbacks), Head(callbacks).after # NoTask, ~closed
    PROVE  \E id \in DOMAIN task' : id > Head(callbacks).after /\ task'[id].alias = Head(callbacks).alias
<1>1. Callback
  BY OnlyCallbacksPop, Zenon
<1>2. 1 \in DOMAIN callbacks /\ Head(callbacks) = callbacks[1] /\ callbacks[1] \in Callbacks
  BY NoMore, Zenon
<1>3. PICK a : a = callbacks[1].alias
  BY Zenon
<1>4. PICK after \in Nat : after = callbacks[1].after
  BY <1>2, CallbackFields, Zenon
<1>5. StartTask(a)
  BY <1>1, <1>2, <1>3, ZenonT(30) DEF Callback
<1>6. /\ after <= Len(task)
      /\ a \in DOMAIN tasks => tasks[a] > after
  BY <1>2, <1>3, <1>4, FirstIsFirst, Zenon DEF RuntimeInv, StartsInv
<1>7. task \in Seq(Tasks) /\ Len(task) \in Nat /\ \A x \in DOMAIN tasks : tasks[x] \in DOMAIN task
  BY RuntimeFacts, Zenon
<1>8. CASE a \in DOMAIN tasks
  <2>1. task' = task
    BY <1>5, <1>8, Zenon DEF StartTask
  <2>2. tasks[a] \in DOMAIN task /\ task[tasks[a]].alias = a
    BY <1>7, <1>8, Zenon DEF RuntimeInv, RegisteredInv
  <2> QED BY <1>2, <1>3, <1>4, <1>6, <1>8, <2>1, <2>2, Zenon
<1>9. CASE a \notin DOMAIN tasks
  <2>1. PICK t : t = [alias |-> a, state |-> "running", waiters |-> <<>>]
    BY Zenon
  <2>2. task' = Append(task, t)
    BY <1>5, <1>9, <2>1, Zenon DEF StartTask, Created
  <2>3. Len(task) + 1 \in DOMAIN task' /\ task'[Len(task) + 1] = t
    BY <1>7, <2>2, SMT, SMTT(30)
  <2>4. t.alias = a /\ Len(task) + 1 > after
    BY <1>6, <1>7, <2>1
  <2> QED BY <1>2, <1>3, <1>4, <2>3, <2>4, Zenon
<1> QED BY <1>8, <1>9, Zenon

\* A start that is called when every task of the alias has ended is not lost
\* (start_one and the done callbacks of queue_runtime.py).
THEOREM RestartsAreNotLost == RuntimeSpec => RestartIsNotLost
<1>1. RuntimeInit => RuntimeInv
  BY RuntimeStarts, Zenon
<1>2. RuntimeInv /\ [RuntimeNext]_runtimevars => RuntimeInv'
  BY RuntimeSteps, Zenon
<1>3. ASSUME RuntimeInv, [RuntimeNext]_runtimevars
      PROVE  [LET callback == Head(callbacks) IN
               (/\ callbacks # <<>> /\ callback.what = "start" /\ callbacks' = Tail(callbacks)
                /\ callback.after # NoTask /\ ~closed)
                   => \E id \in DOMAIN task' : id > callback.after /\ task'[id].alias = callback.alias]_runtimevars
  BY <1>3, StartsAreKept, Zenon
<1> QED BY <1>1, <1>2, <1>3, PTL DEF RuntimeSpec, RestartIsNotLost

===============================================================================
