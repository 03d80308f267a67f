----------------------------- MODULE SignalQueue -----------------------------
(* Delivery of validation events: SingleThreadedSchedulerClient queues the   *)
(* callbacks and asks CScheduler for a ProcessQueue task at a time, so that  *)
(* they run in order and one by one however many threads serve the scheduler *)
(* (scheduler.cpp), and SyncWithValidationInterfaceQueue waits for all that  *)
(* were queued before (validationinterface.cpp).  A callback is the number   *)
(* of its AddToProcessQueue call.  One periodic task (scheduleEvery) shares  *)
(* the scheduler.  What is done under one mutex is one step.                 *)
EXTENDS Integers, Sequences, FiniteSets

CONSTANTS
    Producer,      \* threads that emit events
    Servicer,      \* threads in CScheduler::serviceQueue
    MaxCallbacks   \* bound: callbacks queued

ASSUME SignalAssumption ==
    /\ Producer \cap Servicer = {} /\ "shutdown" \notin Producer \cup Servicer
    /\ MaxCallbacks \in Nat

VARIABLES
    m_callbacks_pending, m_are_callbacks_running,
    queued,         \* callbacks queued so far
    finished,       \* callbacks that have returned, in this order
    taskQueue,      \* the tasks that are due, in the order of their times
    later,          \* the periodic task is in the queue too, for a later time
    stopRequested,
    pc,             \* where each thread is
    mine,           \* mine[t]: the callback t queued last, or is running
    shutdown        \* progress of Shutdown: "no", "stopping", "flushing", "done"

client == <<m_callbacks_pending, m_are_callbacks_running>>
vars == <<client, queued, finished, taskQueue, later, stopRequested, pc, mine, shutdown>>

Thread == Producer \cup Servicer \cup {"shutdown"}
PcValues ==
    {"idle", "maybe", "schedule", "sync_maybe", "sync_schedule", "sync",
     "top", "wait", "wait_until", "timeout", "process", "periodic", "callback", "exited"}

Init ==
    /\ m_callbacks_pending = <<>> /\ m_are_callbacks_running = FALSE
    /\ queued = 0 /\ finished = <<>>
    /\ taskQueue = <<>> /\ later = TRUE /\ stopRequested = FALSE
    /\ pc = [t \in Thread |-> IF t \in Servicer THEN "top" ELSE "idle"]
    /\ mine = [t \in Thread |-> 0]
    /\ shutdown = "no"

Goto(t, where) == pc' = [pc EXCEPT ![t] = where]

\* notify_one on newTaskScheduled, after t went on to `where`.
Sleeping == {t \in Servicer : pc[t] \in {"wait", "wait_until", "timeout"}}
GotoAndNotify(t, where) ==
    \/ Sleeping = {} /\ Goto(t, where)
    \/ \E s \in Sleeping : pc' = [pc EXCEPT ![t] = where, ![s] = "top"]
-----------------------------------------------------------------------------
(* SingleThreadedSchedulerClient.                                            *)
AddToProcessQueue(t, where) ==
    /\ pc[t] = "idle" /\ queued < MaxCallbacks
    /\ queued' = queued + 1
    /\ m_callbacks_pending' = Append(m_callbacks_pending, queued + 1)
    /\ mine' = [mine EXCEPT ![t] = queued + 1]
    /\ Goto(t, where)
    /\ UNCHANGED <<m_are_callbacks_running, finished, taskQueue, later, stopRequested, shutdown>>

\* Mutant: without the test of m_are_callbacks_running.
MutNeedsTask == m_callbacks_pending # <<>>
\* The test, and the scheduling, which are not under one lock; `sync` is the
\* same inside SyncWithValidationInterfaceQueue.
NeedsTask == ~m_are_callbacks_running /\ m_callbacks_pending # <<>>
After(t) == CASE pc[t] \in {"sync_maybe", "sync_schedule"} -> "sync"
              [] t \in Servicer -> "top"
              [] OTHER -> "idle"
MaybeScheduleProcessQueue(t) ==
    /\ pc[t] \in {"maybe", "sync_maybe"}
    /\ Goto(t, IF NeedsTask
               THEN IF pc[t] = "maybe" THEN "schedule" ELSE "sync_schedule"
               ELSE After(t))
    /\ UNCHANGED <<client, queued, finished, taskQueue, later, stopRequested, mine, shutdown>>

\* Mutant: nobody is notified of the new task.
MutScheduleSilent(t) ==
    /\ pc[t] \in {"schedule", "sync_schedule"}
    /\ taskQueue' = Append(taskQueue, "process")
    /\ Goto(t, After(t))
    /\ UNCHANGED <<client, queued, finished, later, stopRequested, mine, shutdown>>
Schedule(t) ==
    /\ pc[t] \in {"schedule", "sync_schedule"}
    /\ taskQueue' = Append(taskQueue, "process")
    /\ GotoAndNotify(t, After(t))
    /\ UNCHANGED <<client, queued, finished, later, stopRequested, mine, shutdown>>

ProcessQueue(t) ==
    IF NeedsTask
    THEN /\ m_are_callbacks_running' = TRUE
         /\ m_callbacks_pending' = Tail(m_callbacks_pending)
         /\ mine' = [mine EXCEPT ![t] = Head(m_callbacks_pending)]
         /\ Goto(t, "callback")
    ELSE UNCHANGED <<client, mine>> /\ Goto(t, After(t))

\* The callback returns and RAIICallbacksRunning is destroyed.
CallbackReturns(t) ==
    /\ pc[t] = "callback"
    /\ finished' = Append(finished, mine[t])
    /\ m_are_callbacks_running' = FALSE
    /\ Goto(t, "maybe")
    /\ UNCHANGED <<m_callbacks_pending, queued, taskQueue, later, stopRequested, mine, shutdown>>

\* Mutant: the promise counts as set once any later or earlier callback has run.
MutSyncReturns(t) ==
    /\ pc[t] = "sync" /\ finished # <<>>
    /\ Goto(t, "idle")
    /\ UNCHANGED <<client, queued, finished, taskQueue, later, stopRequested, mine, shutdown>>
\* The promise is set by the callback this thread queued.
SyncReturns(t) ==
    /\ pc[t] = "sync" /\ \E i \in DOMAIN finished : finished[i] = mine[t]
    /\ Goto(t, "idle")
    /\ UNCHANGED <<client, queued, finished, taskQueue, later, stopRequested, mine, shutdown>>
-----------------------------------------------------------------------------
(* CScheduler::serviceQueue.                                                 *)
Empty == taskQueue = <<>> /\ ~later
ServiceTop(s) ==
    /\ pc[s] = "top"
    /\ Goto(s, IF stopRequested THEN "exited"
               ELSE IF Empty THEN "wait"
               ELSE IF taskQueue = <<>> THEN "wait_until" ELSE "timeout")
    /\ UNCHANGED <<client, queued, finished, taskQueue, later, stopRequested, mine, shutdown>>

\* wait_until has timed out: the first task is taken, whether it is the one that
\* was waited for or not.
TakeTask(s) ==
    /\ pc[s] = "timeout"
    /\ IF stopRequested \/ Empty
       THEN Goto(s, "top") /\ UNCHANGED <<taskQueue, later>>
       ELSE IF taskQueue = <<>>
       THEN later' = FALSE /\ Goto(s, "periodic") /\ UNCHANGED taskQueue
       ELSE taskQueue' = Tail(taskQueue) /\ Goto(s, Head(taskQueue)) /\ UNCHANGED later
    /\ UNCHANGED <<client, queued, finished, stopRequested, mine, shutdown>>

RunProcessQueue(s) ==
    /\ pc[s] = "process"
    /\ ProcessQueue(s)
    /\ UNCHANGED <<queued, finished, taskQueue, later, stopRequested, shutdown>>

\* Repeat: the periodic task schedules itself again.
RunPeriodic(s) ==
    /\ pc[s] = "periodic"
    /\ later' = TRUE
    /\ GotoAndNotify(s, "top")
    /\ UNCHANGED <<client, queued, finished, taskQueue, stopRequested, mine, shutdown>>

\* The time of the periodic task comes.
Tick ==
    /\ later /\ later' = FALSE
    /\ taskQueue' = Append(taskQueue, "periodic")
    /\ pc' = [t \in Thread |-> IF pc[t] = "wait_until" THEN "timeout" ELSE pc[t]]
    /\ UNCHANGED <<client, queued, finished, stopRequested, mine, shutdown>>
-----------------------------------------------------------------------------
(* Shutdown: stop() and join, then FlushBackgroundCallbacks.                 *)
Stop ==
    /\ shutdown = "no" /\ shutdown' = "stopping"
    /\ stopRequested' = TRUE
    /\ pc' = [t \in Thread |-> IF t \in Sleeping THEN "top" ELSE pc[t]]
    /\ UNCHANGED <<client, queued, finished, taskQueue, later, mine>>

\* By then no producer is inside AddToProcessQueue, and none calls it again.
StartFlush ==
    /\ shutdown = "stopping"
    /\ \A s \in Servicer : pc[s] = "exited"
    /\ \A p \in Producer : pc[p] \in {"idle", "sync"}
    /\ shutdown' = "flushing"
    /\ pc' = [pc EXCEPT !["shutdown"] = "process"]
    /\ UNCHANGED <<client, queued, finished, taskQueue, later, stopRequested, mine>>

EmptyQueue ==
    /\ shutdown = "flushing"
    /\ \/ /\ pc["shutdown"] = "process" /\ ProcessQueue("shutdown")
          /\ UNCHANGED <<queued, finished, taskQueue, later, stopRequested, shutdown>>
       \/ /\ pc["shutdown"] = "idle"
          /\ IF m_callbacks_pending # <<>>
             THEN Goto("shutdown", "process") /\ UNCHANGED shutdown
             ELSE shutdown' = "done" /\ UNCHANGED pc
          /\ UNCHANGED <<client, queued, finished, taskQueue, later, stopRequested, mine>>

Running == shutdown \in {"no", "stopping"}
ServiceStep(s) ==
    ServiceTop(s) \/ TakeTask(s) \/ RunProcessQueue(s) \/ RunPeriodic(s)
-----------------------------------------------------------------------------
\* The types of the variables.
TypeOK ==
    /\ m_callbacks_pending \in Seq(1..MaxCallbacks)
    /\ m_are_callbacks_running \in BOOLEAN
    /\ queued \in 0..MaxCallbacks /\ finished \in Seq(1..MaxCallbacks)
    /\ taskQueue \in Seq({"process", "periodic"}) /\ later \in BOOLEAN
    /\ stopRequested \in BOOLEAN
    /\ pc \in [Thread -> PcValues] /\ mine \in [Thread -> 0..MaxCallbacks]
    /\ shutdown \in {"no", "stopping", "flushing", "done"}

InCallback == {t \in Thread : pc[t] = "callback"}

\* Callbacks run one at a time and in the order in which they were queued: what
\* has finished, what runs and what is pending are together the numbers
\* 1..queued in order, whichever threads ran them.
OneByOneInOrder ==
    /\ Cardinality(InCallback) = IF m_are_callbacks_running THEN 1 ELSE 0
    /\ LET running == IF InCallback = {} THEN <<>> ELSE <<mine[CHOOSE t \in InCallback : TRUE]>>
       IN finished \o running \o m_callbacks_pending = [i \in 1..queued |-> i]

\* Whenever callbacks are pending somebody will look at them: one is running, a
\* task is scheduled or taken, or a thread is on its way to schedule one
\* (MaybeScheduleProcessQueue tests under m_callbacks_mutex and schedules after).
PendingIsNoticed ==
    m_callbacks_pending # <<>> /\ shutdown # "done" =>
        \/ m_are_callbacks_running \/ (\E i \in DOMAIN taskQueue : taskQueue[i] = "process") \/ shutdown # "no"
        \/ \E t \in Thread : pc[t] \in {"maybe", "schedule", "sync_maybe", "sync_schedule", "process"}

\* When SyncWithValidationInterfaceQueue returns, every callback queued before
\* it was called has returned.
SyncIsBarrier ==
    [][\A p \in Producer : pc[p] = "sync" /\ pc'[p] = "idle" =>
         \A i \in 1..mine[p] : \E k \in DOMAIN finished : finished[k] = i]_vars

\* EmptyQueue asserts that no thread serves the scheduler, and when Shutdown goes
\* on after FlushBackgroundCallbacks every callback has been delivered.
NothingLostAtShutdown ==
    /\ shutdown \in {"flushing", "done"} => \A s \in Servicer : pc[s] = "exited"
    /\ shutdown = "done" => Len(finished) = queued

\* At every step of the producers, the service threads and the shutdown the
\* events are in order, somebody will see to those that are pending, and the
\* shutdown leaves none.
DeliveryIsOrdered == TypeOK /\ OneByOneInOrder /\ PendingIsNoticed /\ NothingLostAtShutdown

\* Every event is delivered, with or without a shutdown in between, and so every
\* SyncWithValidationInterfaceQueue returns: no wake-up of a sleeping service
\* thread is lost and no chain of ProcessQueue tasks breaks off.
EveryCallbackRuns ==
    \A i \in 1..MaxCallbacks : queued >= i ~> \E k \in DOMAIN finished : finished[k] = i
=============================================================================
