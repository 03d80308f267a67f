-------------------------- MODULE ValidationEvents --------------------------
(* The validation events as a whole (CMainSignals in validationinterface.cpp): *)
(* an event is a callback of the queue of SignalQueue, and running it is an    *)
(* Iterate over the subscribers of MainSignals; BlockChecked and               *)
(* NewPoWValidBlock iterate on the thread that emits them, without the queue.  *)
(* Subscribers come and go at any time.                                        *)
EXTENDS SignalQueue, MainSignals

ASSUME EventsAssumption == Iterator = Thread

VARIABLE undelivered    \* the events whose Iterate has not begun

eventVars == <<vars, listVars, undelivered>>

EventsInit == Init /\ ListInit /\ undelivered = {}
-----------------------------------------------------------------------------
\* ENQUEUE_AND_LOG_EVENT: the event is queued, to be iterated over later.
EnqueueEvent(p) ==
    /\ Running /\ at[p] = None
    /\ AddToProcessQueue(p, "maybe")
    /\ undelivered' = undelivered \cup {queued + 1}
    /\ UNCHANGED listVars

\* SyncWithValidationInterfaceQueue queues a function that sets a promise.
EnqueuePromise(p) ==
    /\ Running /\ at[p] = None
    /\ AddToProcessQueue(p, "sync_maybe")
    /\ UNCHANGED <<listVars, undelivered>>

\* BlockChecked and NewPoWValidBlock: Iterate on the emitting thread.
EmitDirectly(p) ==
    /\ Running /\ pc[p] = "idle" /\ Begin(p)
    /\ UNCHANGED <<vars, undelivered>>

\* The callback of a queued event begins to iterate.
DeliverEvent(t) ==
    /\ pc[t] = "callback" /\ mine[t] \in undelivered /\ Begin(t)
    /\ undelivered' = undelivered \ {mine[t]}
    /\ UNCHANGED vars

\* A subscriber's callback returns, and Iterate goes on.
DeliverNext(t) ==
    /\ Advance(t)
    /\ UNCHANGED <<vars, undelivered>>

\* The queued function returns: a promise at once, an event when Iterate has.
FunctionReturns(t) ==
    /\ at[t] = None
    /\ mine[t] \in undelivered => m_list = {}
    /\ CallbackReturns(t)
    /\ undelivered' = undelivered \ {mine[t]}
    /\ UNCHANGED listVars

Subscribe ==
    /\ \/ \E c \in Interface : Register(c) \/ Unregister(c)
       \/ Clear
    /\ UNCHANGED <<vars, undelivered>>

EventStep(t) ==
    \/ DeliverEvent(t) \/ DeliverNext(t) \/ FunctionReturns(t)
    \/ /\ MaybeScheduleProcessQueue(t) \/ Schedule(t) \/ SyncReturns(t)
       /\ UNCHANGED <<listVars, undelivered>>
SchedulerStep(s) == ServiceStep(s) /\ UNCHANGED <<listVars, undelivered>>
\* No thread is inside an event of its own any more when Shutdown flushes.
FlushStep ==
    /\ (StartFlush /\ \A p \in Producer : at[p] = None) \/ EmptyQueue
    /\ UNCHANGED <<listVars, undelivered>>

EventsNext ==
    \/ \E p \in Producer : EnqueueEvent(p) \/ EnqueuePromise(p) \/ EmitDirectly(p)
    \/ \E t \in Thread : EventStep(t)
    \/ \E s \in Servicer : SchedulerStep(s)
    \/ FlushStep
    \/ (Tick \/ Stop) /\ UNCHANGED <<listVars, undelivered>>
    \/ Subscribe

EventsSpec == EventsInit /\ [][EventsNext]_eventVars

\* Every thread that can run does run, and a subscriber's callback returns;
\* the threads that
\* emit end after ShutdownRequested, so that Shutdown joins the last of them;
\* nothing is assumed of Stop, Tick and the subscriptions.
FairEventsSpec ==
    /\ EventsSpec
    /\ \A t \in Thread : WF_eventVars(EventStep(t))
    /\ \A s \in Servicer : WF_eventVars(SchedulerStep(s))
    /\ SF_eventVars(FlushStep)
=============================================================================
