----------------------------- MODULE CheckQueue ------------------------------
(* The queue of script checks (checkqueue.h): worker threads and the thread  *)
(* that connects a block share the checks of this block, and the latter gets *)
(* the conjunction of their results from Wait().  Everything between taking  *)
(* and leaving m_mutex is one step.  The order of the checks in the vectors  *)
(* is left out: a batch is any nNow checks of the queue.                     *)
EXTENDS Integers, FiniteSets

CONSTANTS
    Worker,        \* threads started by StartWorkerThreads
    Master,        \* the thread inside a CCheckQueueControl (m_control_mutex)
    Check,         \* script checks
    Bad,           \* those that return false
    BatchSize,
    StopWhileBusy  \* may StopWorkerThreads come while Master holds the control?

ASSUME QueueAssumption ==
    /\ Master \notin Worker /\ IsFiniteSet(Worker)
    /\ IsFiniteSet(Check) /\ Bad \subseteq Check
    /\ BatchSize \in Nat \ {0} /\ StopWhileBusy \in BOOLEAN

VARIABLES
    queue,             \* checks not yet taken
    nTodo,             \* checks not yet reported done
    fAllOk, nIdle, nTotal,
    request_stop,
    pc,                \* where each thread is
    batch,             \* batch[t]: the checks t took and has not reported (nNow of them)
    vChecks,           \* vChecks[t]: those of them still to be run
    fOk,               \* fOk[t]
    stopper,           \* progress of StopWorkerThreads
    added,             \* history: the checks added under the present control
    verdict            \* what Wait() returned under the present control

shared == <<queue, nTodo, fAllOk, nIdle, nTotal>>
local == <<pc, batch, vChecks, fOk>>
queueVars == <<shared, request_stop, local, stopper, added, verdict>>

Thread == Worker \cup {Master}
InLoop == {"start", "report", "waiting", "woken", "run"}

QueueInit ==
    /\ queue = {} /\ nTodo = 0 /\ fAllOk = TRUE /\ nIdle = 0 /\ nTotal = 0
    /\ request_stop = FALSE /\ stopper = "no"
    /\ pc = [t \in Thread |-> IF t = Master THEN "out" ELSE "start"]
    /\ batch = [t \in Thread |-> {}] /\ vChecks = [t \in Thread |-> {}]
    /\ fOk = [t \in Thread |-> TRUE]
    /\ added = {} /\ verdict = "none"
-----------------------------------------------------------------------------
(* CCheckQueueControl, and Add.                                              *)
Enter ==
    /\ pc[Master] = "out"
    /\ pc' = [pc EXCEPT ![Master] = "in"]
    /\ added' = {} /\ verdict' = "none"
    /\ UNCHANGED <<shared, request_stop, batch, vChecks, fOk, stopper>>

Add(S) ==
    /\ pc[Master] = "in" /\ S # {}
    /\ queue' = queue \cup S
    /\ nTodo' = nTodo + Cardinality(S)
    /\ added' = added \cup S
    /\ pc' = [pc EXCEPT ![Master] = IF Cardinality(S) = 1 THEN "notify_one" ELSE "notify_all"]
    /\ UNCHANGED <<fAllOk, nIdle, nTotal, request_stop, batch, vChecks, fOk, stopper, verdict>>

Waiting == {t \in Worker : pc[t] = "waiting"}
Notify(W) ==
    /\ pc' = [t \in Thread |-> IF t \in W THEN "woken" ELSE IF t = Master THEN "in" ELSE pc[t]]
    /\ UNCHANGED <<shared, request_stop, batch, vChecks, fOk, stopper, added, verdict>>
NotifyOne ==
    /\ pc[Master] = "notify_one"
    /\ \/ Waiting = {} /\ Notify({})
       \/ \E t \in Waiting : Notify({t})
NotifyAll == pc[Master] = "notify_all" /\ Notify(Waiting)

\* Wait(), called by ConnectBlock or by the destructor.
CallWait ==
    /\ pc[Master] = "in"
    /\ pc' = [pc EXCEPT ![Master] = "start"]
    /\ UNCHANGED <<shared, request_stop, batch, vChecks, fOk, stopper, added, verdict>>
-----------------------------------------------------------------------------
(* Loop: one turn under m_mutex.  AllOk, Todo, Total and Idle are the shared *)
(* variables after the first lines of the turn (report the last batch, count *)
(* the thread in, or come back from the condition variable).                 *)
\* Mutant of AllOk: the last batch decides.
AllOkOfLast(t) == IF pc[t] = "report" THEN fOk[t] ELSE fAllOk

AllOk(t) == fAllOk /\ (pc[t] = "report" => fOk[t])
Todo(t) == IF pc[t] = "report" THEN nTodo - Cardinality(batch[t]) ELSE nTodo
Total(t) == IF pc[t] = "start" THEN nTotal + 1 ELSE nTotal
Idle(t) == IF pc[t] = "woken" THEN nIdle - 1 ELSE nIdle

\* Mutant: the test is made before nTodo goes down.
WakesTooSoon(t, next) ==
    [u \in Thread |->
        IF u = t THEN next
        ELSE IF u = Master /\ pc[u] = "waiting" /\ pc[t] = "report" /\ nTodo = 0
        THEN "woken" ELSE pc[u]]

\* m_master_cv.notify_one() for the last batch of all.
Wakes(t, next) ==
    [u \in Thread |->
        IF u = t THEN next
        ELSE IF u = Master /\ pc[u] = "waiting" /\ pc[t] = "report" /\ Todo(t) = 0
        THEN "woken" ELSE pc[u]]

Turn(t) == pc[t] \in {"start", "report", "woken"}

BatchLength(t) ==
    LET share == Cardinality(queue) \div (Total(t) + Idle(t) + 1)
        n == IF BatchSize < share THEN BatchSize ELSE share
    IN IF n > 1 THEN n ELSE 1

Take(t) ==
    /\ Turn(t) /\ queue # {} /\ ~request_stop
    /\ \E S \in SUBSET queue :
         /\ Cardinality(S) = BatchLength(t)
         /\ queue' = queue \ S
         /\ batch' = [batch EXCEPT ![t] = S]
         /\ vChecks' = [vChecks EXCEPT ![t] = S]
    /\ nTodo' = Todo(t) /\ fAllOk' = AllOk(t) /\ nIdle' = Idle(t) /\ nTotal' = Total(t)
    /\ fOk' = [fOk EXCEPT ![t] = AllOk(t)]
    /\ pc' = Wakes(t, "run")
    /\ UNCHANGED <<request_stop, stopper, added, verdict>>

Sleep(t) ==
    /\ Turn(t) /\ queue = {} /\ ~request_stop
    /\ ~(t = Master /\ Todo(t) = 0)
    /\ nTodo' = Todo(t) /\ fAllOk' = AllOk(t) /\ nIdle' = Idle(t) + 1 /\ nTotal' = Total(t)
    /\ batch' = [batch EXCEPT ![t] = {}]
    /\ pc' = Wakes(t, "waiting")
    /\ UNCHANGED <<queue, request_stop, vChecks, fOk, stopper, added, verdict>>

Return(t) ==
    /\ Turn(t) /\ queue = {} /\ ~request_stop
    /\ t = Master /\ Todo(t) = 0
    /\ verdict' = IF AllOk(t) THEN "true" ELSE "false"
    /\ fAllOk' = TRUE
    /\ nTodo' = Todo(t) /\ nIdle' = Idle(t) /\ nTotal' = Total(t) - 1
    /\ batch' = [batch EXCEPT ![t] = {}]
    /\ pc' = Wakes(t, "out")
    /\ UNCHANGED <<queue, request_stop, vChecks, fOk, stopper, added>>

\* return false: the thread leaves, whatever there is still to do.
Leave(t) ==
    /\ Turn(t) /\ request_stop
    /\ nTodo' = Todo(t) /\ fAllOk' = AllOk(t) /\ nIdle' = Idle(t) /\ nTotal' = Total(t)
    /\ batch' = [batch EXCEPT ![t] = {}]
    /\ pc' = Wakes(t, IF t = Master THEN "out" ELSE "exited")
    /\ verdict' = IF t = Master THEN "false" ELSE verdict
    /\ UNCHANGED <<queue, request_stop, vChecks, fOk, stopper, added>>

\* The loop outside the lock; a check runs only while fOk.
RunCheck(t) ==
    /\ pc[t] = "run"
    /\ \E c \in vChecks[t] :
         /\ fOk' = [fOk EXCEPT ![t] = @ /\ c \notin Bad]
         /\ vChecks' = [vChecks EXCEPT ![t] = @ \ {c}]
         /\ pc' = [pc EXCEPT ![t] = IF vChecks[t] = {c} THEN "report" ELSE "run"]
    /\ UNCHANGED <<shared, request_stop, batch, stopper, added, verdict>>

\* A condition variable may wake without being notified.
SpuriousWake(t) ==
    /\ pc[t] = "waiting"
    /\ pc' = [pc EXCEPT ![t] = "woken"]
    /\ UNCHANGED <<shared, request_stop, batch, vChecks, fOk, stopper, added, verdict>>
-----------------------------------------------------------------------------
(* StopWorkerThreads, called once by Shutdown.                               *)
RequestStop ==
    /\ stopper = "no" /\ (pc[Master] = "out" \/ StopWhileBusy)
    /\ stopper' = "joining" /\ request_stop' = TRUE
    /\ pc' = [t \in Thread |-> IF t \in Waiting THEN "woken" ELSE pc[t]]
    /\ UNCHANGED <<shared, batch, vChecks, fOk, added, verdict>>

Joined ==
    /\ stopper = "joining" /\ \A t \in Worker : pc[t] = "exited"
    /\ stopper' = "done" /\ request_stop' = FALSE
    /\ UNCHANGED <<shared, local, added, verdict>>

Loop(t) == Take(t) \/ Sleep(t) \/ Return(t) \/ Leave(t)

\* Shutdown comes when nobody connects blocks any more, unless StopWhileBusy.
MayEnter == StopWhileBusy \/ stopper = "no"

QueueNext ==
    \/ MayEnter /\ Enter
    \/ \E S \in SUBSET (Check \ added) : Add(S)
    \/ NotifyOne \/ NotifyAll \/ CallWait
    \/ \E t \in Thread : Loop(t) \/ RunCheck(t) \/ SpuriousWake(t)
    \/ RequestStop \/ Joined

QueueSpec == QueueInit /\ [][QueueNext]_queueVars

\* Every thread that can run does run, and a block has finitely many checks.
QueueFairness ==
    /\ WF_queueVars(NotifyOne) /\ WF_queueVars(NotifyAll) /\ WF_queueVars(CallWait) /\ WF_queueVars(Joined)
    /\ \A t \in Thread : WF_queueVars(Loop(t)) /\ WF_queueVars(RunCheck(t))
QueueFairSpec == QueueSpec /\ QueueFairness
-----------------------------------------------------------------------------
Pending == queue \cup UNION {batch[t] : t \in Thread}

\* The types, and that a thread that is not between taking a batch and reporting
\* it holds no check (vChecks.clear() comes before the next turn).
QueueTypeOK ==
    /\ queue \subseteq Check /\ nTodo \in Nat /\ fAllOk \in BOOLEAN
    /\ nIdle \in Int /\ nTotal \in Int /\ request_stop \in BOOLEAN
    /\ pc \in [Thread -> InLoop \cup {"out", "in", "notify_one", "notify_all", "exited"}]
    /\ batch \in [Thread -> SUBSET Check] /\ vChecks \in [Thread -> SUBSET Check]
    /\ fOk \in [Thread -> BOOLEAN] /\ stopper \in {"no", "joining", "done"}
    /\ added \subseteq Check /\ verdict \in {"none", "true", "false"}
    /\ \A t \in Thread :
         /\ vChecks[t] \subseteq batch[t]
         /\ pc[t] # "run" => vChecks[t] = {}
         /\ batch[t] = {} <=> pc[t] \notin {"run", "report"}

\* nTodo is the number of checks that are queued or in a thread's hands: no
\* check is counted twice or lost between the queue and the batches.
TodoIsRight ==
    /\ nTodo = Cardinality(Pending)
    /\ \A t \in Thread : batch[t] \cap queue = {}
    /\ \A t, u \in Thread : t # u => batch[t] \cap batch[u] = {}

\* When Wait() has returned, no thread holds a check of the block any more (they
\* point into the block's PrecomputedTransactionData) and the shared state is
\* that of a fresh queue.
NothingLeftBehind ==
    pc[Master] = "out" => Pending = {} /\ nTodo = 0 /\ fAllOk

\* Wait() returns the conjunction of the results of all checks added under this
\* control: a failed check fails this block and no other, and a block with no
\* failing check is never refused (ConnectBlock marks it invalid for good).
VerdictIsRight ==
    /\ verdict = "true" => added \cap Bad = {}
    /\ verdict = "false" => added \cap Bad # {}

\* nIdle counts the threads on the condition variables, which the batch size
\* is computed from, and nTotal those in Loop, until the queue is stopped.
Asleep == {t \in Thread : pc[t] \in {"waiting", "woken"}}
Inside == {t \in Thread : pc[t] \in {"waiting", "woken", "run", "report"}}
CountsAreRight ==
    /\ nIdle = Cardinality(Asleep)
    /\ stopper = "no" => nTotal = Cardinality(Inside)

\* A block gets the verdict of its own checks and leaves nothing to the next
\* one, and the counters that decide who returns, who sleeps and how much a
\* thread takes agree with what the threads do.
QueueIsRight ==
    QueueTypeOK /\ TodoIsRight /\ CountsAreRight /\ NothingLeftBehind /\ VerdictIsRight

\* Wait() returns: no wakeup is lost, however Add and the workers interleave.
WaitReturns == pc[Master] = "start" ~> pc[Master] = "out"
=============================================================================
