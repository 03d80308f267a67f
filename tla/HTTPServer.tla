----------------------------- MODULE HTTPServer ------------------------------
(***************************************************************************)
(* The HTTP server (src/src/httpserver.cpp): the event thread gives each   *)
(* request to a bounded queue, workers run its handler, and the reply goes *)
(* back to the event thread as an event.  InterruptHTTPServer and          *)
(* StopHTTPServer run at any time.  What is under cs of the queue is one   *)
(* step; a thread in cond.wait is woken by a notification, or by nothing.  *)
(*                                                                         *)
(* One request per connection; libevent ends its loop when nothing is left *)
(* to wait for.  Whoever uses eventBase or the queue after it is freed, or *)
(* replies twice (the assert of WriteReply), ends the process.             *)
(***************************************************************************)
EXTENDS Integers, Sequences, FiniteSets

CONSTANTS
    Request, HttpWorker,
    maxDepth             \* -rpcworkqueue

VARIABLES
    request,             \* where each request is
    replySent,           \* of each request
    workQueue,           \* WorkQueue: queue, and running
    queueRunning,
    worker,              \* of each worker: "lock", "asleep", "done", or its request
    gencb,               \* the callback of new requests: "handle" or "reject"
    inCallback,          \* the request http_request_cb is at, or NoRequest
    eventThread,         \* "loop" or "done"
    stopping,            \* how far the shutdown is
    died

httpVars == <<request, replySent, workQueue, queueRunning, worker, gencb, inCallback,
              eventThread, stopping, died>>
NoRequest == "none"
Freed == stopping = "freed"

HttpInit ==
    /\ request = [r \in Request |-> "none"] /\ replySent = [r \in Request |-> FALSE]
    /\ workQueue = <<>> /\ queueRunning = TRUE
    /\ worker = [w \in HttpWorker |-> "lock"]
    /\ gencb = "handle" /\ inCallback = NoRequest /\ eventThread = "loop"
    /\ stopping = "no" /\ died = FALSE

\* WriteReply: the event that sends the reply.
WriteReply(r) ==
    /\ request' = [request EXCEPT ![r] = "replying"]
    /\ replySent' = [replySent EXCEPT ![r] = TRUE]
    /\ died' = (died \/ replySent[r] \/ Freed)
-----------------------------------------------------------------------------
\* The event thread; Listening until StopHTTPServer takes the sockets away.
Listening == stopping \in {"no", "rejecting", "interrupted"}
Free == eventThread = "loop" /\ inCallback = NoRequest

Connect(r) ==
    /\ Free /\ Listening /\ request[r] = "none"
    /\ request' = [request EXCEPT ![r] = "connected"]
    /\ UNCHANGED <<replySent, workQueue, queueRunning, worker, gencb, inCallback, eventThread, stopping, died>>
\* A request comes in: http_request_cb, or http_reject_request_cb.
Arrive(r) ==
    /\ Free /\ request[r] = "connected"
    /\ IF gencb = "handle"
       THEN inCallback' = r /\ request' = [request EXCEPT ![r] = "arrived"] /\ UNCHANGED replySent
       ELSE /\ request' = [request EXCEPT ![r] = "answered"] /\ UNCHANGED inCallback
            /\ replySent' = [replySent EXCEPT ![r] = TRUE]
    /\ UNCHANGED <<workQueue, queueRunning, worker, gencb, eventThread, stopping, died>>
\* The rest of http_request_cb.  Not allowed, unknown method or path: a reply.
Refuse ==
    /\ inCallback # NoRequest /\ WriteReply(inCallback) /\ inCallback' = NoRequest
    /\ UNCHANGED <<workQueue, queueRunning, worker, gencb, eventThread, stopping>>
\* Enqueue, with notify_one; or "Work queue depth exceeded".
Enqueue ==
    /\ inCallback # NoRequest /\ inCallback' = NoRequest
    /\ IF ~queueRunning \/ Len(workQueue) >= maxDepth
       THEN WriteReply(inCallback) /\ UNCHANGED <<workQueue, worker>>
       ELSE /\ workQueue' = Append(workQueue, inCallback)
            /\ request' = [request EXCEPT ![inCallback] = "queued"]
            /\ \/ \E w \in HttpWorker : worker[w] = "asleep" /\ worker' = [worker EXCEPT ![w] = "lock"]
               \/ (\A w \in HttpWorker : worker[w] # "asleep") /\ UNCHANGED worker
            /\ died' = (died \/ Freed) /\ UNCHANGED replySent
    /\ UNCHANGED <<queueRunning, gencb, eventThread, stopping>>
SendReply(r) ==
    /\ Free /\ request[r] = "replying"
    /\ request' = [request EXCEPT ![r] = "answered"]
    /\ UNCHANGED <<replySent, workQueue, queueRunning, worker, gencb, inCallback, eventThread, stopping, died>>
\* The client is done, or -rpcservertimeout.
CloseConnection(r) ==
    /\ Free /\ request[r] \in {"connected", "answered"}
    /\ request' = [request EXCEPT ![r] = "closed"]
    /\ UNCHANGED <<replySent, workQueue, queueRunning, worker, gencb, inCallback, eventThread, stopping, died>>
LoopEnds ==
    /\ Free /\ ~Listening /\ \A r \in Request : request[r] \in {"none", "closed", "queued", "running"}
    /\ eventThread' = "done"
    /\ UNCHANGED <<request, replySent, workQueue, queueRunning, worker, gencb, inCallback, stopping, died>>
ThreadHTTP ==
    \/ \E r \in Request : Connect(r) \/ Arrive(r) \/ SendReply(r) \/ CloseConnection(r)
    \/ Refuse \/ Enqueue \/ LoopEnds
-----------------------------------------------------------------------------
\* WorkQueue::Run.
MayTake == workQueue # <<>>
\* Mutant: a worker leaves at once when told to.
LeavesAtOnce == ~queueRunning
MayLeave == ~queueRunning /\ workQueue = <<>>

TakeLock(w) ==
    /\ worker[w] = "lock"
    /\ \/ /\ MayTake
          /\ worker' = [worker EXCEPT ![w] = Head(workQueue)] /\ workQueue' = Tail(workQueue)
          /\ request' = [request EXCEPT ![Head(workQueue)] = "running"]
       \/ MayLeave /\ worker' = [worker EXCEPT ![w] = "done"] /\ UNCHANGED <<workQueue, request>>
       \/ /\ ~MayTake /\ ~MayLeave
          /\ worker' = [worker EXCEPT ![w] = "asleep"] /\ UNCHANGED <<workQueue, request>>
    /\ died' = (died \/ Freed)
    /\ UNCHANGED <<replySent, queueRunning, gencb, inCallback, eventThread, stopping>>
\* The handler replies, or ~HTTPRequest does ("Unhandled request").
RunHandler(w) ==
    /\ worker[w] \in Request
    /\ WriteReply(worker[w])
    /\ worker' = [worker EXCEPT ![w] = "lock"]
    /\ UNCHANGED <<workQueue, queueRunning, gencb, inCallback, eventThread, stopping>>
SpuriousWakeup(w) ==
    /\ worker[w] = "asleep" /\ worker' = [worker EXCEPT ![w] = "lock"]
    /\ UNCHANGED <<request, replySent, workQueue, queueRunning, gencb, inCallback, eventThread, stopping, died>>
-----------------------------------------------------------------------------
\* Shutdown.
InterruptHTTPServer ==
    \/ /\ stopping = "no" /\ stopping' = "rejecting" /\ gencb' = "reject"
       /\ UNCHANGED <<request, replySent, workQueue, queueRunning, worker, inCallback, eventThread, died>>
    \/ /\ stopping = "rejecting" /\ stopping' = "interrupted" /\ queueRunning' = FALSE
       /\ worker' = [w \in HttpWorker |-> IF worker[w] = "asleep" THEN "lock" ELSE worker[w]]
       /\ UNCHANGED <<request, replySent, workQueue, gencb, inCallback, eventThread, died>>
\* The workers are joined, then the event thread, and then all is freed.
JoinWorkers ==
    /\ stopping = "interrupted" /\ \A w \in HttpWorker : worker[w] = "done"
    /\ stopping' = "joined"
    /\ UNCHANGED <<request, replySent, workQueue, queueRunning, worker, gencb, inCallback, eventThread, died>>
FreeAll ==
    /\ stopping = "joined" /\ eventThread = "done" /\ stopping' = "freed"
    /\ UNCHANGED <<request, replySent, workQueue, queueRunning, worker, gencb, inCallback, eventThread, died>>
StopHTTPServer == JoinWorkers \/ FreeAll

HttpNext ==
    /\ ~died
    /\ \/ ThreadHTTP \/ InterruptHTTPServer \/ StopHTTPServer
       \/ \E w \in HttpWorker : TakeLock(w) \/ RunHandler(w) \/ SpuriousWakeup(w)
-----------------------------------------------------------------------------
\* Every request that has arrived is answered, once, and a shutdown that has
\* begun ends: no queued request is forgotten, no notification is lost, and
\* nothing is used after it is freed.  (There are finitely many requests, so
\* again and again nothing waits.)
RequestsAreAnswered ==
    []<>(/\ ~died /\ stopping \in {"no", "freed"}
         /\ \A r \in Request : request[r] \in {"none", "connected", "answered", "closed"})
=============================================================================
