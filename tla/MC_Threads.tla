----------------------------- MODULE MC_Threads ------------------------------
(* The check queue, the HTTP server and the connections of CConnman: three   *)
(* sets of threads that share no state.  One of them is explored, the others *)
(* stay where they began.                                                    *)
EXTENDS CheckQueue, HTTPServer, Connections, TLC

CONSTANTS w1, w2, c1, c2, c3, c4
VARIABLE part
mcVars == <<queueVars, httpVars, connVars, part>>

MCInit == QueueInit /\ HttpInit /\ ConnInit /\ part \in {"checks", "http", "connections"}

InChecks == part = "checks" /\ UNCHANGED <<httpVars, connVars, part>>
InHttp == part = "http" /\ UNCHANGED <<queueVars, connVars, part>>
InNet == part = "connections" /\ UNCHANGED <<queueVars, httpVars, part>>
MCNext == (InChecks /\ QueueNext) \/ (InHttp /\ HttpNext) \/ (InNet /\ ConnNext)

\* Threads that can run do run; a connection is answered and closed in the end;
\* a shutdown that has begun goes on.  Only one part takes steps, so fairness of
\* an action of each is fairness of their disjunction.
MasterStep == NotifyOne \/ NotifyAll \/ CallWait \/ Loop(Master) \/ RunCheck(Master)
EventStep ==
    Refuse \/ Enqueue \/ LoopEnds \/ \E r \in Request : SendReply(r) \/ CloseConnection(r)
StopStep == stopping # "no" /\ (InterruptHTTPServer \/ StopHTTPServer)
WorkerStep(w) ==
    \/ InChecks /\ (Loop(w) \/ RunCheck(w))
    \/ InHttp /\ ~died /\ (TakeLock(w) \/ RunHandler(w))
MCSpec ==
    /\ MCInit /\ [][MCNext]_mcVars
    /\ WF_mcVars(\/ InChecks /\ MasterStep
                 \/ InHttp /\ ~died /\ EventStep
                 \/ InNet /\ ThreadOpenConnections)
    /\ WF_mcVars(\/ InChecks /\ Joined
                 \/ InHttp /\ ~died /\ StopStep
                 \/ InNet /\ ThreadSocketHandler)
    /\ WF_mcVars(WorkerStep(w1) \/ (InNet /\ ThreadMessageHandler))
    /\ WF_mcVars(WorkerStep(w2) \/ (InNet /\ StopNodes))
=============================================================================
