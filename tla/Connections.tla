---------------------------- MODULE Connections -----------------------------
(***************************************************************************)
(* The life of a CNode (src/src/net.cpp): threads open and accept          *)
(* connections, the socket and message threads work on snapshots of        *)
(* m_nodes that count as references, anyone may mark a node fDisconnect,   *)
(* and the socket thread alone unlists and deletes.  PeerManager keeps its *)
(* own state of the node from InitializeNode to FinalizeNode.  Between two *)
(* steps of a thread it holds no lock.                                     *)
(*                                                                         *)
(* A snapshot is given back in one step: its nodes are counted separately. *)
(* ProcessAddrFetch connects like the rest of its loop, and is not apart.  *)
(***************************************************************************)
EXTENDS Integers, FiniteSets, Sequences

CONSTANTS
    MaxNodes,          \* bound: nodes ever made
    m_max_outbound,    \* slots of semOutbound
    nMaxInbound        \* nMaxConnections - m_max_outbound

ASSUME ConnAssumption == MaxNodes \in Nat /\ m_max_outbound \in Nat /\ nMaxInbound \in Nat

VARIABLES
    node,              \* the CNodes ever made, by NodeId
    m_node_states,     \* PeerManagerImpl: the nodes it has state of
    semOutbound,       \* its value
    fNetworkActive,
    interruptNet,      \* and flagInterruptMsgProc
    connPc,            \* where each thread is
    snap,              \* the NodesSnapshot of a thread
    todo               \* what of it, or of m_nodes_disconnected, is to be done

connVars == <<node, m_node_states, semOutbound, fNetworkActive, interruptNet, connPc, snap, todo>>

NodeId == DOMAIN node
m_nodes == {n \in NodeId : node[n].at = "listed"}
m_nodes_disconnected == {n \in NodeId : node[n].at = "unlisted"}
ConnThread == {"socket", "msg", "open", "main"}

ConnInit ==
    /\ node = <<>> /\ m_node_states = {} /\ semOutbound = m_max_outbound
    /\ fNetworkActive = TRUE /\ interruptNet = FALSE
    /\ connPc = [t \in ConnThread |-> IF t = "main" THEN "running" ELSE "top"]
    /\ snap = [t \in {"socket", "msg"} |-> {}] /\ todo = [t \in {"socket", "msg"} |-> {}]

Goto(t, there) == connPc' = [connPc EXCEPT ![t] = there]
\* A new CNode with its first AddRef, known to PeerManager and not yet listed.
MakeNode(nodes, inbound) ==
    /\ Len(nodes) < MaxNodes
    /\ node' = Append(nodes, [at |-> "made", refs |-> 1, fDisconnect |-> FALSE,
                              inbound |-> inbound, grant |-> ~inbound])
    /\ m_node_states' = m_node_states \cup {Len(nodes) + 1}
PushNode(t, there) ==
    /\ \E n \in NodeId : /\ node[n].at = "made" /\ node[n].inbound = (t = "socket")
                         /\ node' = [node EXCEPT ![n].at = "listed"]
    /\ Goto(t, there)
    /\ UNCHANGED <<m_node_states, semOutbound, fNetworkActive, interruptNet, snap, todo>>
\* DeleteNode: FinalizeNode, and ~CNode gives back a grant it still holds.
Deleted(S) ==
    [n \in NodeId |-> IF n \notin S THEN node[n]
                     ELSE [at |-> "deleted", refs |-> 0, fDisconnect |-> TRUE,
                           inbound |-> node[n].inbound, grant |-> FALSE]]
GrantsOf(S) == Cardinality({n \in S : node[n].grant})
-----------------------------------------------------------------------------
\* ThreadOpenConnections.

\* The wait for a grant; Interrupt posts to end it.
AcquireGrant ==
    /\ connPc["open"] = "top" /\ ~interruptNet
    /\ Goto("open", "wait")
    /\ UNCHANGED <<node, m_node_states, semOutbound, fNetworkActive, interruptNet, snap, todo>>
Granted ==
    /\ connPc["open"] = "wait" /\ semOutbound >= 1
    /\ semOutbound' = semOutbound - 1
    /\ Goto("open", "granted")
    /\ UNCHANGED <<node, m_node_states, fNetworkActive, interruptNet, snap, todo>>
\* No address to connect to, no network, or no answer: ~CSemaphoreGrant.
GiveUp ==
    /\ connPc["open"] \in {"granted", "connecting"}
    /\ semOutbound' = semOutbound + 1
    /\ Goto("open", "top")
    /\ UNCHANGED <<node, m_node_states, fNetworkActive, interruptNet, snap, todo>>
\* OpenNetworkConnection: its tests, and when ConnectNode is through, whatever
\* happened meanwhile, the node gets the grant.
ConnectNode ==
    /\ connPc["open"] = "granted" /\ ~interruptNet /\ fNetworkActive
    /\ Goto("open", "connecting")
    /\ UNCHANGED <<node, m_node_states, semOutbound, fNetworkActive, interruptNet, snap, todo>>
OpenNetworkConnection ==
    /\ connPc["open"] = "connecting" /\ MakeNode(node, FALSE)
    /\ Goto("open", "push")
    /\ UNCHANGED <<semOutbound, fNetworkActive, interruptNet, snap, todo>>
PushOutbound == connPc["open"] = "push" /\ PushNode("open", "top")
OpenEnds ==
    /\ interruptNet /\ connPc["open"] = "top"
    /\ Goto("open", "done")
    /\ UNCHANGED <<node, m_node_states, semOutbound, fNetworkActive, interruptNet, snap, todo>>
ThreadOpenConnections ==
    \/ AcquireGrant \/ Granted \/ GiveUp \/ ConnectNode
    \/ OpenNetworkConnection \/ PushOutbound \/ OpenEnds
-----------------------------------------------------------------------------
\* Snapshots.

TakeSnapshot(t, there) ==
    /\ snap' = [snap EXCEPT ![t] = m_nodes] /\ todo' = [todo EXCEPT ![t] = m_nodes]
    /\ node' = [n \in NodeId |-> IF n \in m_nodes THEN [node[n] EXCEPT !.refs = @ + 1] ELSE node[n]]
    /\ Goto(t, there)
    /\ UNCHANGED <<m_node_states, semOutbound, fNetworkActive, interruptNet>>
DropSnapshot(t, there) ==
    /\ node' = [n \in NodeId |-> IF n \in snap[t] THEN [node[n] EXCEPT !.refs = @ - 1] ELSE node[n]]
    /\ snap' = [snap EXCEPT ![t] = {}] /\ todo' = [todo EXCEPT ![t] = {}]
    /\ Goto(t, there)
    /\ UNCHANGED <<m_node_states, semOutbound, fNetworkActive, interruptNet>>
\* One node of the snapshot: the work on it may mark it.
WorkOn(t, n) ==
    /\ n \in todo[t]
    /\ \E bad \in BOOLEAN : node' = [node EXCEPT ![n].fDisconnect = @ \/ bad]
    /\ todo' = [todo EXCEPT ![t] = @ \ {n}]
    /\ UNCHANGED <<m_node_states, semOutbound, fNetworkActive, interruptNet, connPc, snap>>
-----------------------------------------------------------------------------
\* ThreadSocketHandler.

\* The nodes DisconnectNodes looks at once some are leaving; mutant: only those.
ToReapNow(leaving) == leaving
ToReap(leaving) == m_nodes_disconnected \cup leaving
\* DisconnectNodes, under m_nodes_mutex: Release and the grant back.
Unlist ==
    /\ connPc["socket"] = "top" /\ ~interruptNet
    /\ LET leaving == {n \in m_nodes : node[n].fDisconnect \/ ~fNetworkActive} IN
       /\ node' = [n \in NodeId |->
                      IF n \notin leaving THEN node[n]
                      ELSE [node[n] EXCEPT !.at = "unlisted", !.fDisconnect = TRUE,
                                           !.grant = FALSE, !.refs = @ - 1]]
       /\ semOutbound' = semOutbound + GrantsOf(leaving)
       /\ todo' = [todo EXCEPT !["socket"] = ToReap(leaving)]
    /\ Goto("socket", "reap")
    /\ UNCHANGED <<m_node_states, fNetworkActive, interruptNet, snap>>
\* GetRefCount() <= 0; mutant: whoever is marked.
Marked(n) == node[n].fDisconnect
Unused(n) == node[n].refs <= 0
\* Each of m_nodes_disconnected is deleted if nobody refers to it.
Reap(n) ==
    /\ connPc["socket"] = "reap" /\ n \in todo["socket"]
    /\ todo' = [todo EXCEPT !["socket"] = @ \ {n}]
    /\ IF Unused(n)
       THEN node' = Deleted({n}) /\ m_node_states' = m_node_states \ {n}
       ELSE UNCHANGED <<node, m_node_states>>
    /\ UNCHANGED <<semOutbound, fNetworkActive, interruptNet, connPc, snap>>
SocketHandler ==
    \/ connPc["socket"] = "reap" /\ todo["socket"] = {} /\ TakeSnapshot("socket", "handle")
    \/ connPc["socket"] = "handle" /\ ~interruptNet /\ \E n \in NodeId : WorkOn("socket", n)
    \/ /\ connPc["socket"] = "handle" /\ (todo["socket"] = {} \/ interruptNet)
       /\ DropSnapshot("socket", "listen")

\* CreateNodeFromAcceptedSocket: when full, AttemptToEvictConnection marks
\* some node that is not marked, or the connection is dropped.
AcceptConnection ==
    /\ connPc["socket"] = "listen" /\ ~interruptNet /\ fNetworkActive
    /\ IF Cardinality({n \in m_nodes : node[n].inbound}) < nMaxInbound
       THEN MakeNode(node, TRUE)
       ELSE \E n \in m_nodes : /\ node[n].inbound /\ ~node[n].fDisconnect
                              /\ MakeNode([node EXCEPT ![n].fDisconnect = TRUE], TRUE)
    /\ Goto("socket", "push")
    /\ UNCHANGED <<semOutbound, fNetworkActive, interruptNet, snap, todo>>
\* The next listening socket may have a connection too.
PushInbound == connPc["socket"] = "push" /\ PushNode("socket", "listen")
NothingAccepted ==
    /\ connPc["socket"] = "listen" /\ Goto("socket", "top")
    /\ UNCHANGED <<node, m_node_states, semOutbound, fNetworkActive, interruptNet, snap, todo>>
SocketEnds ==
    /\ interruptNet /\ connPc["socket"] = "top"
    /\ Goto("socket", "done")
    /\ UNCHANGED <<node, m_node_states, semOutbound, fNetworkActive, interruptNet, snap, todo>>
ThreadSocketHandler ==
    \/ Unlist \/ (\E n \in NodeId : Reap(n)) \/ SocketHandler
    \/ AcceptConnection \/ PushInbound \/ NothingAccepted \/ SocketEnds
-----------------------------------------------------------------------------
\* ThreadMessageHandler: nodes that are marked are passed over.
ThreadMessageHandler ==
    \/ connPc["msg"] = "top" /\ ~interruptNet /\ TakeSnapshot("msg", "work")
    \/ connPc["msg"] = "work" /\ \E n \in NodeId : ~node[n].fDisconnect /\ WorkOn("msg", n)
    \/ /\ connPc["msg"] = "work"
       /\ (interruptNet \/ \A n \in todo["msg"] : node[n].fDisconnect)
       /\ DropSnapshot("msg", "top")
    \/ /\ interruptNet /\ connPc["msg"] = "top" /\ Goto("msg", "done")
       /\ UNCHANGED <<node, m_node_states, semOutbound, fNetworkActive, interruptNet, snap, todo>>
-----------------------------------------------------------------------------
\* Other threads: RPC calls, and those of PeerManager under m_nodes_mutex; they
\* have ended before CConnman::Stop.
DisconnectNode(n) ==
    /\ connPc["main"] # "stopped" /\ n \in m_nodes
    /\ node' = [node EXCEPT ![n].fDisconnect = TRUE]
    /\ UNCHANGED <<m_node_states, semOutbound, fNetworkActive, interruptNet, connPc, snap, todo>>
SetNetworkActive ==
    /\ connPc["main"] # "stopped" /\ fNetworkActive' = ~fNetworkActive
    /\ UNCHANGED <<node, m_node_states, semOutbound, interruptNet, connPc, snap, todo>>

\* Shutdown: Interrupt ends the waits, StopThreads joins, StopNodes deletes.
Interrupt ==
    /\ connPc["main"] = "running" /\ Goto("main", "interrupted")
    /\ interruptNet' = TRUE /\ semOutbound' = semOutbound + m_max_outbound
    /\ UNCHANGED <<node, m_node_states, fNetworkActive, snap, todo>>
StopNodes ==
    /\ connPc["main"] = "interrupted" /\ \A t \in ConnThread \ {"main"} : connPc[t] = "done"
    /\ LET left == m_nodes \cup m_nodes_disconnected IN
       /\ node' = Deleted(left) /\ m_node_states' = m_node_states \ left
       /\ semOutbound' = semOutbound + GrantsOf(left)
    /\ Goto("main", "stopped")
    /\ UNCHANGED <<fNetworkActive, interruptNet, snap, todo>>

ConnNext ==
    \/ ThreadOpenConnections \/ ThreadSocketHandler \/ ThreadMessageHandler
    \/ (\E n \in NodeId : DisconnectNode(n)) \/ SetNetworkActive
    \/ Interrupt \/ StopNodes
-----------------------------------------------------------------------------
\* Whatever the threads do: a thread's snapshot holds no deleted node; nRefCount
\* is one for the list, or the thread about to list it, and one for each
\* snapshot; PeerManager has state of a node exactly until it is deleted, so
\* that the asserts of FinalizeNode hold; a grant of semOutbound is never lost
\* or given back twice; and no more inbound nodes than nMaxInbound are unmarked.
ConnectionsAreSafe ==
    /\ \A n \in NodeId :
         /\ node[n].at # "deleted" <=> n \in m_node_states
         /\ node[n].at = "deleted" => \A t \in DOMAIN snap : n \notin snap[t]
         /\ node[n].refs = (IF node[n].at \in {"made", "listed"} THEN 1 ELSE 0)
                           + Cardinality({t \in DOMAIN snap : n \in snap[t]})
    /\ semOutbound = (IF interruptNet THEN 2 ELSE 1) * m_max_outbound - GrantsOf(NodeId)
                      - (IF connPc["open"] \in {"granted", "connecting"} THEN 1 ELSE 0)
    /\ Cardinality({n \in NodeId : node[n].inbound /\ ~node[n].fDisconnect
                                   /\ node[n].at \in {"made", "listed"}}) <= nMaxInbound

\* A node once marked is deleted in the end, and Shutdown returns: marks and the
\* interrupt stay, so both are said by the states without one left to serve.
ConnectionsEnd ==
    []<>(/\ \A n \in NodeId : node[n].fDisconnect => node[n].at = "deleted"
         /\ interruptNet => connPc["main"] = "stopped")
=============================================================================
