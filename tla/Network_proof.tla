---------------------------- MODULE Network_proof ----------------------------
(***************************************************************************)
(* The connections and the ban list of the connection manager.  No         *)
(* reference to a node dangles, no outbound slot is lost and the inbound   *)
(* limit holds, for any number of nodes and slots; and the dirty flag of   *)
(* the ban list never hides a change from the file, for any number of      *)
(* threads and subnets, any times, failed writes and crashes.              *)
(***************************************************************************)
EXTENDS Connections, BanMan, FiniteSetTheorems, SequenceTheorems, TLAPS

\* The connections.

ConnSpec == ConnInit /\ [][ConnNext]_connVars

NodeRec ==
    [at : {"made", "listed", "unlisted", "deleted"}, refs : Int,
     fDisconnect : BOOLEAN, inbound : BOOLEAN, grant : BOOLEAN]
ConnTypeOK ==
    /\ node \in Seq(NodeRec) /\ semOutbound \in Int /\ interruptNet \in BOOLEAN
    /\ DOMAIN connPc = ConnThread
    /\ DOMAIN snap = {"socket", "msg"}
    /\ snap["socket"] \subseteq NodeId /\ snap["msg"] \subseteq NodeId

InUse(r) == r.at \in {"made", "listed"}
\* The snapshots that hold n.
Held(n) == (IF n \in snap["socket"] THEN 1 ELSE 0) + (IF n \in snap["msg"] THEN 1 ELSE 0)

\* nRefCount, and PeerManager's state, of every node.
CountsRight ==
    \A n \in NodeId :
        /\ node[n].at # "deleted" <=> n \in m_node_states
        /\ node[n].at = "deleted" => Held(n) = 0
        /\ node[n].refs = (IF InUse(node[n]) THEN 1 ELSE 0) + Held(n)

\* Where the grants of semOutbound are: in it, with nodes in use, or with the
\* opening thread; Interrupt adds as many again.
WithNodes == {n \in NodeId : node[n].grant}
Posted == (IF interruptNet THEN 2 ELSE 1) * m_max_outbound
WithThread == IF connPc["open"] \in {"granted", "connecting"} THEN 1 ELSE 0
GrantsRight ==
    /\ semOutbound = Posted - Cardinality(WithNodes) - WithThread
    /\ \A n \in NodeId : node[n].grant => InUse(node[n])
    /\ connPc["main"] = "running" => ~interruptNet

\* A new inbound node is there only until the socket thread lists it, which is
\* why counting m_nodes is enough.
Unmarked == {n \in NodeId : node[n].inbound /\ ~node[n].fDisconnect /\ InUse(node[n])}
Incoming == {n \in NodeId : node[n].inbound /\ node[n].at = "made"}
InboundRight ==
    /\ Cardinality(Unmarked) <= nMaxInbound
    /\ Incoming # {} => connPc["socket"] = "push"
    /\ \A n, k \in Incoming : n = k

\* A thread has a snapshot only in its loop over it.
SnapsRight ==
    /\ snap["socket"] # {} => connPc["socket"] = "handle"
    /\ snap["msg"] # {} => connPc["msg"] = "work"

ConnIInv == ConnTypeOK /\ CountsRight /\ GrantsRight /\ InboundRight /\ SnapsRight
-----------------------------------------------------------------------------
\* The sets that are counted are finite.
LEMMA NodeSetsFinite ==
    ASSUME ConnTypeOK, NEW S, S \subseteq NodeId
    PROVE  IsFiniteSet(S) /\ Cardinality(S) \in Nat
PROOF
<1>1. IsFiniteSet(NodeId) BY FS_Interval, LenProperties DEF ConnTypeOK, NodeId
<1>2. IsFiniteSet(S) BY <1>1, FS_Subset
<1> QED BY <1>2, FS_CardinalityType

\* The count of ConnectionsAreSafe is Held.
LEMMA HeldIsCount ==
    ASSUME ConnTypeOK, NEW n
    PROVE  Cardinality({t \in DOMAIN snap : n \in snap[t]}) = Held(n)
PROOF
<1> DEFINE H == {t \in DOMAIN snap : n \in snap[t]}
<1>1. CASE n \in snap["socket"] /\ n \in snap["msg"]
  <2>1. H = {"socket"} \cup {"msg"} BY <1>1 DEF ConnTypeOK
  <2>2. IsFiniteSet({"socket"}) /\ Cardinality({"socket"}) = 1 BY FS_Singleton
  <2>3. Cardinality({"socket"} \cup {"msg"}) = Cardinality({"socket"}) + 1
    BY <2>2, FS_AddElement
  <2> QED BY <1>1, <2>1, <2>2, <2>3 DEF Held
<1>2. CASE n \in snap["socket"] /\ n \notin snap["msg"]
  <2>1. H = {"socket"} BY <1>2 DEF ConnTypeOK
  <2>2. Cardinality({"socket"}) = 1 BY FS_Singleton
  <2> QED BY <1>2, <2>1, <2>2 DEF Held
<1>3. CASE n \notin snap["socket"] /\ n \in snap["msg"]
  <2>1. H = {"msg"} BY <1>3 DEF ConnTypeOK
  <2>2. Cardinality({"msg"}) = 1 BY FS_Singleton
  <2> QED BY <1>3, <2>1, <2>2 DEF Held
<1>4. CASE n \notin snap["socket"] /\ n \notin snap["msg"]
  <2>1. H = {} BY <1>4 DEF ConnTypeOK
  <2> QED BY <1>4, <2>1, FS_EmptySet DEF Held
<1> QED BY <1>1, <1>2, <1>3, <1>4

\* The invariant implies ConnectionsAreSafe.
LEMMA ConnIInvImplies ==
    ASSUME ConnIInv PROVE ConnectionsAreSafe
PROOF
<1>1. ConnTypeOK /\ CountsRight /\ GrantsRight /\ InboundRight BY DEF ConnIInv
<1>2. ASSUME NEW n \in NodeId
      PROVE /\ node[n].at # "deleted" <=> n \in m_node_states
            /\ node[n].at = "deleted" => \A t \in DOMAIN snap : n \notin snap[t]
            /\ node[n].refs = (IF node[n].at \in {"made", "listed"} THEN 1 ELSE 0)
                              + Cardinality({t \in DOMAIN snap : n \in snap[t]})
  <2>1. Cardinality({t \in DOMAIN snap : n \in snap[t]}) = Held(n) BY <1>1, HeldIsCount
  <2>2. node[n].at = "deleted" => \A t \in DOMAIN snap : n \notin snap[t]
    BY <1>1, <1>2 DEF CountsRight, Held, ConnTypeOK
  <2> QED BY <1>1, <1>2, <2>1, <2>2 DEF CountsRight, InUse
<1>3. semOutbound = (IF interruptNet THEN 2 ELSE 1) * m_max_outbound - GrantsOf(NodeId)
                    - (IF connPc["open"] \in {"granted", "connecting"} THEN 1 ELSE 0)
  BY <1>1 DEF GrantsRight, WithNodes, WithThread, Posted, GrantsOf
<1>4. {n \in NodeId : node[n].inbound /\ ~node[n].fDisconnect
                      /\ node[n].at \in {"made", "listed"}} = Unmarked
  BY DEF Unmarked, InUse
<1> QED BY <1>1, <1>2, <1>3, <1>4 DEF ConnectionsAreSafe, InboundRight

\* A node without connections satisfies the invariant.
LEMMA ConnInitIInv ==
    ASSUME ConnInit PROVE ConnIInv
PROOF
<1> USE ConnAssumption
<1>1. node = <<>> /\ NodeId = {} BY DEF ConnInit, NodeId
<1>2. ConnTypeOK
  <2>1. node \in Seq(NodeRec) BY <1>1, EmptySeq
  <2>2. DOMAIN connPc = ConnThread BY DEF ConnInit
  <2>3. DOMAIN snap = {"socket", "msg"} /\ snap["socket"] = {} /\ snap["msg"] = {}
    BY DEF ConnInit
  <2>4. semOutbound \in Int BY DEF ConnInit
  <2>5. interruptNet \in BOOLEAN BY DEF ConnInit
  <2> QED BY <2>1, <2>2, <2>3, <2>4, <2>5 DEF ConnTypeOK
<1>3. WithNodes = {} /\ Unmarked = {} /\ Incoming = {}
  BY <1>1 DEF WithNodes, Unmarked, Incoming
<1>4. GrantsRight BY <1>1, <1>3, FS_EmptySet DEF ConnInit, GrantsRight, WithThread, Posted, ConnThread
<1>5. InboundRight BY <1>3, FS_EmptySet DEF InboundRight
<1>6. CountsRight /\ SnapsRight BY <1>1 DEF ConnInit, CountsRight, SnapsRight
<1> QED BY <1>2, <1>4, <1>5, <1>6 DEF ConnIInv
-----------------------------------------------------------------------------
\* Steps that keep the nodes there are.

\* A step that makes no CNode keeps the set of nodes.
LEMMA NodeUpdate ==
    ASSUME ConnTypeOK, node' \in [NodeId -> NodeRec]
    PROVE  node' \in Seq(NodeRec) /\ NodeId' = NodeId
PROOF
<1>1. Len(node) \in Nat /\ NodeId = 1 .. Len(node) BY LenProperties DEF ConnTypeOK, NodeId
<1>2. node' \in [1 .. Len(node) -> NodeRec] BY <1>1
<1>3. node' \in Seq(NodeRec) BY <1>1, <1>2, SeqDef
<1> QED BY <1>3 DEF NodeId

\* The nodes as a function of their ids.
LEMMA NodeFunction ==
    ASSUME ConnTypeOK PROVE node \in [NodeId -> NodeRec]
PROOF
BY LenProperties DEF ConnTypeOK, NodeId

\* A thread moves without a node.
LEMMA ThreadStep ==
    ASSUME ConnIInv, node' = node, m_node_states' = m_node_states, snap' = snap,
           DOMAIN connPc' = ConnThread, interruptNet' \in BOOLEAN, semOutbound' \in Int,
           connPc'["socket"] = connPc["socket"] \/ connPc["socket"] \notin {"push", "handle"},
           connPc'["msg"] = connPc["msg"] \/ connPc["msg"] # "work",
           connPc'["main"] = "running" => ~interruptNet',
           semOutbound' + WithThread' - Posted' = semOutbound + WithThread - Posted
    PROVE  ConnIInv'
PROOF
<1> USE ConnAssumption
<1>0. ConnTypeOK /\ CountsRight /\ GrantsRight /\ InboundRight /\ SnapsRight BY DEF ConnIInv
<1>1. NodeId' = NodeId BY DEF NodeId
<1>2. ConnTypeOK' BY <1>0, <1>1 DEF ConnTypeOK
<1>3. CountsRight' BY <1>0, <1>1 DEF CountsRight, Held, InUse
<1>4. WithNodes' = WithNodes /\ Unmarked' = Unmarked /\ Incoming' = Incoming
  BY <1>1 DEF WithNodes, Unmarked, Incoming, InUse
<1>5. Cardinality(WithNodes) \in Nat BY <1>0, NodeSetsFinite DEF WithNodes
<1>6. WithThread \in Int /\ WithThread' \in Int /\ Posted \in Int /\ Posted' \in Int
  BY DEF WithThread, Posted
<1>7. semOutbound' = Posted' - Cardinality(WithNodes') - WithThread'
  <2>1. semOutbound = Posted - Cardinality(WithNodes) - WithThread /\ semOutbound \in Int
    BY <1>0 DEF GrantsRight, ConnTypeOK
  <2> QED BY <2>1, <1>4, <1>5, <1>6
<1>8. GrantsRight' BY <1>0, <1>1, <1>7 DEF GrantsRight, InUse
<1>9. InboundRight' BY <1>0, <1>4 DEF InboundRight
<1>10. SnapsRight' BY <1>0 DEF SnapsRight
<1> QED BY <1>2, <1>3, <1>8, <1>9, <1>10 DEF ConnIInv

\* A node is marked, or stays so.
LEMMA MarkStep ==
    ASSUME ConnIInv, NEW n \in NodeId, NEW b \in BOOLEAN, node[n].fDisconnect => b,
           node' = [node EXCEPT ![n].fDisconnect = b],
           m_node_states' = m_node_states, snap' = snap, connPc' = connPc,
           interruptNet' = interruptNet, semOutbound' = semOutbound
    PROVE  ConnIInv'
PROOF
<1> USE ConnAssumption
<1>0. ConnTypeOK /\ CountsRight /\ GrantsRight /\ InboundRight /\ SnapsRight BY DEF ConnIInv
<1>1. node \in [NodeId -> NodeRec] BY <1>0, NodeFunction
<1>2. node' \in [NodeId -> NodeRec] BY <1>1 DEF NodeRec
<1>3. node' \in Seq(NodeRec) /\ NodeId' = NodeId BY <1>0, <1>2, NodeUpdate
<1>4. \A k \in NodeId :
         /\ node'[k].at = node[k].at /\ node'[k].refs = node[k].refs
         /\ node'[k].inbound = node[k].inbound /\ node'[k].grant = node[k].grant
         /\ node[k].fDisconnect => node'[k].fDisconnect
  BY <1>1 DEF NodeRec
<1>5. ConnTypeOK' BY <1>0, <1>3 DEF ConnTypeOK
<1>6. CountsRight' BY <1>0, <1>3, <1>4 DEF CountsRight, Held, InUse
<1>7. WithNodes' = WithNodes /\ Incoming' = Incoming BY <1>3, <1>4 DEF WithNodes, Incoming
<1>8. GrantsRight' BY <1>0, <1>3, <1>4, <1>7 DEF GrantsRight, WithThread, Posted, InUse
<1>9. Cardinality(Unmarked') <= nMaxInbound
  <2>1. Unmarked' \in SUBSET Unmarked BY <1>3, <1>4 DEF Unmarked, InUse
  <2>2. IsFiniteSet(Unmarked) /\ Cardinality(Unmarked) \in Nat
    BY <1>0, NodeSetsFinite DEF Unmarked
  <2>3. Cardinality(Unmarked') <= Cardinality(Unmarked) /\ IsFiniteSet(Unmarked')
    BY <2>1, <2>2, FS_Subset
  <2> QED BY <1>0, <2>2, <2>3, FS_CardinalityType DEF InboundRight
<1>10. InboundRight' BY <1>0, <1>7, <1>9 DEF InboundRight
<1>11. SnapsRight' BY <1>0 DEF SnapsRight
<1> QED BY <1>5, <1>6, <1>8, <1>10, <1>11 DEF ConnIInv

\* A node made by t is listed; the socket thread has made at most one.
LEMMA PushStep ==
    ASSUME ConnIInv, NEW t \in {"open", "socket"}, NEW there, connPc[t] = "push",
           there \notin {"granted", "connecting"},
           PushNode(t, there)
    PROVE  ConnIInv'
PROOF
<1> USE ConnAssumption
<1>0. ConnTypeOK /\ CountsRight /\ GrantsRight /\ InboundRight /\ SnapsRight BY DEF ConnIInv
<1>1. PICK n \in NodeId : /\ node[n].at = "made" /\ node[n].inbound = (t = "socket")
                         /\ node' = [node EXCEPT ![n].at = "listed"]
  BY DEF PushNode
<1>2. node \in [NodeId -> NodeRec] BY <1>0, NodeFunction
<1>3. node' \in [NodeId -> NodeRec] BY <1>1, <1>2 DEF NodeRec
<1>4. node' \in Seq(NodeRec) /\ NodeId' = NodeId BY <1>0, <1>3, NodeUpdate
<1>5. /\ \A k \in NodeId :
           /\ node'[k].refs = node[k].refs /\ node'[k].inbound = node[k].inbound
           /\ node'[k].grant = node[k].grant /\ node'[k].fDisconnect = node[k].fDisconnect
           /\ k # n => node'[k].at = node[k].at
      /\ node'[n].at = "listed"
  BY <1>1, <1>2 DEF NodeRec
<1>6. \A k \in NodeId : /\ InUse(node'[k]) <=> InUse(node[k])
                        /\ node'[k].at = "deleted" <=> node[k].at = "deleted"
  BY <1>1, <1>5 DEF InUse
<1>7. /\ snap' = snap /\ m_node_states' = m_node_states /\ semOutbound' = semOutbound
      /\ interruptNet' = interruptNet /\ connPc' = [connPc EXCEPT ![t] = there]
  BY DEF PushNode, Goto
<1>8. ConnTypeOK' BY <1>0, <1>4, <1>7 DEF ConnTypeOK
<1>9. CountsRight' BY <1>0, <1>4, <1>5, <1>6, <1>7 DEF CountsRight, Held
<1>10. WithNodes' = WithNodes /\ Unmarked' = Unmarked
  BY <1>4, <1>5, <1>6 DEF WithNodes, Unmarked
<1>11. GrantsRight'
  <2>1. WithThread' = WithThread /\ Posted' = Posted
    BY <1>0, <1>7 DEF WithThread, Posted, ConnTypeOK, ConnThread
  <2> QED BY <1>0, <1>4, <1>5, <1>6, <1>7, <1>10, <2>1 DEF GrantsRight, ConnTypeOK, ConnThread
<1>12. InboundRight'
  <2>1. CASE t = "socket"
    <3>1. n \in Incoming BY <1>1, <2>1 DEF Incoming
    <3>2. Incoming' = {} BY <1>0, <1>4, <1>5, <3>1 DEF Incoming, InboundRight
    <3> QED BY <1>0, <1>10, <3>2 DEF InboundRight
  <2>2. CASE t = "open"
    <3>1. n \notin Incoming BY <1>1, <2>2 DEF Incoming
    <3>2. Incoming' = Incoming BY <1>4, <1>5, <3>1 DEF Incoming
    <3>3. connPc'["socket"] = connPc["socket"] BY <1>0, <1>7, <2>2 DEF ConnTypeOK, ConnThread
    <3> QED BY <1>0, <1>10, <3>2, <3>3 DEF InboundRight
  <2> QED BY <2>1, <2>2
<1>13. SnapsRight' BY <1>0, <1>7 DEF SnapsRight, ConnTypeOK, ConnThread
<1> QED BY <1>8, <1>9, <1>11, <1>12, <1>13 DEF ConnIInv

\* References change with the snapshot of a thread that counts them.
LEMMA SnapStep ==
    ASSUME ConnIInv, NEW t \in {"socket", "msg"}, NEW S, S \subseteq NodeId, NEW there,
           snap' = [snap EXCEPT ![t] = S],
           node' = [n \in NodeId |-> [node[n] EXCEPT !.refs =
                       @ + (IF n \in S THEN 1 ELSE 0) - (IF n \in snap[t] THEN 1 ELSE 0)]],
           \A n \in S : node[n].at # "deleted",
           connPc' = [connPc EXCEPT ![t] = there], connPc[t] # "push",
           S # {} => there = IF t = "socket" THEN "handle" ELSE "work",
           m_node_states' = m_node_states, interruptNet' = interruptNet,
           semOutbound' = semOutbound
    PROVE  ConnIInv'
PROOF
<1> USE ConnAssumption
<1>0. ConnTypeOK /\ CountsRight /\ GrantsRight /\ InboundRight /\ SnapsRight BY DEF ConnIInv
<1>1. node \in [NodeId -> NodeRec] BY <1>0, NodeFunction
<1>2. node' \in [NodeId -> NodeRec] BY <1>1 DEF NodeRec
<1>3. node' \in Seq(NodeRec) /\ NodeId' = NodeId BY <1>0, <1>2, NodeUpdate
<1>4. \A k \in NodeId :
         /\ node'[k].at = node[k].at /\ node'[k].inbound = node[k].inbound
         /\ node'[k].grant = node[k].grant /\ node'[k].fDisconnect = node[k].fDisconnect
         /\ node'[k].refs = node[k].refs + (IF k \in S THEN 1 ELSE 0)
                            - (IF k \in snap[t] THEN 1 ELSE 0)
  BY <1>1 DEF NodeRec
<1>5. ConnTypeOK' BY <1>0, <1>3 DEF ConnTypeOK
<1>6. ASSUME NEW k \in NodeId
      PROVE  Held(k)' = Held(k) + (IF k \in S THEN 1 ELSE 0) - (IF k \in snap[t] THEN 1 ELSE 0)
  BY <1>0 DEF Held, ConnTypeOK
<1>7. CountsRight'
  <2> SUFFICES ASSUME NEW k \in NodeId
               PROVE /\ node'[k].at # "deleted" <=> k \in m_node_states
                     /\ node'[k].at = "deleted" => Held(k)' = 0
                     /\ node'[k].refs = (IF InUse(node'[k]) THEN 1 ELSE 0) + Held(k)'
    BY <1>3 DEF CountsRight
  <2>1. node[k].refs \in Int /\ Held(k) \in Int BY <1>1 DEF NodeRec, Held
  <2>2. node'[k].refs = (IF InUse(node'[k]) THEN 1 ELSE 0) + Held(k)'
    BY <1>0, <1>4, <1>6, <2>1 DEF CountsRight, InUse
  <2>3. node'[k].at = "deleted" => Held(k)' = 0
    BY <1>0, <1>4 DEF CountsRight, Held, ConnTypeOK
  <2> QED BY <1>0, <1>4, <2>2, <2>3 DEF CountsRight
<1>8. WithNodes' = WithNodes /\ Unmarked' = Unmarked /\ Incoming' = Incoming
  BY <1>3, <1>4 DEF WithNodes, Unmarked, Incoming, InUse
<1>9. connPc'["open"] = connPc["open"] /\ connPc'["main"] = connPc["main"]
  BY <1>0 DEF ConnTypeOK, ConnThread
<1>10. GrantsRight'
  BY <1>0, <1>3, <1>4, <1>8, <1>9 DEF GrantsRight, WithThread, Posted, InUse
<1>11. InboundRight' BY <1>0, <1>8 DEF InboundRight, ConnTypeOK, ConnThread
<1>12. SnapsRight' BY <1>0 DEF SnapsRight, ConnTypeOK, ConnThread
<1> QED BY <1>5, <1>7, <1>10, <1>11, <1>12 DEF ConnIInv
-----------------------------------------------------------------------------
\* Nodes go out of use, and their grants back.
LEMMA LeaveGrants ==
    ASSUME ConnIInv, NEW S, S \subseteq NodeId, node' \in [NodeId -> NodeRec],
           \A n \in NodeId \ S : node'[n] = node[n],
           \A n \in S : ~node'[n].grant /\ ~InUse(node'[n]),
           semOutbound' = semOutbound + GrantsOf(S), interruptNet' = interruptNet,
           connPc'["open"] = connPc["open"], connPc'["main"] = "running" => connPc["main"] = "running"
    PROVE  GrantsRight' /\ semOutbound' \in Int
PROOF
<1> USE ConnAssumption
<1>0. ConnTypeOK /\ GrantsRight BY DEF ConnIInv
<1>1. NodeId' = NodeId BY <1>0, NodeUpdate
<1>2. IsFiniteSet(WithNodes) /\ Cardinality(WithNodes) \in Nat
  BY <1>0, NodeSetsFinite DEF WithNodes
<1>3. WithNodes' = WithNodes \ S BY <1>1 DEF WithNodes
<1>4. GrantsOf(S) = Cardinality(WithNodes \cap S)
  <2>1. {n \in S : node[n].grant} = WithNodes \cap S BY DEF WithNodes
  <2> QED BY <2>1 DEF GrantsOf
<1>5. Cardinality(WithNodes \ S) = Cardinality(WithNodes) - Cardinality(WithNodes \cap S)
  BY <1>2, FS_Difference
<1>6. Cardinality(WithNodes \cap S) \in Nat
  BY <1>2, FS_Intersection, FS_CardinalityType
<1>7. /\ WithThread' = WithThread /\ Posted' = Posted
      /\ WithThread \in Int /\ Posted \in Int /\ semOutbound \in Int
  BY <1>0 DEF WithThread, Posted, ConnTypeOK
<1>8. semOutbound = Posted - Cardinality(WithNodes) - WithThread BY <1>0 DEF GrantsRight
<1>9. semOutbound' = Posted' - Cardinality(WithNodes') - WithThread' /\ semOutbound' \in Int
  BY <1>2, <1>3, <1>4, <1>5, <1>6, <1>7, <1>8
<1>10. \A n \in NodeId : node'[n].grant => InUse(node'[n]) BY <1>0 DEF GrantsRight
<1> QED BY <1>0, <1>1, <1>9, <1>10 DEF GrantsRight

\* Nodes that go out of use keep the inbound limit.
LEMMA LeaveInbound ==
    ASSUME ConnIInv, NEW S, S \subseteq NodeId, node' \in [NodeId -> NodeRec],
           \A n \in NodeId \ S : node'[n] = node[n],
           \A n \in S : ~InUse(node'[n]),
           connPc'["socket"] = connPc["socket"] \/ connPc["socket"] # "push"
    PROVE  InboundRight'
PROOF
<1> USE ConnAssumption
<1>0. ConnTypeOK /\ InboundRight BY DEF ConnIInv
<1>1. NodeId' = NodeId BY <1>0, NodeUpdate
<1>2. Unmarked' \in SUBSET Unmarked BY <1>1 DEF Unmarked
<1>3. IsFiniteSet(Unmarked) /\ Cardinality(Unmarked) \in Nat BY <1>0, NodeSetsFinite DEF Unmarked
<1>4. Cardinality(Unmarked') <= Cardinality(Unmarked) /\ Cardinality(Unmarked') \in Nat
  BY <1>2, <1>3, FS_Subset, FS_CardinalityType
<1>5. Cardinality(Unmarked') <= nMaxInbound BY <1>0, <1>3, <1>4 DEF InboundRight
<1>6. Incoming' \subseteq Incoming BY <1>1 DEF Incoming, InUse
<1> QED BY <1>0, <1>5, <1>6 DEF InboundRight

\* Taking the marked nodes out of m_nodes preserves the invariant.
LEMMA UnlistStep ==
    ASSUME ConnIInv, Unlist PROVE ConnIInv'
PROOF
<1> DEFINE S == {n \in m_nodes : node[n].fDisconnect \/ ~fNetworkActive}
<1>0. ConnTypeOK /\ CountsRight /\ GrantsRight /\ InboundRight /\ SnapsRight BY DEF ConnIInv
<1>1. node \in [NodeId -> NodeRec] BY <1>0, NodeFunction
<1>2. S \subseteq NodeId /\ \A n \in S : node[n].at = "listed" BY DEF m_nodes
<1>3. node' = [n \in NodeId |->
                  IF n \notin S THEN node[n]
                  ELSE [node[n] EXCEPT !.at = "unlisted", !.fDisconnect = TRUE,
                                       !.grant = FALSE, !.refs = @ - 1]]
  BY DEF Unlist
<1>4. /\ semOutbound' = semOutbound + GrantsOf(S) /\ interruptNet' = interruptNet
      /\ snap' = snap /\ m_node_states' = m_node_states
      /\ connPc["socket"] = "top" /\ connPc' = [connPc EXCEPT !["socket"] = "reap"]
  BY DEF Unlist, Goto
<1> HIDE DEF S
<1>5. node' \in [NodeId -> NodeRec]
  <2>1. \A n \in NodeId : node[n] \in NodeRec BY <1>1
  <2>2. \A n \in NodeId : [node[n] EXCEPT !.at = "unlisted", !.fDisconnect = TRUE,
                                          !.grant = FALSE, !.refs = @ - 1] \in NodeRec
    <3> SUFFICES ASSUME NEW q \in NodeRec
                 PROVE [q EXCEPT !.at = "unlisted", !.fDisconnect = TRUE,
                                 !.grant = FALSE, !.refs = @ - 1] \in NodeRec
      BY <2>1
    <3>1. [q EXCEPT !.at = "unlisted"] \in NodeRec BY DEF NodeRec
    <3>2. [q EXCEPT !.at = "unlisted", !.fDisconnect = TRUE] \in NodeRec BY <3>1 DEF NodeRec
    <3>3. [q EXCEPT !.at = "unlisted", !.fDisconnect = TRUE, !.grant = FALSE] \in NodeRec
      BY <3>2 DEF NodeRec
    <3>4. q.refs - 1 \in Int BY DEF NodeRec
    <3> QED
      <4> DEFINE p == [q EXCEPT !.at = "unlisted", !.fDisconnect = TRUE, !.grant = FALSE]
                 k == q.refs - 1
      <4>1. p.refs = q.refs BY DEF NodeRec
      <4>2. [q EXCEPT !.at = "unlisted", !.fDisconnect = TRUE,
                      !.grant = FALSE, !.refs = @ - 1] = [p EXCEPT !.refs = k]
        BY <4>1 DEF NodeRec
      <4> HIDE DEF p, k
      <4>3. [p EXCEPT !.refs = k] \in NodeRec BY <3>3, <3>4 DEF NodeRec, p, k
      <4> QED BY <4>2, <4>3
  <2> QED BY <1>3, <2>1, <2>2
<1>6. /\ \A n \in NodeId \ S : node'[n] = node[n]
      /\ \A n \in S : /\ node'[n].at = "unlisted" /\ ~node'[n].grant
                      /\ node'[n].refs = node[n].refs - 1
  BY <1>1, <1>2, <1>3 DEF NodeRec
<1>7. \A n \in S : ~InUse(node'[n]) BY <1>6 DEF InUse
<1>8. node' \in Seq(NodeRec) /\ NodeId' = NodeId BY <1>0, <1>5, NodeUpdate
<1>9. /\ connPc'["open"] = connPc["open"] /\ connPc'["main"] = connPc["main"]
      /\ connPc'["msg"] = connPc["msg"] /\ DOMAIN connPc' = ConnThread
  BY <1>0, <1>4 DEF ConnTypeOK, ConnThread
<1>10. GrantsRight' /\ semOutbound' \in Int
  BY <1>2, <1>4, <1>5, <1>6, <1>7, <1>9, LeaveGrants
<1>11. InboundRight' BY <1>2, <1>4, <1>5, <1>6, <1>7, LeaveInbound
<1>12. ConnTypeOK' BY <1>0, <1>4, <1>8, <1>9, <1>10 DEF ConnTypeOK
<1>13. CountsRight'
  <2> SUFFICES ASSUME NEW k \in NodeId
               PROVE /\ node'[k].at # "deleted" <=> k \in m_node_states
                     /\ node'[k].at = "deleted" => Held(k) = 0
                     /\ node'[k].refs = (IF InUse(node'[k]) THEN 1 ELSE 0) + Held(k)
    BY <1>4, <1>8 DEF CountsRight, Held
  <2>1. CASE k \notin S BY <1>0, <1>6, <2>1 DEF CountsRight
  <2>2. CASE k \in S
    <3>1. Held(k) \in Int BY DEF Held
    <3> QED BY <1>0, <1>2, <1>6, <1>7, <2>2, <3>1 DEF CountsRight, InUse
  <2> QED BY <2>1, <2>2
<1>14. SnapsRight' BY <1>0, <1>4, <1>9 DEF SnapsRight
<1> QED BY <1>10, <1>11, <1>12, <1>13, <1>14 DEF ConnIInv

\* Deleting nodes that are in no snapshot.
LEMMA DeleteStep ==
    ASSUME ConnIInv, NEW S, S \subseteq NodeId, \A n \in S : Held(n) = 0,
           node' = Deleted(S), m_node_states' = m_node_states \ S,
           semOutbound' = semOutbound + GrantsOf(S), interruptNet' = interruptNet, snap' = snap,
           DOMAIN connPc' = ConnThread, connPc'["open"] = connPc["open"],
           connPc'["socket"] = connPc["socket"], connPc'["msg"] = connPc["msg"],
           connPc'["main"] = "running" => connPc["main"] = "running"
    PROVE  ConnIInv'
PROOF
<1>0. ConnTypeOK /\ CountsRight /\ GrantsRight /\ InboundRight /\ SnapsRight BY DEF ConnIInv
<1>1. node \in [NodeId -> NodeRec] BY <1>0, NodeFunction
<1>2. node' \in [NodeId -> NodeRec]
  <2>1. \A n \in NodeId : node[n] \in NodeRec /\ node[n].inbound \in BOOLEAN
    BY <1>1 DEF NodeRec
  <2>2. \A n \in NodeId : [at |-> "deleted", refs |-> 0, fDisconnect |-> TRUE,
                           inbound |-> node[n].inbound, grant |-> FALSE] \in NodeRec
    BY <2>1 DEF NodeRec
  <2> QED BY <2>1, <2>2 DEF Deleted
<1>3. /\ \A n \in NodeId \ S : node'[n] = node[n]
      /\ \A n \in S : node'[n].at = "deleted" /\ ~node'[n].grant /\ node'[n].refs = 0
  BY DEF Deleted
<1>4. \A n \in S : ~InUse(node'[n]) BY <1>3 DEF InUse
<1>5. node' \in Seq(NodeRec) /\ NodeId' = NodeId BY <1>0, <1>2, NodeUpdate
<1>6. GrantsRight' /\ semOutbound' \in Int BY <1>2, <1>3, <1>4, LeaveGrants
<1>7. InboundRight' BY <1>2, <1>3, <1>4, LeaveInbound
<1>8. ConnTypeOK' BY <1>0, <1>5, <1>6 DEF ConnTypeOK
<1>9. CountsRight'
  <2> SUFFICES ASSUME NEW k \in NodeId
               PROVE /\ node'[k].at # "deleted" <=> k \in m_node_states \ S
                     /\ node'[k].at = "deleted" => Held(k) = 0
                     /\ node'[k].refs = (IF InUse(node'[k]) THEN 1 ELSE 0) + Held(k)
    BY <1>5 DEF CountsRight, Held
  <2>1. CASE k \notin S BY <1>0, <1>3, <2>1 DEF CountsRight
  <2>2. CASE k \in S BY <1>3, <1>4, <2>2
  <2> QED BY <2>1, <2>2
<1>10. SnapsRight' BY <1>0 DEF SnapsRight
<1> QED BY <1>6, <1>7, <1>8, <1>9, <1>10 DEF ConnIInv

\* The reference count protects every node that is not yet unlisted or that a
\* snapshot holds.
LEMMA ReapStep ==
    ASSUME ConnIInv, NEW n \in NodeId, Reap(n) PROVE ConnIInv'
PROOF
<1>0. ConnTypeOK /\ CountsRight /\ GrantsRight BY DEF ConnIInv
<1>1. /\ semOutbound' = semOutbound /\ interruptNet' = interruptNet /\ snap' = snap
      /\ connPc' = connPc
  BY DEF Reap
<1>2. CASE Unused(n)
  <2>1. node' = Deleted({n}) /\ m_node_states' = m_node_states \ {n} BY <1>2 DEF Reap
  <2>2. node[n].refs <= 0 BY <1>2 DEF Unused
  <2>3. Held(n) = 0 /\ ~InUse(node[n])
    BY <1>0, <2>2 DEF CountsRight, Held
  <2>4. {k \in {n} : node[k].grant} = {} BY <1>0, <2>3 DEF GrantsRight
  <2>5. GrantsOf({n}) = 0 BY <2>4, FS_EmptySet DEF GrantsOf
  <2>6. semOutbound' = semOutbound + GrantsOf({n}) BY <1>0, <1>1, <2>5 DEF ConnTypeOK
  <2>7. DOMAIN connPc' = ConnThread BY <1>0, <1>1 DEF ConnTypeOK
  <2> QED BY <1>1, <2>1, <2>3, <2>6, <2>7, DeleteStep
<1>3. CASE ~Unused(n)
  <2>1. node' = node /\ m_node_states' = m_node_states BY <1>3 DEF Reap
  <2>2. WithThread' = WithThread /\ Posted' = Posted BY <1>1 DEF WithThread, Posted
  <2>3. DOMAIN connPc' = ConnThread /\ semOutbound' \in Int BY <1>0, <1>1 DEF ConnTypeOK
  <2>4. interruptNet' \in BOOLEAN BY <1>0, <1>1 DEF ConnTypeOK
  <2> QED BY <1>0, <1>1, <2>1, <2>2, <2>3, <2>4, ThreadStep DEF GrantsRight
<1> QED BY <1>2, <1>3

\* The joined threads have no snapshots left.
LEMMA StopStep ==
    ASSUME ConnIInv, StopNodes PROVE ConnIInv'
PROOF
<1> DEFINE S == m_nodes \cup m_nodes_disconnected
<1>0. ConnTypeOK /\ SnapsRight BY DEF ConnIInv
<1>1. S \subseteq NodeId BY DEF m_nodes, m_nodes_disconnected
<1>2. snap["socket"] = {} /\ snap["msg"] = {} BY <1>0 DEF SnapsRight, StopNodes, ConnThread
<1>3. \A n \in S : Held(n) = 0 BY <1>2 DEF Held
<1>4. /\ node' = Deleted(S) /\ m_node_states' = m_node_states \ S
      /\ semOutbound' = semOutbound + GrantsOf(S) /\ interruptNet' = interruptNet
      /\ snap' = snap /\ connPc' = [connPc EXCEPT !["main"] = "stopped"]
  BY DEF StopNodes, Goto
<1>5. /\ DOMAIN connPc' = ConnThread /\ connPc'["open"] = connPc["open"]
      /\ connPc'["socket"] = connPc["socket"] /\ connPc'["msg"] = connPc["msg"]
      /\ connPc'["main"] # "running"
  BY <1>0, <1>4 DEF ConnTypeOK, ConnThread
<1> HIDE DEF S
<1> QED BY <1>1, <1>3, <1>4, <1>5, DeleteStep
-----------------------------------------------------------------------------
\* Making a node, perhaps with the mark of an evicted one (base).
LEMMA MakeStep ==
    ASSUME ConnIInv, NEW inbound \in BOOLEAN, NEW base \in Seq(NodeRec), Len(base) = Len(node),
           \A n \in NodeId : /\ base[n].at = node[n].at /\ base[n].refs = node[n].refs
                             /\ base[n].inbound = node[n].inbound /\ base[n].grant = node[n].grant
                             /\ node[n].fDisconnect => base[n].fDisconnect,
           MakeNode(base, inbound), snap' = snap, interruptNet' = interruptNet,
           semOutbound' = semOutbound,
           connPc' = [connPc EXCEPT ![IF inbound THEN "socket" ELSE "open"] = "push"],
           IF inbound THEN connPc["socket"] = "listen" ELSE connPc["open"] = "connecting",
           inbound => Cardinality({n \in NodeId : base[n].inbound /\ ~base[n].fDisconnect
                                                  /\ InUse(base[n])}) < nMaxInbound
    PROVE  ConnIInv'
PROOF
<1> USE ConnAssumption
<1> DEFINE N == Len(node) + 1
           r == [at |-> "made", refs |-> 1, fDisconnect |-> FALSE,
                 inbound |-> inbound, grant |-> ~inbound]
           U == {n \in NodeId : base[n].inbound /\ ~base[n].fDisconnect /\ InUse(base[n])}
<1>0. ConnTypeOK /\ CountsRight /\ GrantsRight /\ InboundRight /\ SnapsRight BY DEF ConnIInv
<1>1. r \in NodeRec BY DEF NodeRec
<1>2. node' = Append(base, r) /\ m_node_states' = m_node_states \cup {N} BY DEF MakeNode
<1>3. Len(node) \in Nat /\ NodeId = 1 .. Len(node) BY <1>0, LenProperties DEF ConnTypeOK, NodeId
<1>4. /\ node' \in Seq(NodeRec) /\ Len(node') = N /\ node'[N] = r
      /\ \A n \in NodeId : node'[n] = base[n]
  <2> HIDE DEF r
  <2> QED BY <1>1, <1>2, <1>3, AppendProperties
<1>5. NodeId' = 1 .. N BY <1>4, LenProperties DEF NodeId
<1>6. NodeId' = NodeId \cup {N} /\ N \notin NodeId BY <1>3, <1>5
<1>7. /\ node'[N].at = "made" /\ node'[N].refs = 1 /\ ~node'[N].fDisconnect
      /\ node'[N].inbound = inbound /\ node'[N].grant = ~inbound
  BY <1>4
<1>8. \A n \in NodeId :
         /\ node'[n].at = node[n].at /\ node'[n].refs = node[n].refs
         /\ node'[n].inbound = node[n].inbound /\ node'[n].grant = node[n].grant
         /\ node[n].fDisconnect => node'[n].fDisconnect
  BY <1>4
<1> HIDE DEF N, r, U
<1>9. ConnTypeOK' BY <1>0, <1>4, <1>6 DEF ConnTypeOK
<1>10. CountsRight'
  <2>1. Held(N) = 0 BY <1>0, <1>6 DEF Held, ConnTypeOK
  <2>2. \A k : Held(k)' = Held(k) BY DEF Held
  <2>3. /\ node'[N].at # "deleted" /\ N \in m_node_states'
        /\ node'[N].refs = (IF InUse(node'[N]) THEN 1 ELSE 0) + Held(N)
    BY <1>2, <1>7, <2>1 DEF InUse
  <2>4. ASSUME NEW k \in NodeId
        PROVE /\ node'[k].at # "deleted" <=> k \in m_node_states'
              /\ node'[k].at = "deleted" => Held(k) = 0
              /\ node'[k].refs = (IF InUse(node'[k]) THEN 1 ELSE 0) + Held(k)
    <3>1. /\ node'[k].at = node[k].at /\ node'[k].refs = node[k].refs
          /\ node'[k].inbound = node[k].inbound /\ node'[k].grant = node[k].grant
      BY <1>8
    <3>2. InUse(node'[k]) <=> InUse(node[k]) BY <3>1 DEF InUse
    <3>3. /\ node[k].at # "deleted" <=> k \in m_node_states
          /\ node[k].at = "deleted" => Held(k) = 0
          /\ node[k].refs = (IF InUse(node[k]) THEN 1 ELSE 0) + Held(k)
      BY <1>0 DEF CountsRight
    <3>4. k \in m_node_states' <=> k \in m_node_states BY <1>2, <1>6
    <3> QED BY <3>1, <3>2, <3>3, <3>4
  <2> QED BY <1>6, <2>2, <2>3, <2>4 DEF CountsRight
<1>11. IsFiniteSet(WithNodes) /\ Cardinality(WithNodes) \in Nat
  BY <1>0, NodeSetsFinite DEF WithNodes
<1>12. Posted' = Posted /\ Posted \in Int /\ semOutbound \in Int
  BY <1>0 DEF Posted, ConnTypeOK
<1>13. semOutbound = Posted - Cardinality(WithNodes) - WithThread BY <1>0 DEF GrantsRight
<1>14. semOutbound' = Posted' - Cardinality(WithNodes') - WithThread'
  <2>1. CASE inbound
    <3>1. WithNodes' = WithNodes BY <1>6, <1>7, <1>8, <2>1 DEF WithNodes
    <3>2. WithThread' = WithThread BY <1>0, <2>1 DEF WithThread, ConnTypeOK, ConnThread
    <3> QED BY <1>12, <1>13, <3>1, <3>2
  <2>2. CASE ~inbound
    <3>1. WithNodes' = WithNodes \cup {N} /\ N \notin WithNodes
      BY <1>6, <1>7, <1>8, <2>2 DEF WithNodes
    <3>2. Cardinality(WithNodes') = Cardinality(WithNodes) + 1 BY <1>11, <3>1, FS_AddElement
    <3>3. WithThread' = 0 /\ WithThread = 1
      BY <1>0, <2>2 DEF WithThread, ConnTypeOK, ConnThread
    <3> QED BY <1>11, <1>12, <1>13, <3>2, <3>3
  <2> QED BY <2>1, <2>2
<1>15. GrantsRight'
  <2>1. connPc'["main"] = connPc["main"] BY <1>0 DEF ConnTypeOK, ConnThread
  <2>2. \A n \in NodeId' : node'[n].grant => InUse(node'[n])
    BY <1>0, <1>6, <1>7, <1>8 DEF GrantsRight, InUse
  <2> QED BY <1>0, <1>14, <2>1, <2>2 DEF GrantsRight
<1>16. InboundRight'
  <2>1. CASE inbound
    <3>1. Unmarked' = U \cup {N} /\ U \subseteq NodeId
      <4>1. N \in Unmarked' BY <1>6, <1>7, <2>1 DEF Unmarked, InUse
      <4>2. \A n \in NodeId : n \in Unmarked' <=> n \in U
        BY <1>4, <1>6 DEF Unmarked, U
      <4>3. Unmarked' \subseteq NodeId' /\ U \subseteq NodeId BY DEF Unmarked, U
      <4> QED BY <1>6, <4>1, <4>2, <4>3
    <3>2. IsFiniteSet(U) /\ Cardinality(U) \in Nat BY <1>0, <3>1, NodeSetsFinite
    <3>3. Cardinality(Unmarked') = Cardinality(U) + 1 BY <1>6, <3>1, <3>2, FS_AddElement
    <3>4. Cardinality(U) < nMaxInbound BY <2>1 DEF U
    <3>5. Cardinality(Unmarked') <= nMaxInbound BY <3>2, <3>3, <3>4
    <3>6. Incoming = {} BY <1>0, <2>1 DEF InboundRight
    <3>7. Incoming' = {N}
      <4>1. N \in Incoming' BY <1>6, <1>7, <2>1 DEF Incoming
      <4>2. \A k \in NodeId : k \notin Incoming' BY <1>8, <3>6 DEF Incoming
      <4>3. Incoming' \subseteq NodeId \cup {N} BY <1>6 DEF Incoming
      <4> QED BY <4>1, <4>2, <4>3
    <3>8. connPc'["socket"] = "push" BY <1>0, <2>1 DEF ConnTypeOK, ConnThread
    <3> QED BY <3>5, <3>7, <3>8 DEF InboundRight
  <2>2. CASE ~inbound
    <3>1. Unmarked' \in SUBSET Unmarked BY <1>6, <1>7, <1>8, <2>2 DEF Unmarked, InUse
    <3>2. IsFiniteSet(Unmarked) /\ Cardinality(Unmarked) \in Nat
      BY <1>0, NodeSetsFinite DEF Unmarked
    <3>3. Cardinality(Unmarked') <= Cardinality(Unmarked) /\ Cardinality(Unmarked') \in Nat
      BY <3>1, <3>2, FS_Subset, FS_CardinalityType
    <3>4. Cardinality(Unmarked') <= nMaxInbound BY <1>0, <3>2, <3>3 DEF InboundRight
    <3>5. Incoming' = Incoming BY <1>6, <1>7, <1>8, <2>2 DEF Incoming
    <3>6. connPc'["socket"] = connPc["socket"] BY <1>0, <2>2 DEF ConnTypeOK, ConnThread
    <3> QED BY <1>0, <3>4, <3>5, <3>6 DEF InboundRight
  <2> QED BY <2>1, <2>2
<1>17. SnapsRight' BY <1>0 DEF SnapsRight, ConnTypeOK, ConnThread
<1> QED BY <1>9, <1>10, <1>15, <1>16, <1>17 DEF ConnIInv

\* OpenNetworkConnection preserves the invariant.
LEMMA OpenMakes ==
    ASSUME ConnIInv, OpenNetworkConnection PROVE ConnIInv'
PROOF
<1>1. ConnTypeOK BY DEF ConnIInv
<1>2. node \in Seq(NodeRec) BY <1>1 DEF ConnTypeOK
<1> QED BY <1>2, MakeStep DEF OpenNetworkConnection, Goto

\* When the inbound slots are taken, one node that was counted no longer is.
LEMMA AcceptMakes ==
    ASSUME ConnIInv, AcceptConnection PROVE ConnIInv'
PROOF
<1> USE ConnAssumption
<1> DEFINE In == {n \in m_nodes : node[n].inbound}
           U(q) == {n \in NodeId : q[n].inbound /\ ~q[n].fDisconnect /\ InUse(q[n])}
<1>0. ConnTypeOK /\ InboundRight BY DEF ConnIInv
<1>1. node \in Seq(NodeRec) BY <1>0 DEF ConnTypeOK
<1>2. /\ connPc["socket"] = "listen" /\ connPc' = [connPc EXCEPT !["socket"] = "push"]
      /\ semOutbound' = semOutbound /\ interruptNet' = interruptNet /\ snap' = snap
  BY DEF AcceptConnection, Goto
<1>3. IsFiniteSet(In) /\ Cardinality(In) \in Nat BY <1>0, NodeSetsFinite DEF m_nodes
<1>4. U(node) = Unmarked BY DEF Unmarked
<1>5. IsFiniteSet(Unmarked) /\ Cardinality(Unmarked) \in Nat BY <1>0, NodeSetsFinite DEF Unmarked
<1>6. CASE Cardinality(In) < nMaxInbound
  <2>1. MakeNode(node, TRUE) BY <1>6 DEF AcceptConnection
  <2>2. Incoming = {} BY <1>0, <1>2 DEF InboundRight
  <2>3. Unmarked \in SUBSET In BY <2>2 DEF Unmarked, Incoming, InUse, m_nodes
  <2>4. Cardinality(Unmarked) <= Cardinality(In) BY <1>3, <2>3, FS_Subset
  <2>5. Cardinality(U(node)) < nMaxInbound BY <1>3, <1>4, <1>5, <1>6, <2>4
  <2> QED BY <1>1, <1>2, <2>1, <2>5, MakeStep
<1>7. CASE ~(Cardinality(In) < nMaxInbound)
  <2>1. PICK v \in m_nodes : /\ node[v].inbound /\ ~node[v].fDisconnect
                             /\ MakeNode([node EXCEPT ![v].fDisconnect = TRUE], TRUE)
    BY <1>7 DEF AcceptConnection
  <2> DEFINE base == [node EXCEPT ![v].fDisconnect = TRUE]
  <2>2. node \in [NodeId -> NodeRec] BY <1>0, NodeFunction
  <2>3. v \in NodeId /\ node[v].at = "listed" BY DEF m_nodes
  <2>4. base \in [NodeId -> NodeRec] BY <2>2, <2>3 DEF NodeRec
  <2>5. Len(node) \in Nat /\ NodeId = 1 .. Len(node) BY <1>1, LenProperties DEF NodeId
  <2>6. base \in Seq(NodeRec) /\ Len(base) = Len(node)
    <3> DEFINE e == [node[v] EXCEPT !.fDisconnect = TRUE]
    <3>1. e \in NodeRec BY <2>2, <2>3 DEF NodeRec
    <3>2. base = [node EXCEPT ![v] = e] BY <2>2, <2>3
    <3> HIDE DEF e, base
    <3> QED BY <1>1, <2>3, <2>5, <3>1, <3>2, ExceptSeq
  <2>7. \A n \in NodeId :
           /\ base[n].at = node[n].at /\ base[n].refs = node[n].refs
           /\ base[n].inbound = node[n].inbound /\ base[n].grant = node[n].grant
           /\ node[n].fDisconnect => base[n].fDisconnect
    BY <2>2, <2>3 DEF NodeRec
  <2>14. /\ \A n \in NodeId : n # v => (base[n].fDisconnect <=> node[n].fDisconnect)
         /\ base[v].fDisconnect
    BY <2>2, <2>3 DEF NodeRec
  <2>8. MakeNode(base, TRUE) BY <2>1
  <2> HIDE DEF base
  <2>9. v \in Unmarked BY <2>1, <2>3 DEF Unmarked, InUse
  <2>10. U(base) = Unmarked \ {v}
    <3>1. \A n \in NodeId : n \in U(base) <=> n \in Unmarked /\ n # v
      <4> SUFFICES ASSUME NEW n \in NodeId PROVE n \in U(base) <=> n \in Unmarked /\ n # v
        OBVIOUS
      <4>1. CASE n = v BY <2>14, <4>1
      <4>2. CASE n # v
        <5>1. /\ base[n].fDisconnect <=> node[n].fDisconnect
              /\ base[n].inbound <=> node[n].inbound
              /\ InUse(base[n]) <=> InUse(node[n])
          BY <2>7, <2>14, <4>2 DEF InUse
        <5> QED BY <4>2, <5>1 DEF Unmarked
      <4> QED BY <4>1, <4>2
    <3>2. U(base) \subseteq NodeId /\ Unmarked \subseteq NodeId BY DEF Unmarked
    <3> HIDE DEF U
    <3> QED BY <3>1, <3>2
  <2>11. Cardinality(Unmarked \ {v}) = Cardinality(Unmarked) - 1
    BY <1>5, <2>9, FS_RemoveElement
  <2>12. Cardinality(Unmarked) <= nMaxInbound BY <1>0 DEF InboundRight
  <2>13. Cardinality(U(base)) < nMaxInbound
    <3> HIDE DEF U
    <3> QED BY <1>5, <2>10, <2>11, <2>12
  <2>15. ASSUME NEW q \in Seq(NodeRec), Len(q) = Len(node),
                \A n \in NodeId :
                   /\ q[n].at = node[n].at /\ q[n].refs = node[n].refs
                   /\ q[n].inbound = node[n].inbound /\ q[n].grant = node[n].grant
                   /\ node[n].fDisconnect => q[n].fDisconnect,
                MakeNode(q, TRUE), Cardinality(U(q)) < nMaxInbound
         PROVE ConnIInv'
    BY <1>2, <2>15, MakeStep
  <2> HIDE DEF U
  <2> QED BY <2>6, <2>7, <2>8, <2>13, <2>15
<1> QED BY <1>6, <1>7
-----------------------------------------------------------------------------
\* NodesSnapshot: its constructor and destructor.
LEMMA TakeStep ==
    ASSUME ConnIInv, NEW t \in {"socket", "msg"}, NEW there, TakeSnapshot(t, there),
           connPc[t] \in {"reap", "top"}, there = IF t = "socket" THEN "handle" ELSE "work"
    PROVE  ConnIInv'
PROOF
<1>0. ConnTypeOK /\ SnapsRight BY DEF ConnIInv
<1>1. snap[t] = {} BY <1>0 DEF SnapsRight
<1>2. node \in [NodeId -> NodeRec] BY <1>0, NodeFunction
<1>3. m_nodes \subseteq NodeId /\ \A n \in m_nodes : node[n].at # "deleted" BY DEF m_nodes
<1>4. node' = [n \in NodeId |-> [node[n] EXCEPT !.refs =
                  @ + (IF n \in m_nodes THEN 1 ELSE 0) - (IF n \in snap[t] THEN 1 ELSE 0)]]
  <2>1. ASSUME NEW q \in NodeRec
        PROVE [q EXCEPT !.refs = @ + 1 - 0] = [q EXCEPT !.refs = @ + 1]
              /\ [q EXCEPT !.refs = @ + 0 - 0] = q
    <3>1. q.refs + 1 - 0 = q.refs + 1 /\ q.refs + 0 - 0 = q.refs BY DEF NodeRec
    <3> QED BY <3>1 DEF NodeRec
  <2>2. ASSUME NEW n \in NodeId
        PROVE [node[n] EXCEPT !.refs =
                  @ + (IF n \in m_nodes THEN 1 ELSE 0) - (IF n \in snap[t] THEN 1 ELSE 0)]
              = IF n \in m_nodes THEN [node[n] EXCEPT !.refs = @ + 1] ELSE node[n]
    BY <1>1, <1>2, <2>1
  <2> QED BY <2>2 DEF TakeSnapshot
<1> QED BY <1>3, <1>4, SnapStep DEF TakeSnapshot, Goto

\* Releasing a snapshot preserves the invariant.
LEMMA DropStep ==
    ASSUME ConnIInv, NEW t \in {"socket", "msg"}, NEW there, DropSnapshot(t, there),
           connPc[t] # "push"
    PROVE  ConnIInv'
PROOF
<1>0. ConnTypeOK BY DEF ConnIInv
<1>2. node \in [NodeId -> NodeRec] BY <1>0, NodeFunction
<1>1. PICK E : E = {} OBVIOUS
<1>3. E \subseteq NodeId /\ snap' = [snap EXCEPT ![t] = E] BY <1>1 DEF DropSnapshot
<1>4. node' = [n \in NodeId |-> [node[n] EXCEPT !.refs =
                  @ + (IF n \in E THEN 1 ELSE 0) - (IF n \in snap[t] THEN 1 ELSE 0)]]
  <2>1. ASSUME NEW q \in NodeRec
        PROVE [q EXCEPT !.refs = @ + 0 - 1] = [q EXCEPT !.refs = @ - 1]
              /\ [q EXCEPT !.refs = @ + 0 - 0] = q
    <3>1. q.refs + 0 - 1 = q.refs - 1 /\ q.refs + 0 - 0 = q.refs BY DEF NodeRec
    <3> QED BY <3>1 DEF NodeRec
  <2>2. ASSUME NEW n \in NodeId
        PROVE [node[n] EXCEPT !.refs =
                  @ + (IF n \in E THEN 1 ELSE 0) - (IF n \in snap[t] THEN 1 ELSE 0)]
              = IF n \in snap[t] THEN [node[n] EXCEPT !.refs = @ - 1] ELSE node[n]
    BY <1>1, <1>2, <2>1
  <2> QED BY <2>2 DEF DropSnapshot
<1>5. /\ connPc' = [connPc EXCEPT ![t] = there] /\ m_node_states' = m_node_states
      /\ interruptNet' = interruptNet /\ semOutbound' = semOutbound
  BY DEF DropSnapshot, Goto
<1>6. /\ \A n \in E : node[n].at # "deleted"
      /\ E # {} => there = IF t = "socket" THEN "handle" ELSE "work"
  BY <1>1
<1> QED BY <1>3, <1>4, <1>5, <1>6, SnapStep

\* Working on a node of a snapshot preserves the invariant.
LEMMA WorkStep ==
    ASSUME ConnIInv, NEW t \in {"socket", "msg"}, NEW n \in NodeId, WorkOn(t, n)
    PROVE  ConnIInv'
PROOF
<1>1. PICK bad \in BOOLEAN : node' = [node EXCEPT ![n].fDisconnect = @ \/ bad] BY DEF WorkOn
<1> DEFINE b == node[n].fDisconnect \/ bad
<1>2. b \in BOOLEAN /\ (node[n].fDisconnect => b) OBVIOUS
<1>3. node' = [node EXCEPT ![n].fDisconnect = b] BY <1>1
<1>4. /\ m_node_states' = m_node_states /\ snap' = snap /\ connPc' = connPc
      /\ interruptNet' = interruptNet /\ semOutbound' = semOutbound
  BY DEF WorkOn
<1> HIDE DEF b
<1> QED BY <1>2, <1>3, <1>4, MarkStep

\* DisconnectNode, which marks a node, preserves the invariant.
LEMMA DisconnectStep ==
    ASSUME ConnIInv, NEW n \in NodeId, DisconnectNode(n) PROVE ConnIInv'
PROOF
BY MarkStep DEF DisconnectNode
-----------------------------------------------------------------------------
\* The steps of one thread, by its place; t is not the main thread.
LEMMA PlaceStep ==
    ASSUME ConnIInv, NEW t \in {"open", "socket", "msg"}, NEW there,
           UNCHANGED <<node, m_node_states, snap, interruptNet>>,
           connPc' = [connPc EXCEPT ![t] = there], connPc[t] \notin {"push", "handle", "work"},
           t # "open" => semOutbound' = semOutbound,
           t = "open" => semOutbound' \in Int /\ semOutbound' + WithThread' = semOutbound + WithThread
    PROVE  ConnIInv'
PROOF
<1>0. ConnTypeOK /\ GrantsRight BY DEF ConnIInv
<1>1. /\ DOMAIN connPc' = ConnThread /\ connPc'["main"] = connPc["main"]
      /\ \A k \in ConnThread : k # t => connPc'[k] = connPc[k]
  BY <1>0 DEF ConnTypeOK, ConnThread
<1>2. semOutbound \in Int /\ semOutbound' \in Int BY <1>0 DEF ConnTypeOK
<1>3. Posted' = Posted /\ WithThread \in Int /\ WithThread' \in Int /\ Posted \in Int
  BY ConnAssumption DEF Posted, WithThread
<1>4. semOutbound' + WithThread' = semOutbound + WithThread
  <2>1. CASE t = "open" BY <2>1
  <2>2. CASE t # "open"
    <3>1. WithThread' = WithThread BY <1>1, <2>2 DEF WithThread, ConnThread
    <3> QED BY <2>2, <3>1
  <2> QED BY <2>1, <2>2
<1>5. semOutbound' + WithThread' - Posted' = semOutbound + WithThread - Posted
  <2>1. PICK a \in Int, b \in Int, c \in Int, d \in Int, p \in Int :
           a = semOutbound' /\ b = WithThread' /\ c = semOutbound /\ d = WithThread /\ p = Posted
    BY <1>2, <1>3, Zenon
  <2>2. a + b = c + d BY <1>4, <2>1, Zenon
  <2>3. a + b - p = c + d - p BY <2>2
  <2>4. p = Posted' BY <1>3, <2>1, Zenon
  <2> QED BY <2>1, <2>3, <2>4, Zenon
<1>6. interruptNet' \in BOOLEAN BY <1>0 DEF ConnTypeOK
<1>7. connPc'["main"] = "running" => ~interruptNet' BY <1>0, <1>1 DEF GrantsRight
<1>8. /\ connPc'["socket"] = connPc["socket"] \/ connPc["socket"] \notin {"push", "handle"}
      /\ connPc'["msg"] = connPc["msg"] \/ connPc["msg"] # "work"
  BY <1>1 DEF ConnThread
<1> QED BY <1>1, <1>2, <1>5, <1>6, <1>7, <1>8, ThreadStep

\* ThreadOpenConnections preserves the invariant.
LEMMA OpenStep ==
    ASSUME ConnIInv, ThreadOpenConnections PROVE ConnIInv'
PROOF
<1>0. ConnTypeOK BY DEF ConnIInv
<1>1. semOutbound \in Int /\ DOMAIN connPc = ConnThread BY <1>0 DEF ConnTypeOK
<1>2. CASE AcquireGrant
  <2>1. WithThread = 0 /\ WithThread' = 0
    BY <1>1, <1>2 DEF AcquireGrant, Goto, WithThread, ConnThread
  <2> QED BY <1>1, <1>2, <2>1, PlaceStep DEF AcquireGrant, Goto
<1>3. CASE Granted
  <2>1. WithThread = 0 /\ WithThread' = 1
    BY <1>1, <1>3 DEF Granted, Goto, WithThread, ConnThread
  <2>2. semOutbound' = semOutbound - 1 BY <1>3 DEF Granted
  <2>3. semOutbound' \in Int /\ semOutbound' + WithThread' = semOutbound + WithThread
    BY <1>1, <2>1, <2>2
  <2> QED BY <1>3, <2>3, PlaceStep DEF Granted, Goto
<1>4. CASE GiveUp
  <2>1. WithThread = 1 /\ WithThread' = 0
    BY <1>1, <1>4 DEF GiveUp, Goto, WithThread, ConnThread
  <2>2. semOutbound' = semOutbound + 1 BY <1>4 DEF GiveUp
  <2>3. semOutbound' \in Int /\ semOutbound' + WithThread' = semOutbound + WithThread
    BY <1>1, <2>1, <2>2
  <2> QED BY <1>4, <2>3, PlaceStep DEF GiveUp, Goto
<1>5. CASE ConnectNode
  <2>1. WithThread = 1 /\ WithThread' = 1
    BY <1>1, <1>5 DEF ConnectNode, Goto, WithThread, ConnThread
  <2> QED BY <1>1, <1>5, <2>1, PlaceStep DEF ConnectNode, Goto
<1>6. CASE OpenEnds
  <2>1. WithThread = 0 /\ WithThread' = 0
    BY <1>1, <1>6 DEF OpenEnds, Goto, WithThread, ConnThread
  <2> QED BY <1>1, <1>6, <2>1, PlaceStep DEF OpenEnds, Goto
<1>7. CASE OpenNetworkConnection BY <1>7, OpenMakes
<1>8. CASE PushOutbound BY <1>8, PushStep DEF PushOutbound
<1> QED BY <1>2, <1>3, <1>4, <1>5, <1>6, <1>7, <1>8 DEF ThreadOpenConnections

\* ThreadSocketHandler preserves the invariant.
LEMMA SocketStep ==
    ASSUME ConnIInv, ThreadSocketHandler PROVE ConnIInv'
PROOF
<1>1. CASE Unlist BY <1>1, UnlistStep
<1>2. ASSUME NEW n \in NodeId, Reap(n) PROVE ConnIInv' BY <1>2, ReapStep
<1>3. CASE SocketHandler
  <2>1. CASE connPc["socket"] = "reap" /\ TakeSnapshot("socket", "handle") BY <2>1, TakeStep
  <2>2. ASSUME NEW n \in NodeId, WorkOn("socket", n) PROVE ConnIInv' BY <2>2, WorkStep
  <2>3. CASE connPc["socket"] = "handle" /\ DropSnapshot("socket", "listen") BY <2>3, DropStep
  <2> QED BY <1>3, <2>1, <2>2, <2>3 DEF SocketHandler
<1>4. CASE AcceptConnection BY <1>4, AcceptMakes
<1>5. CASE PushInbound BY <1>5, PushStep DEF PushInbound
<1>6. CASE NothingAccepted BY <1>6, PlaceStep DEF NothingAccepted, Goto
<1>7. CASE SocketEnds BY <1>7, PlaceStep DEF SocketEnds, Goto
<1> QED BY <1>1, <1>2, <1>3, <1>4, <1>5, <1>6, <1>7 DEF ThreadSocketHandler

\* ThreadMessageHandler preserves the invariant.
LEMMA MessageStep ==
    ASSUME ConnIInv, ThreadMessageHandler PROVE ConnIInv'
PROOF
<1>1. CASE connPc["msg"] = "top" /\ TakeSnapshot("msg", "work") BY <1>1, TakeStep
<1>2. ASSUME NEW n \in NodeId, WorkOn("msg", n) PROVE ConnIInv' BY <1>2, WorkStep
<1>3. CASE connPc["msg"] = "work" /\ DropSnapshot("msg", "top") BY <1>3, DropStep
<1>4. CASE /\ connPc["msg"] = "top" /\ Goto("msg", "done")
           /\ UNCHANGED <<node, m_node_states, semOutbound, interruptNet, snap>>
  BY <1>4, PlaceStep DEF Goto
<1> QED BY <1>1, <1>2, <1>3, <1>4 DEF ThreadMessageHandler

\* Interrupt preserves the invariant.
LEMMA InterruptStep ==
    ASSUME ConnIInv, Interrupt PROVE ConnIInv'
PROOF
<1> USE ConnAssumption
<1>0. ConnTypeOK /\ GrantsRight BY DEF ConnIInv
<1>1. /\ DOMAIN connPc' = ConnThread /\ connPc'["main"] = "interrupted"
      /\ connPc'["open"] = connPc["open"] /\ connPc'["socket"] = connPc["socket"]
      /\ connPc'["msg"] = connPc["msg"]
  BY <1>0 DEF ConnTypeOK, ConnThread, Interrupt, Goto
<1>2. ~interruptNet /\ interruptNet' = TRUE BY <1>0 DEF GrantsRight, Interrupt
<1>3. semOutbound' = semOutbound + m_max_outbound BY DEF Interrupt
<1>4. semOutbound \in Int BY <1>0 DEF ConnTypeOK
<1>5. Posted = m_max_outbound /\ Posted' = 2 * m_max_outbound BY <1>2 DEF Posted
<1>6. WithThread' = WithThread /\ WithThread \in Int BY <1>1 DEF WithThread
<1>7. /\ semOutbound' \in Int
      /\ semOutbound' + WithThread' - Posted' = semOutbound + WithThread - Posted
  BY <1>3, <1>4, <1>5, <1>6
<1> QED BY <1>1, <1>2, <1>7, ThreadStep DEF Interrupt

\* A step that changes no variable of the connections preserves the invariant.
LEMMA StillStep ==
    ASSUME ConnIInv,
           UNCHANGED <<node, m_node_states, semOutbound, interruptNet, connPc, snap>>
    PROVE  ConnIInv'
PROOF
<1>0. ConnTypeOK /\ GrantsRight BY DEF ConnIInv
<1>1. DOMAIN connPc' = ConnThread /\ semOutbound' \in Int BY <1>0 DEF ConnTypeOK
<1>2. interruptNet' \in BOOLEAN BY <1>0 DEF ConnTypeOK
<1>3. WithThread' = WithThread /\ Posted' = Posted BY DEF WithThread, Posted
<1> QED BY <1>0, <1>1, <1>2, <1>3, ThreadStep DEF GrantsRight

\* Every step preserves the invariant.
LEMMA ConnNextIInv ==
    ASSUME ConnIInv, [ConnNext]_connVars PROVE ConnIInv'
PROOF
<1>1. CASE ThreadOpenConnections BY <1>1, OpenStep
<1>2. CASE ThreadSocketHandler BY <1>2, SocketStep
<1>3. CASE ThreadMessageHandler BY <1>3, MessageStep
<1>4. ASSUME NEW n \in NodeId, DisconnectNode(n) PROVE ConnIInv' BY <1>4, DisconnectStep
<1>5. CASE SetNetworkActive BY <1>5, StillStep DEF SetNetworkActive
<1>6. CASE Interrupt BY <1>6, InterruptStep
<1>7. CASE StopNodes BY <1>7, StopStep
<1>8. CASE UNCHANGED connVars BY <1>8, StillStep DEF connVars
<1> QED BY <1>1, <1>2, <1>3, <1>4, <1>5, <1>6, <1>7, <1>8 DEF ConnNext

\* However the threads interleave, and for any number of nodes and slots, no
\* snapshot of m_nodes holds a deleted CNode, nRefCount is what refers to it,
\* every grant of semOutbound is accounted for, and no more inbound nodes than
\* nMaxInbound are unmarked.
THEOREM ConnectionsAreSafeHolds == ConnSpec => []ConnectionsAreSafe
PROOF
<1>1. ConnInit => ConnIInv BY ConnInitIInv
<1>2. ConnIInv /\ [ConnNext]_connVars => ConnIInv' BY ConnNextIInv
<1>3. ConnIInv => ConnectionsAreSafe BY ConnIInvImplies
<1> QED BY <1>1, <1>2, <1>3, PTL DEF ConnSpec
-----------------------------------------------------------------------------
\* The ban list.

BanSpec == BanInit /\ [][BanNext]_banVars

Writing == {t \in BanThread : banPc[t] = "write"}

\* The inductive invariant: dump_mutex lets one thread write, a file that was
\* not readable has no content, and BanFileIsRight without its cardinality.
BanIInv ==
    /\ banPc \in [BanThread -> {"idle", "dump", "write"}]
    /\ DOMAIN banmap = BanThread
    /\ banFile = NoFile \/ banFile = FileOf(banFile.bans)
    /\ \A t, u \in Writing : t = u
    /\ ~m_is_dirty => /\ Writing = {} => banFile = FileOf(m_banned)
                      /\ \A t \in Writing : banmap[t] = m_banned
-----------------------------------------------------------------------------
\* At most one member means a cardinality of at most one.
LEMMA BanIInvImplies ==
    ASSUME BanIInv PROVE BanFileIsRight
PROOF
<1>1. Cardinality(Writing) <= 1
  <2>1. CASE Writing = {} BY <2>1, FS_EmptySet
  <2>2. CASE Writing # {}
    <3>1. PICK t \in Writing : TRUE BY <2>2
    <3>2. Writing = {t} BY <3>1 DEF BanIInv
    <3> QED BY <3>2, FS_Singleton
  <2> QED BY <2>1, <2>2
<1> QED BY <1>1 DEF BanIInv, BanFileIsRight, Writing

\* The ban list at the first start satisfies the invariant.
LEMMA BanInitIInv ==
    ASSUME BanInit PROVE BanIInv
PROOF
<1>1. banPc \in [BanThread -> {"idle", "dump", "write"}] /\ Writing = {}
  BY DEF BanInit, Constructing, Writing
<1> QED BY <1>1 DEF BanInit, BanIInv

\* Ban, Unban and ClearBanned leave the list dirty; a thread comes to its dump.
LEMMA ChangeIInv ==
    ASSUME BanIInv, NEW t \in BanThread, banPc[t] = "idle",
           m_is_dirty' \/ (m_is_dirty' = m_is_dirty /\ m_banned' = m_banned),
           banPc' = [banPc EXCEPT ![t] = "dump"],
           banFile' = banFile, banmap' = banmap
    PROVE  BanIInv'
PROOF
<1>1. banPc' \in [BanThread -> {"idle", "dump", "write"}] BY DEF BanIInv
<1>2. Writing' = Writing BY DEF Writing, BanIInv
<1> QED BY <1>1, <1>2 DEF BanIInv

\* A list that the sweep finds clean is as it was.
LEMMA SweepClean ==
    ASSUME ~SweptDirty(m_banned, m_is_dirty)
    PROVE  Swept(m_banned) = m_banned /\ ~m_is_dirty
PROOF
BY DEF SweptDirty

\* GetBanned, which sweeps the list, preserves the invariant.
LEMMA GetBannedIInv ==
    ASSUME BanIInv, GetBanned PROVE BanIInv'
PROOF
<1>1. Writing' = Writing BY DEF GetBanned, Writing
<1>2. ~m_is_dirty' => m_banned' = m_banned /\ ~m_is_dirty BY SweepClean DEF GetBanned
<1> QED BY <1>1, <1>2 DEF BanIInv, GetBanned

\* The part of DumpBanlist under the lock preserves the invariant.
LEMMA DumpStartIInv ==
    ASSUME BanIInv, NEW t \in BanThread, DumpStart(t) PROVE BanIInv'
PROOF
<1>0. Writing = {} BY DEF DumpStart, Writing
<1>1. CASE SweptDirty(m_banned, m_is_dirty)
  <2>1. /\ m_is_dirty' = FALSE /\ m_banned' = Swept(m_banned) /\ banFile' = banFile
        /\ banmap' = [banmap EXCEPT ![t] = Swept(m_banned)]
        /\ banPc' = [banPc EXCEPT ![t] = "write"]
    BY <1>1 DEF DumpStart
  <2>2. banPc' \in [BanThread -> {"idle", "dump", "write"}] /\ DOMAIN banmap' = BanThread
    BY <2>1 DEF BanIInv
  <2>3. Writing' = {t} BY <1>0, <2>1 DEF Writing, BanIInv
  <2>4. banmap'[t] = m_banned' BY <2>1 DEF BanIInv
  <2> QED BY <2>1, <2>2, <2>3, <2>4 DEF BanIInv
<1>2. CASE ~SweptDirty(m_banned, m_is_dirty)
  <2>1. /\ m_is_dirty' = m_is_dirty /\ banFile' = banFile /\ banmap' = banmap
        /\ banPc' = [banPc EXCEPT ![t] = "idle"]
    BY <1>2 DEF DumpStart
  <2>2. m_banned' = m_banned BY <1>2, SweepClean DEF DumpStart
  <2>3. banPc' \in [BanThread -> {"idle", "dump", "write"}] BY <2>1 DEF BanIInv
  <2>4. Writing' = {} BY <1>0, <2>1 DEF Writing, BanIInv
  <2> QED BY <1>0, <2>1, <2>2, <2>3, <2>4 DEF BanIInv
<1> QED BY <1>1, <1>2

\* After the write nobody writes; if nothing changed the list during it, the
\* copy that is now the file is the list.
LEMMA DumpWriteIInv ==
    ASSUME BanIInv, NEW t \in BanThread, NEW good \in BOOLEAN, DumpWrite(t, good)
    PROVE  BanIInv'
PROOF
<1>1. Writing = {t} BY DEF DumpWrite, Writing, BanIInv
<1>2. Writing' = {} /\ banPc' \in [BanThread -> {"idle", "dump", "write"}]
  BY <1>1 DEF DumpWrite, Writing, BanIInv
<1>3. DOMAIN banmap' = BanThread BY DEF DumpWrite, BanIInv
<1>4. ~m_is_dirty' => banFile' = FileOf(m_banned')
  BY <1>1 DEF DumpWrite, DirtyAfter, BanIInv
<1>5. banFile' = NoFile \/ banFile' = FileOf(banFile'.bans)
  BY DEF DumpWrite, BanIInv, FileOf
<1> QED BY <1>2, <1>3, <1>4, <1>5 DEF BanIInv

\* What the crash leaves is readable or makes the list dirty.
LEMMA CrashIInv ==
    ASSUME BanIInv, CrashAndStart PROVE BanIInv'
PROOF
<1>1. banPc' \in [BanThread -> {"idle", "dump", "write"}] /\ Writing' = {}
  BY DEF CrashAndStart, Constructing, Writing
<1>2. banFile' = NoFile \/ banFile' = FileOf(banFile'.bans)
  BY DEF CrashAndStart, BanIInv, FileOf
<1>3. ~m_is_dirty' => banFile'.readable /\ m_banned' = banFile'.bans
  BY DEF CrashAndStart, SweptDirty
<1>4. ~m_is_dirty' => banFile' = FileOf(m_banned') BY <1>2, <1>3 DEF NoFile
<1> QED BY <1>1, <1>2, <1>4 DEF BanIInv, CrashAndStart

\* Every step keeps the invariant.
LEMMA BanNextIInv ==
    ASSUME BanIInv, [BanNext]_banVars PROVE BanIInv'
PROOF
<1>1. ASSUME NEW t \in BanThread, NEW s \in Subnet, Unban(t, s) PROVE BanIInv'
  BY <1>1, ChangeIInv DEF Unban, Idle
<1>2. ASSUME NEW t \in BanThread, NEW s \in Subnet, NEW until \in 1 .. MaxTime, Ban(t, s, until)
      PROVE  BanIInv'
  BY <1>2, ChangeIInv DEF Ban, Idle
<1>3. ASSUME NEW t \in BanThread, ClearBanned(t) PROVE BanIInv'
  BY <1>3, ChangeIInv DEF ClearBanned, Idle
<1>4. ASSUME NEW t \in BanThread, DumpDue(t) PROVE BanIInv'
  BY <1>4, ChangeIInv DEF DumpDue, Idle
<1>5. CASE Tick \/ UNCHANGED banVars BY <1>5 DEF Tick, banVars, BanIInv, Writing
<1> QED BY <1>1, <1>2, <1>3, <1>4, <1>5, GetBannedIInv, DumpStartIInv, DumpWriteIInv, CrashIInv
        DEF BanNext

\* DumpBanlist, with any calls, dumps, failed writes and crashes around it: unless
\* m_is_dirty is set, the file holds, or is being given, exactly the list.
THEOREM BanFileIsRightHolds == BanSpec => []BanFileIsRight
PROOF
BY BanInitIInv, BanNextIInv, BanIInvImplies, PTL DEF BanSpec
=============================================================================
