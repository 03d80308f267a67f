----------------------------- MODULE TxDownload -----------------------------
(* Transactions that arrive from peers: the handler of `tx` messages, the    *)
(* orphanage (txorphanage.cpp), the filters of rejected and of confirmed     *)
(* transactions and the events of blocks that reach them later               *)
(* (net_processing.cpp).  A transaction is named by its wtxid; one without   *)
(* witness is its own txid.  The memory pool is a set: transactions conflict *)
(* only when they have the same txid.  Bloom filters are exact sets, and a   *)
(* tip never comes back once it was left.  The request tracker is the module *)
(* TxRequest; relay and the peers' scores are left out.                      *)
EXTENDS Integers, Sequences, FiniteSets, SequencesExt, TLC

CONSTANTS
    Peer, Tx,
    TxidOf,           \* TxidOf[t]
    Prevouts,         \* Prevouts[t]: outpoints <<txid, n>>
    HashOrder,        \* the txids in the order of their hashes
    Roots,            \* txids that were confirmed before
    Quality,          \* "good", "bad", "stripped" or "nonstandard inputs"
    FinalAt,          \* the first height of a block t may be in
    ExpireTime, ExpireInterval,   \* ORPHAN_TX_EXPIRE_TIME, ORPHAN_TX_EXPIRE_INTERVAL
    Scenarios         \* the peers and transactions there are, -maxorphantx,
                      \* the bounds on time and tips, and a txid to watch:
                      \* a set of records

VARIABLES
    orphanage,        \* m_orphans, m_orphan_list, m_outpoint_to_orphan_it, m_wtxid_to_orphan_it
    nNextSweep,
    work,             \* m_orphan_work_set of each connected peer
    mempool,
    chain, tip,       \* the blocks, each a set of transactions; number of the tip
    events,           \* BlockConnected and BlockDisconnected not yet delivered
    rejects, rejectsTip,          \* m_recent_rejects, hashRecentRejectsChainTip
    confirmedFilter,  \* m_recent_confirmed_transactions
    now,
    scenario          \* which one is played; it never changes

vars == <<orphanage, nNextSweep, work, mempool, chain, tip, events,
          rejects, rejectsTip, confirmedFilter, now, scenario>>

SentTx == scenario.txs
MaxOrphans == scenario.maxOrphans

Txids(S) == {TxidOf[t] : t \in S}
Spends(S) == UNION {Prevouts[t] : t \in S}
Mined(c) == UNION {c[i] : i \in DOMAIN c}
-----------------------------------------------------------------------------
(* TxOrphanage.                                                              *)
Empty == [orphans |-> <<>>, list |-> <<>>, byPrev |-> <<>>, byWtxid |-> {}]
Stored(g) == DOMAIN g.orphans
OrphanTx(g, x) == g.orphans[x].tx

AddTx(g, t, peer) ==
    IF TxidOf[t] \in Stored(g) THEN g
    ELSE LET x == TxidOf[t]
             entry == [tx |-> t, fromPeer |-> peer, nTimeExpire |-> now + ExpireTime,
                       list_pos |-> Len(g.list) + 1]
             at(o) == IF o \in DOMAIN g.byPrev THEN g.byPrev[o] ELSE {}
         IN  [orphans |-> (x :> entry) @@ g.orphans,
              list |-> Append(g.list, x),
              byPrev |-> [o \in Prevouts[t] |-> at(o) \cup {x}] @@ g.byPrev,
              byWtxid |-> g.byWtxid \cup {t}]

\* Mutant: the orphan that is moved keeps its position.
EraseTx_StalePos(g, x) ==
    IF x \notin Stored(g) THEN g
    ELSE LET e == g.orphans[x]
             end == Last(g.list)
             prev == [o \in DOMAIN g.byPrev |->
                        IF o \in Prevouts[e.tx] THEN g.byPrev[o] \ {x} ELSE g.byPrev[o]]
             used == {o \in DOMAIN prev : o \notin Prevouts[e.tx] \/ prev[o] # {}}
             moved == [y \in Stored(g) \ {x} |-> g.orphans[y]]
         IN  [orphans |-> moved,
              list |-> Front([g.list EXCEPT ![e.list_pos] = end]),
              byPrev |-> [o \in used |-> prev[o]],
              byWtxid |-> g.byWtxid \ {e.tx}]

EraseTx(g, x) ==
    IF x \notin Stored(g) THEN g
    ELSE LET e == g.orphans[x]
             end == Last(g.list)
             prev == [o \in DOMAIN g.byPrev |->
                        IF o \in Prevouts[e.tx] THEN g.byPrev[o] \ {x} ELSE g.byPrev[o]]
             used == {o \in DOMAIN prev : o \notin Prevouts[e.tx] \/ prev[o] # {}}
             moved == [y \in Stored(g) \ {x} |->
                         IF y = end THEN [g.orphans[y] EXCEPT !.list_pos = e.list_pos] ELSE g.orphans[y]]
         IN  [orphans |-> moved,
              list |-> Front([g.list EXCEPT ![e.list_pos] = end]),
              byPrev |-> [o \in used |-> prev[o]],
              byWtxid |-> g.byWtxid \ {e.tx}]

EraseAll(g, S) == FoldLeft(EraseTx, g, SetToSeq(S))

EraseForPeer(g, peer) == EraseAll(g, {x \in Stored(g) : g.orphans[x].fromPeer = peer})

EraseForBlock(g, block) ==
    EraseAll(g, UNION {g.byPrev[o] : o \in Spends(block) \cap DOMAIN g.byPrev})

ChildrenOf(g, t) == UNION {g.byPrev[o] : o \in {q \in DOMAIN g.byPrev : q[1] = TxidOf[t]}}

\* LimitOrphans: the sweep of expired orphans, if one is due...
Swept(g) ==
    IF nNextSweep <= now THEN EraseAll(g, {x \in Stored(g) : g.orphans[x].nTimeExpire <= now}) ELSE g
NextSweep(g) ==
    IF nNextSweep > now THEN nNextSweep
    ELSE LET times == {g.orphans[x].nTimeExpire : x \in Stored(Swept(g))}
                        \cup {now + ExpireTime - ExpireInterval}
         IN  ExpireInterval + CHOOSE m \in times : \A n \in times : m <= n
\* ... and the eviction of random ones.
Limited(g) ==
    IF Cardinality(Stored(g)) <= MaxOrphans THEN {g} ELSE {EraseTx(g, x) : x \in Stored(g)}
-----------------------------------------------------------------------------
(* ProcessTransaction, of which the memory pool module has the details.      *)
Unspent(pool, o) ==
    o[1] \in Txids(pool \cup Mined(chain)) \cup Roots /\ o \notin Spends(Mined(chain))
MissingInputs(pool, t) == \E o \in Prevouts[t] : ~Unspent(pool, o)

\* `known`: outputs of t are found in the coins cache.
Result(pool, t, known) ==
    IF FinalAt[t] > Len(chain) + 1 THEN "premature"
    ELSE IF TxidOf[t] \in Txids(pool) THEN "conflict"
    ELSE IF MissingInputs(pool, t)
         THEN IF TxidOf[t] \in Txids(Mined(chain)) /\ known THEN "conflict" ELSE "missing"
    ELSE IF Quality[t] = "good" THEN "valid" ELSE Quality[t]

\* What a refusal adds to m_recent_rejects.
RejectedBy(t, result) ==
    CASE result = "stripped" -> {}
      [] result = "nonstandard inputs" -> {t, TxidOf[t]}
      [] OTHER -> {t}
-----------------------------------------------------------------------------
Connected == DOMAIN work

\* Mutant: the filter outlives the tip.
RejectsNow_Kept == rejects

\* AlreadyHaveTx resets m_recent_rejects when the tip has changed.
RejectsNow == IF rejectsTip = tip THEN rejects ELSE {}
AlreadyHaveWtxid(t) ==
    t \in orphanage.byWtxid \cup confirmedFilter \cup RejectsNow \cup mempool

\* Mutant: an orphan that misses inputs stays first in the set.
ProcessOrphanTx_KeepMissing(d, known) ==
    LET order == SelectSeq(HashOrder, LAMBDA y : y \in d.work)
        result(i) == Result(d.pool, OrphanTx(d.g, order[i]), known)
        ready == {i \in DOMAIN order : order[i] \in Stored(d.g) /\ result(i) # "missing"}
        first == CHOOSE i \in ready : \A j \in ready : i <= j
        x == order[first]
        t == OrphanTx(d.g, x)
        rest == {order[i] : i \in first + 1 .. Len(order)}
    IN  IF 1 \notin ready /\ d.work # {} THEN d
        ELSE IF ready = {} THEN d
        ELSE IF result(first) = "valid"
        THEN [work |-> rest \cup ChildrenOf(d.g, t), g |-> EraseTx(d.g, x),
              pool |-> d.pool \cup {t}, rejects |-> d.rejects]
        ELSE [d EXCEPT !.work = rest, !.g = EraseTx(@, x),
                       !.rejects = @ \cup RejectedBy(t, result(first))]

\* ProcessOrphanTx on d = [work, g, pool, rejects]: the first orphan of the work
\* set that is not missing inputs any more is accepted or refused, and those
\* before it leave the set.
ProcessOrphanTx(d, known) ==
    LET order == SelectSeq(HashOrder, LAMBDA y : y \in d.work)
        result(i) == Result(d.pool, OrphanTx(d.g, order[i]), known)
        ready == {i \in DOMAIN order : order[i] \in Stored(d.g) /\ result(i) # "missing"}
        first == CHOOSE i \in ready : \A j \in ready : i <= j
        x == order[first]
        t == OrphanTx(d.g, x)
        rest == {order[i] : i \in first + 1 .. Len(order)}
    IN  IF ready = {} THEN [d EXCEPT !.work = {}]
        ELSE IF result(first) = "valid"
        THEN [work |-> rest \cup ChildrenOf(d.g, t), g |-> EraseTx(d.g, x),
              pool |-> d.pool \cup {t}, rejects |-> d.rejects]
        ELSE [d EXCEPT !.work = rest, !.g = EraseTx(@, x),
                       !.rejects = @ \cup RejectedBy(t, result(first))]

Init ==
    /\ orphanage = Empty /\ nNextSweep = 0
    /\ scenario \in Scenarios
    /\ work = [p \in scenario.peers |-> {}]
    /\ mempool = {} /\ chain = <<>> /\ tip = 0 /\ events = <<>>
    /\ rejects = {} /\ rejectsTip = 0 /\ confirmedFilter = {}
    /\ now = 0

\* The handler of `tx`.
Accept(p, t, known) ==
    LET accepted == [work |-> work[p] \cup ChildrenOf(orphanage, t), g |-> orphanage,
                     pool |-> mempool \cup {t}, rejects |-> RejectsNow]
        d == ProcessOrphanTx(accepted, known)
    IN  /\ work' = [work EXCEPT ![p] = d.work]
        /\ orphanage' = d.g /\ mempool' = d.pool /\ rejects' = d.rejects
        /\ UNCHANGED nNextSweep

StoreOrphan(p, t) ==
    IF \E o \in Prevouts[t] : o[1] \in RejectsNow
    THEN rejects' = RejectsNow \cup {t, TxidOf[t]} /\ UNCHANGED <<orphanage, nNextSweep>>
    ELSE LET g == AddTx(orphanage, t, p)
         IN  /\ nNextSweep' = NextSweep(g)
             /\ orphanage' \in Limited(Swept(g))
             /\ rejects' = RejectsNow

ReceiveTx(p, t, known) ==
    LET result == Result(mempool, t, known)
    IN  /\ p \in Connected
        /\ rejectsTip' = tip
        /\ \/ /\ AlreadyHaveWtxid(t)
              /\ rejects' = RejectsNow /\ UNCHANGED <<orphanage, nNextSweep, work, mempool>>
           \/ ~AlreadyHaveWtxid(t) /\ result = "valid" /\ Accept(p, t, known)
           \/ ~AlreadyHaveWtxid(t) /\ result = "missing" /\ StoreOrphan(p, t)
              /\ UNCHANGED <<work, mempool>>
           \/ /\ ~AlreadyHaveWtxid(t) /\ result \notin {"valid", "missing"}
              /\ rejects' = RejectsNow \cup RejectedBy(t, result)
              /\ UNCHANGED <<orphanage, nNextSweep, work, mempool>>
        /\ UNCHANGED <<chain, tip, events, confirmedFilter, now>>

\* ProcessMessages begins with the peer's orphans.
ProcessWork(p, known) ==
    /\ p \in Connected /\ work[p] # {}
    /\ LET d == ProcessOrphanTx([work |-> work[p], g |-> orphanage, pool |-> mempool,
                                 rejects |-> rejects], known)
       IN  /\ work' = [work EXCEPT ![p] = d.work]
           /\ orphanage' = d.g /\ mempool' = d.pool /\ rejects' = d.rejects
    /\ UNCHANGED <<nNextSweep, chain, tip, events, rejectsTip, confirmedFilter, now>>

\* FinalizeNode.  A peer that connects has a new id.
Disconnect(p) ==
    /\ p \in Connected
    /\ orphanage' = EraseForPeer(orphanage, p)
    /\ work' = [q \in Connected \ {p} |-> work[q]]
    /\ UNCHANGED <<nNextSweep, mempool, chain, tip, events, rejects, rejectsTip, confirmedFilter, now>>

\* A block is connected, or the tip is disconnected and those of its transactions
\* that the pool accepts return to it.
ConnectBlock(S) ==
    /\ tip < scenario.maxTips
    /\ chain' = Append(chain, S) /\ tip' = tip + 1
    /\ mempool' = {t \in mempool : TxidOf[t] \notin Txids(S)}
    /\ events' = Append(events, [step |-> "connected", block |-> S])
    /\ UNCHANGED <<orphanage, nNextSweep, work, rejects, rejectsTip, confirmedFilter, now>>
DisconnectBlock ==
    /\ tip < scenario.maxTips /\ chain # <<>>
    /\ chain' = Front(chain) /\ tip' = tip + 1
    /\ LET back == {t \in mempool \cup Last(chain) : Quality[t] = "good" /\ FinalAt[t] <= Len(chain)}
           have(S) == Txids(S \cup Mined(Front(chain))) \cup Roots
           fit(S, i) == {t \in S : \A o \in Prevouts[t] : o[1] \in have(S)}
       IN  mempool' = FoldLeft(fit, back, [i \in 1..Cardinality(Tx) |-> i])
    /\ events' = Append(events, [step |-> "disconnected", block |-> Last(chain)])
    /\ UNCHANGED <<orphanage, nNextSweep, work, rejects, rejectsTip, confirmedFilter, now>>

\* BlockConnected and BlockDisconnected, on the scheduler's thread.  The first
\* takes one lock for the orphanage and then another for the filter.
Deliver ==
    /\ events # <<>>
    /\ LET e == Head(events)
       IN  \/ /\ e.step = "connected"
              /\ orphanage' = EraseForBlock(orphanage, e.block)
              /\ events' = <<[e EXCEPT !.step = "erased"]>> \o Tail(events)
              /\ UNCHANGED confirmedFilter
           \/ /\ e.step = "erased"
              /\ confirmedFilter' = confirmedFilter \cup e.block \cup Txids(e.block)
              /\ events' = Tail(events) /\ UNCHANGED orphanage
           \/ /\ e.step = "disconnected"
              /\ confirmedFilter' = {}
              /\ events' = Tail(events) /\ UNCHANGED orphanage
    /\ UNCHANGED <<nNextSweep, work, mempool, chain, tip, rejects, rejectsTip, now>>

Tick ==
    /\ now < scenario.maxTime /\ now' = now + 1
    /\ UNCHANGED <<orphanage, nNextSweep, work, mempool, chain, tip, events,
                   rejects, rejectsTip, confirmedFilter>>

\* Blocks of transactions that may be mined now, each after its parents.
Minable ==
    {S \in SUBSET {t \in SentTx : Quality[t] \in {"good", "nonstandard inputs"}} :
       /\ \A t \in S : /\ FinalAt[t] <= Len(chain) + 1
                       /\ \A o \in Prevouts[t] : Unspent(S \ {t}, o)
       /\ Txids(S) \cap Txids(Mined(chain)) = {}
       /\ \A t, u \in S : TxidOf[t] = TxidOf[u] => t = u}

Step ==
    \/ \E p \in Connected, t \in SentTx, known \in BOOLEAN : ReceiveTx(p, t, known)
    \/ \E p \in Connected, known \in BOOLEAN : ProcessWork(p, known)
    \/ \E p \in Connected : Disconnect(p)
    \/ \E S \in Minable : ConnectBlock(S)
    \/ DisconnectBlock
    \/ Deliver
    \/ Tick

Next == Step /\ UNCHANGED scenario

Spec == Init /\ [][Next]_vars

\* The message handler comes back to every peer that has orphans to look at.
FairSpec ==
    /\ Spec
    /\ \A p \in Peer : WF_vars(UNCHANGED scenario /\ \E known \in BOOLEAN : ProcessWork(p, known))
-----------------------------------------------------------------------------
(* Properties.                                                               *)
AllTxids == Txids(Tx)

\* Type invariant of the orphanage, the filters and the queue of events.
TypeOK ==
    /\ Stored(orphanage) \subseteq AllTxids
    /\ \A x \in Stored(orphanage) :
         orphanage.orphans[x] \in [tx : Tx, fromPeer : Peer, nTimeExpire : 0..scenario.maxTime + ExpireTime,
                                   list_pos : 1..Cardinality(AllTxids)]
    /\ \A p \in Connected : p \in Peer /\ work[p] \subseteq AllTxids
    /\ mempool \subseteq Tx /\ rejects \cup confirmedFilter \subseteq Tx \cup AllTxids
    /\ nNextSweep \in Nat /\ rejectsTip \in 0..tip

\* The indices of the orphanage describe its contents: each orphan is in the list
\* at its list_pos (asserted by EraseTx), every outpoint leads to exactly the
\* orphans that spend it, and every wtxid to its orphan, however they were erased.
OrphanageExact ==
    LET g == orphanage
    IN  /\ Len(g.list) = Cardinality(Stored(g))
        /\ \A x \in Stored(g) : /\ TxidOf[OrphanTx(g, x)] = x
                                /\ g.orphans[x].list_pos \in DOMAIN g.list
                                /\ g.list[g.orphans[x].list_pos] = x
        /\ DOMAIN g.byPrev = Spends({OrphanTx(g, x) : x \in Stored(g)})
        /\ \A o \in DOMAIN g.byPrev : g.byPrev[o] = {x \in Stored(g) : o \in Prevouts[OrphanTx(g, x)]}
        /\ g.byWtxid = {OrphanTx(g, x) : x \in Stored(g)}

\* There are never more orphans than -maxorphantx, and each is owed by a peer that
\* is connected, so that none is left when the last peer goes (asserted by
\* FinalizeNode).
OrphansOwned ==
    /\ Cardinality(Stored(orphanage)) <= MaxOrphans
    /\ \A x \in Stored(orphanage) : orphanage.orphans[x].fromPeer \in Connected

\* The next sweep of the orphanage is due within ORPHAN_TX_EXPIRE_INTERVAL of the
\* expiry of every orphan, though sweeps look at the orphans of their time only.
SweepInTime ==
    \A x \in Stored(orphanage) : nNextSweep <= orphanage.orphans[x].nTimeExpire + ExpireInterval

\* A good transaction is in m_recent_rejects, when the filter is for the present
\* tip, only for a reason that holds at this tip: it is not final, a form of it is
\* in the pool or the chain, or one of its parents was rejected.
GoodNotRejected ==
    rejectsTip = tip =>
      \A t \in rejects \cap Tx : Quality[t] = "good" =>
        \/ FinalAt[t] > Len(chain) + 1
        \/ TxidOf[t] \in Txids(mempool \cup Mined(chain))
        \/ \E o \in Prevouts[t] : o[1] \in rejects

\* As long as no peer has left and no block came, an orphan that has found all its
\* parents is in the work set of some peer.
NoLostOrphan ==
    Connected = scenario.peers /\ tip = 0 =>
      \A x \in Stored(orphanage) :
        MissingInputs(mempool, OrphanTx(orphanage, x)) \/ \E p \in Connected : x \in work[p]

\* The orphanage is sound: its indices agree, it is bounded, everything in it has
\* an owner and an end, and nothing that could be accepted is forgotten in it.
OrphanageIsSound ==
    TypeOK /\ OrphanageExact /\ OrphansOwned /\ SweepInTime /\ NoLostOrphan

\* What is remembered of transactions that are not in the pool is right: the
\* orphans kept, and the transactions not to be asked for again.
OrphansAndRejectsAreRight == OrphanageIsSound /\ GoodNotRejected

\* An orphan that has found its parents, whichever one is watched, leaves the orphanage,
\* accepted or refused, as long as nothing but the message handler runs.
OrphanResolved ==
    LET x == scenario.watched
    IN  (x \in Stored(orphanage) /\ ~MissingInputs(mempool, OrphanTx(orphanage, x)))
          ~> (x \notin Stored(orphanage) \/ Connected # scenario.peers \/ tip # 0)
=============================================================================
