------------------------------ MODULE IndexSync ------------------------------
(***************************************************************************)
(* An optional index and its database: BaseIndex (src/src/index/base.cpp)  *)
(* with the coin statistics index on top (src/src/index/coinstatsindex.cpp),*)
(* the one whose entries depend on every block before.  ThreadSync catches *)
(* up with the active chain while that moves; from then on the notices of  *)
(* the validation interface, delivered in order and one at a time, drive   *)
(* the index.  The node may stop, or crash and lose what the database has  *)
(* not forced to disk.                                                     *)
(*                                                                         *)
(* Statistics are counters per block of how often its effect is included,  *)
(* which stands for the muhash and all the totals: they are right for b if *)
(* each block up to b counts once.                                         *)
(***************************************************************************)
EXTENDS BlockTree, Sequences

CONSTANTS
    MaxMoves,       \* bound: connects, disconnects and flushes of the chain
    MaxRestarts     \* bound: shutdowns, crashes and failed asserts

ASSUME IndexAssumption == MaxMoves \in Nat

VARIABLES
    activeTip,      \* m_chainstate->m_chain.Tip(), Nil before the first block
    flushedTip,     \* the tip in the chain state database
    notices,        \* callbacks of the validation interface not yet run
    moves, restarts,
    mode,           \* of the node: "down", "run", "stopping", "flushed"; or the
                    \* index was "refused" at start, or "broken" by an assert or
                    \* FatalError
    m_best_block_index, m_synced,
    running,        \* m_muhash and the totals in memory
    syncAt, pindex, \* ThreadSync: where it is, and its block
    db,             \* the database as a reader sees it
    durable,        \* the state of it that a crash would leave
    caller          \* BlockUntilSyncedToCurrentChain: the tip it was called at,
                    \* and the notices it still waits for

chainVars == <<activeTip, flushedTip, moves>>
memoryVars == <<m_best_block_index, m_synced, running, syncAt, pindex>>
diskVars == <<db, durable>>
indexVars == <<chainVars, notices, restarts, mode, memoryVars, diskVars, caller>>

PrevOf(b) == IF b = Genesis THEN Nil ELSE Prev[b]
NoStats == [c \in Block |-> 0]
StatsOf(b) == [c \in Block |-> IF c \in Path[b] THEN 1 ELSE 0]

\* best and muhash are DB_BEST_BLOCK (the head of the locator) and DB_MUHASH.
EmptyDb == [best |-> Nil, muhash |-> NoStats, byHeight |-> <<>>, byHash |-> <<>>]
NoCaller == [tip |-> Nil, left |-> 0]

Up == mode \in {"run", "stopping", "flushed"}
Interrupted == mode # "run"
-----------------------------------------------------------------------------
\* The database.

\* LookUpOne: the entry of the height if it is of this block, else by hash.
AtHeight(d, b) == d.byHeight[Height[b]].block = b
Known(d, b) ==
    /\ Height[b] \in DOMAIN d.byHeight
    /\ AtHeight(d, b) \/ b \in DOMAIN d.byHash
LookUpOne(d, b) ==
    IF AtHeight(d, b) THEN d.byHeight[Height[b]].stats ELSE d.byHash[b]

\* Commit with CustomCommit: locator and muhash in one batch; nothing is
\* written as long as there is no best block.
Commit(d, best, stats) ==
    IF best = Nil THEN d ELSE [d EXCEPT !.best = best, !.muhash = stats]

\* CustomAppend: the entry of the block's height is replaced.
CanAppend(d, b) == b = Genesis \/ Known(d, Prev[b])
Appended(stats, b) == [stats EXCEPT ![b] = @ + 1]
CustomAppend(d, stats, b) ==
    [d EXCEPT !.byHeight =
        [h \in DOMAIN @ \cup {Height[b]} |->
            IF h = Height[b] THEN [block |-> b, stats |-> Appended(stats, b)] ELSE @[h]]]

\* CustomRewind, CopyHeightIndexToHashIndex: the entries that the new branch is
\* about to replace remain under their hash.
Rewinding(from, to) == Height[to]..Height[from]
CopyNothing(d, from, to) == d
CopyHeightIndexToHashIndex(d, from, to) ==
    LET copied == {d.byHeight[h].block : h \in Rewinding(from, to)}
    IN  [d EXCEPT !.byHash =
            [b \in DOMAIN @ \cup copied |->
                IF b \in copied THEN d.byHeight[Height[b]].stats ELSE @[b]]]

\* ReverseBlock for each block above to, with the Asserts at its end.
Reversed(stats, from, to) ==
    [c \in Block |-> IF c \in Path[from] \ Path[to] THEN stats[c] - 1 ELSE stats[c]]
CanRewind(d, stats, from, to) ==
    /\ Rewinding(from, to) \subseteq DOMAIN d.byHeight
    /\ \A c \in Path[from] \ Path[to] :
        /\ Known(d, Prev[c])
        /\ LookUpOne(d, Prev[c]) = Reversed(stats, from, Prev[c])

\* The database changes to the last of these states in turn; a crash leaves
\* what was durable or any of them.
Write(states) ==
    /\ db' = states[Len(states)]
    /\ durable' \in {durable} \cup {states[i] : i \in DOMAIN states}
-----------------------------------------------------------------------------
\* The chain.

Move == mode \in {"run", "stopping"} /\ moves < MaxMoves /\ moves' = moves + 1

Notice(kind, b) == notices' = Append(notices, [kind |-> kind, block |-> b])

ConnectTip(b) ==
    /\ Move
    /\ PrevOf(b) = activeTip
    /\ activeTip' = b
    /\ Notice("connected", b)
    /\ UNCHANGED <<flushedTip, restarts, mode, memoryVars, diskVars, caller>>

\* InvalidateBlock lets the others see the chain between two of these.
\* BlockDisconnected is nothing to an index.
DisconnectTip ==
    /\ Move
    /\ activeTip \notin {Nil, Genesis}
    /\ activeTip' = Prev[activeTip]
    /\ UNCHANGED <<flushedTip, notices, restarts, mode, memoryVars, diskVars, caller>>

FlushStateToDisk ==
    /\ Move
    /\ activeTip # Nil
    /\ flushedTip' = activeTip
    /\ Notice("flushed", activeTip)
    /\ UNCHANGED <<activeTip, restarts, mode, memoryVars, diskVars, caller>>
-----------------------------------------------------------------------------
\* Start and stop.

\* The process ends; what was in memory is gone.
Ends ==
    /\ mode' = "down"
    /\ restarts' = restarts + 1
    /\ activeTip' = flushedTip
    /\ notices' = <<>>
    /\ m_best_block_index' = Nil /\ m_synced' = FALSE /\ running' = NoStats
    /\ syncAt' = "done" /\ pindex' = Nil
    /\ caller' = NoCaller
    /\ UNCHANGED <<flushedTip, moves>>

\* Init: FindForkInGlobalIndex of the locator.
StoredBest == IF db.best = Nil \/ activeTip = Nil THEN Nil ELSE FindFork(activeTip, db.best)

\* CustomInit: the muhash must be the one of the entry of the best block.
CanInit == StoredBest # Nil => Known(db, StoredBest) /\ LookUpOne(db, StoredBest) = db.muhash

\* Start: Init, CustomInit, and the thread.
Start ==
    /\ mode = "down"
    /\ IF CanInit
       THEN /\ mode' = "run"
            /\ m_best_block_index' = StoredBest
            /\ m_synced' = (StoredBest = activeTip)
            /\ running' = db.muhash
            /\ syncAt' = IF StoredBest = activeTip THEN "done" ELSE "next"
            /\ pindex' = StoredBest
       ELSE /\ mode' = "refused"
            /\ UNCHANGED memoryVars
    /\ UNCHANGED <<chainVars, notices, restarts, diskVars, caller>>

\* The operator removes the index that could not be read.
Wipe ==
    /\ mode = "refused"
    /\ mode' = "down"
    /\ db' = EmptyDb /\ durable' = EmptyDb
    /\ UNCHANGED <<chainVars, notices, restarts, memoryVars, caller>>

\* Not before the chain state has been written once.
Crash ==
    /\ Up /\ flushedTip # Nil /\ restarts < MaxRestarts
    /\ Ends
    /\ db' = durable
    /\ UNCHANGED durable

\* Interrupt and Shutdown of src/src/init.cpp.
Interrupt ==
    /\ mode = "run" /\ activeTip # Nil /\ restarts < MaxRestarts
    /\ mode' = "stopping"
    /\ UNCHANGED <<chainVars, notices, restarts, memoryVars, diskVars, caller>>

ForceFlushStateToDisk ==
    /\ mode = "stopping"
    /\ mode' = "flushed"
    /\ flushedTip' = activeTip
    /\ Notice("flushed", activeTip)
    /\ UNCHANGED <<activeTip, moves, restarts, memoryVars, diskVars, caller>>

StopIndex ==
    /\ mode = "flushed" /\ notices = <<>> /\ syncAt = "done"
    /\ Ends
    /\ durable' = db
    /\ UNCHANGED db
-----------------------------------------------------------------------------
\* ThreadSync.

\* NextSyncBlock, under cs_main: the next block of the active chain after the
\* point where the chain of b leaves it; Nil if there is none.
SuccessorOf(b) ==
    LET next == {c \in Path[activeTip] : PrevOf(c) = b}
    IN  IF next = {} THEN Nil ELSE CHOOSE c \in next : TRUE
NextSyncBlock(b) ==
    IF b = Nil THEN Genesis ELSE SuccessorOf(FindFork(activeTip, b))

Broken == mode' = "broken" /\ UNCHANGED <<memoryVars, diskVars>>

\* Rewind after its assert: CustomRewind, SetBestBlockIndex, Commit, each a
\* write; then continue, which may write more.
RewindStates(from, to) ==
    LET copied == CopyHeightIndexToHashIndex(db, from, to)
    IN  <<copied, Commit(copied, to, Reversed(running, from, to))>>

\* m_interrupt is seen, or there is no block to add: the index is synced.
\* m_synced changes under cs_main, which the callbacks need before they change
\* what Commit writes.
SyncEndsUnsynced ==
    /\ Interrupted \/ NextSyncBlock(pindex) = Nil
    /\ m_best_block_index' = pindex
    /\ syncAt' = "done"
    /\ Write(<<Commit(db, pindex, running)>>)
    /\ UNCHANGED <<m_synced, running, pindex, activeTip, flushedTip, moves, restarts, mode, notices, caller>>

SyncEnds ==
    /\ Interrupted \/ NextSyncBlock(pindex) = Nil
    /\ m_best_block_index' = pindex
    /\ m_synced' = ~Interrupted
    /\ syncAt' = "done"
    /\ Write(<<Commit(db, pindex, running)>>)
    /\ UNCHANGED <<running, pindex, activeTip, flushedTip, moves, restarts, mode, notices, caller>>

\* The next block is pindex's successor.
SyncGoesOn ==
    /\ ~Interrupted
    /\ LET next == NextSyncBlock(pindex)
       IN  next # Nil /\ PrevOf(next) = pindex /\ pindex' = next
    /\ syncAt' = "locator"
    /\ UNCHANGED <<m_best_block_index, m_synced, running, diskVars,
                   activeTip, flushedTip, moves, restarts, mode, notices, caller>>

\* The chain has been reorganised.  m_best_block_index is only up to date
\* before the first block; after that the assert of Rewind ends the process.
SyncRewinds ==
    /\ ~Interrupted
    /\ LET next == NextSyncBlock(pindex)
           fork == PrevOf(next)
       IN  /\ next # Nil /\ fork # pindex
           /\ IF m_best_block_index # pindex
              THEN Ends /\ UNCHANGED diskVars
              ELSE /\ IF CanRewind(db, running, pindex, fork)
                      THEN /\ m_best_block_index' = fork
                           /\ running' = Reversed(running, pindex, fork)
                           /\ Write(RewindStates(pindex, fork))
                           /\ pindex' = next
                           /\ syncAt' = "locator"
                           /\ UNCHANGED <<m_synced, mode>>
                      ELSE Broken
                   /\ UNCHANGED <<activeTip, flushedTip, moves, restarts, notices, caller>>

SyncNext == Up /\ syncAt = "next" /\ (SyncEnds \/ SyncGoesOn \/ SyncRewinds)

\* Every SYNC_LOCATOR_WRITE_INTERVAL the block before is made the best one.
SyncLocator ==
    /\ Up /\ syncAt = "locator"
    /\ \/ UNCHANGED <<m_best_block_index, diskVars>>
       \/ /\ m_best_block_index' = PrevOf(pindex)
          /\ Write(<<Commit(db, PrevOf(pindex), running)>>)
    /\ syncAt' = "append"
    /\ UNCHANGED <<m_synced, running, pindex, chainVars, notices, restarts, mode, caller>>

SyncAppend ==
    /\ Up /\ syncAt = "append"
    /\ IF CanAppend(db, pindex)
       THEN /\ running' = Appended(running, pindex)
            /\ Write(<<CustomAppend(db, running, pindex)>>)
            /\ syncAt' = "next"
            /\ UNCHANGED <<m_best_block_index, m_synced, pindex, mode>>
       ELSE Broken
    /\ UNCHANGED <<chainVars, notices, restarts, caller>>
-----------------------------------------------------------------------------
\* The scheduler thread runs the callbacks.

Deliver(kind) ==
    /\ Up /\ notices # <<>>
    /\ Head(notices).kind = kind
    /\ notices' = Tail(notices)
    /\ caller' = [caller EXCEPT !.left = IF @ = 0 THEN 0 ELSE @ - 1]
    /\ UNCHANGED <<chainVars, restarts, syncAt, pindex>>

Ignored == UNCHANGED <<mode, m_best_block_index, m_synced, running, diskVars>>

\* The block is appended after the states the database went through before.
AppendAfter(states, stats, b) ==
    LET d == IF states = <<>> THEN db ELSE states[Len(states)]
    IN  IF CanAppend(d, b)
        THEN /\ m_best_block_index' = b
             /\ running' = Appended(stats, b)
             /\ Write(Append(states, CustomAppend(d, stats, b)))
             /\ UNCHANGED <<mode, m_synced>>
        ELSE Broken

Connects(b) == b # Genesis /\ Prev[b] \in Path[m_best_block_index]

BlockConnected ==
    /\ Deliver("connected")
    /\ LET b == Head(notices).block
           best == m_best_block_index
       IN  CASE ~m_synced -> Ignored
             [] m_synced /\ best = Nil ->
                    IF b = Genesis THEN AppendAfter(<<>>, running, b) ELSE Broken
             [] m_synced /\ best # Nil /\ ~Connects(b) ->
                    IF b = Genesis THEN Broken ELSE Ignored
             [] m_synced /\ best # Nil /\ Connects(b) /\ best = Prev[b] ->
                    AppendAfter(<<>>, running, b)
             [] OTHER ->
                    IF CanRewind(db, running, best, Prev[b])
                    THEN AppendAfter(RewindStates(best, Prev[b]),
                                     Reversed(running, best, Prev[b]), b)
                    ELSE Broken

ChainStateFlushed ==
    /\ Deliver("flushed")
    /\ LET b == Head(notices).block
       IN  CASE ~m_synced -> Ignored
             [] m_synced /\ m_best_block_index = Nil -> Broken
             [] OTHER ->
                    /\ Write(<<IF b \in Path[m_best_block_index]
                               THEN Commit(db, m_best_block_index, running) ELSE db>>)
                    /\ UNCHANGED <<mode, m_best_block_index, m_synced, running>>

\* A reader waits for the notices queued so far unless the index is there.
BlockUntilSyncedToCurrentChain ==
    /\ mode = "run" /\ m_synced /\ m_best_block_index # Nil
    /\ caller = NoCaller
    /\ caller' = [tip |-> activeTip,
                  left |-> IF activeTip \in Path[m_best_block_index] THEN 0 ELSE Len(notices)]
    /\ UNCHANGED <<chainVars, notices, restarts, mode, memoryVars, diskVars>>
-----------------------------------------------------------------------------
\* A node whose chain has not begun, or one that has had its index off.
IndexInit ==
    /\ activeTip \in Block \cup {Nil} /\ flushedTip = activeTip
    /\ notices = <<>> /\ moves = 0 /\ restarts = 0 /\ mode = "down"
    /\ m_best_block_index = Nil /\ m_synced = FALSE /\ running = NoStats
    /\ syncAt = "done" /\ pindex = Nil
    /\ db = EmptyDb /\ durable = EmptyDb
    /\ caller = NoCaller

ChainMoves == (\E b \in Block : ConnectTip(b)) \/ DisconnectTip \/ FlushStateToDisk
NodeStopsOrStarts ==
    Start \/ Wipe \/ Crash \/ Interrupt \/ ForceFlushStateToDisk \/ StopIndex
SyncThread == SyncNext \/ SyncLocator \/ SyncAppend
Callbacks == BlockConnected \/ ChainStateFlushed
IndexNext == ChainMoves \/ NodeStopsOrStarts \/ SyncThread \/ Callbacks
             \/ BlockUntilSyncedToCurrentChain

IndexSpec == IndexInit /\ [][IndexNext]_indexVars
-----------------------------------------------------------------------------
\* Type invariant.
IndexTypeOK ==
    /\ {activeTip, flushedTip, m_best_block_index, pindex} \subseteq Block \cup {Nil}
    /\ moves \in 0..MaxMoves /\ restarts \in Nat
    /\ mode \in {"down", "run", "stopping", "flushed", "refused", "broken"}
    /\ m_synced \in BOOLEAN
    /\ syncAt \in {"done", "next", "locator", "append"}
    /\ caller.tip \in Block \cup {Nil} /\ caller.left \in 0..Len(notices)

\* Whatever is on disk, now or after a crash, is right: an entry has the
\* statistics of its block, under its height or its hash, DB_MUHASH belongs to
\* DB_BEST_BLOCK and every block up to that has an entry (CustomRewind copies
\* the entries before the new branch replaces them).
EntriesAreRight ==
    \A d \in {db, durable} :
        /\ \A h \in DOMAIN d.byHeight :
              LET e == d.byHeight[h] IN Height[e.block] = h /\ e.stats = StatsOf(e.block)
        /\ \A b \in DOMAIN d.byHash : d.byHash[b] = StatsOf(b)
        /\ d.best # Nil =>
              d.muhash = StatsOf(d.best) /\ \A b \in Path[d.best] : Known(d, b)

IndexedUpTo ==
    CASE syncAt = "done" -> m_best_block_index
      [] syncAt = "next" -> pindex
      [] OTHER -> PrevOf(pindex)

\* The muhash and totals in memory count every block up to the last indexed
\* one once, through reorganisations, interrupted syncs and notices of blocks
\* ThreadSync has indexed already.
MemoryIsRight ==
    Up => /\ running = IF IndexedUpTo = Nil THEN NoStats ELSE StatsOf(IndexedUpTo)
          /\ IndexedUpTo # Nil => \A b \in Path[IndexedUpTo] : Known(db, b)

\* No FatalError and no Assert of ReverseBlock; CustomInit finds its state
\* corrupted only if the committed block is off the chain.
NeverBroken ==
    /\ mode # "broken"
    /\ mode = "refused" => db.best \notin Path[activeTip]

\* After BlockUntilSyncedToCurrentChain has returned true, the block that was
\* the tip when it was called can be looked up, even if reorganised since.
ReaderFindsTip == caller.tip # Nil /\ caller.left = 0 => Known(db, caller.tip)

\* The index is right in memory and on disk, never fails on its own, and keeps
\* what it promises to a reader.
IndexIsRight ==
    IndexTypeOK /\ EntriesAreRight /\ MemoryIsRight /\ NeverBroken /\ ReaderFindsTip

\* Of a running node: the index is synced and has the tip.
CaughtUp == mode = "run" /\ activeTip # Nil => m_synced /\ Known(db, activeTip)
=============================================================================
