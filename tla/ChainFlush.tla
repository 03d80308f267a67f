------------------------------ MODULE ChainFlush ------------------------------
(***************************************************************************)
(* What the node keeps on disk and how it comes back from a crash:         *)
(* FlushStateToDisk, ConnectTip, DisconnectTip, ReplayBlocks and           *)
(* LoadChainTip (src/src/validation.cpp), CCoinsViewDB::BatchWrite         *)
(* (txdb.cpp) and the block files (node/blockstorage.cpp).                 *)
(*                                                                         *)
(* On disk there are the block and undo files, written as blocks arrive    *)
(* and forced out by FlushBlockFile; the block index database, written     *)
(* with sync; and the coins database, written without sync, in partial     *)
(* batches.  A crash (of the process or of the machine) loses memory, any  *)
(* unforced part of the files and any suffix of the coins batches.         *)
(*                                                                         *)
(* A transaction is a set of inputs and a set of outputs; a coin is known  *)
(* by the height it was created at, which is how a transaction confirmed   *)
(* on two branches leaves two different coins.  The coins cache is the map *)
(* it shows (CoinsCache refines UtxoSet).  Which block is connected next   *)
(* is the business of Chainstate and is left open here.  All block data    *)
(* goes to one block file.                                                 *)
(***************************************************************************)
EXTENDS BlockTree, Sequences

CONSTANTS
    OutPoint,
    Tx,             \* transaction ids
    Inputs,         \* [Tx -> SUBSET OutPoint]; a coinbase has none
    Outputs,        \* [Tx -> SUBSET OutPoint], spendable outputs
    Vtx,            \* [Block -> Seq(Tx)], the transactions of a block
    MaxFlush,       \* bound on the full flushes
    MaxCrash        \* bound on the crashes

\* A transaction id commits to inputs and outputs; no block has one twice.
ASSUME TransactionAssumption ==
    /\ Inputs \in [Tx -> SUBSET OutPoint] /\ Outputs \in [Tx -> SUBSET OutPoint]
    /\ \A t \in Tx : Inputs[t] \cap Outputs[t] = {}
    /\ \A t, u \in Tx : t # u => Outputs[t] \cap Outputs[u] = {}
    /\ Vtx \in [Block -> Seq(Tx)] /\ Vtx[Genesis] = <<>>
    /\ \A b \in Block : \A i, j \in DOMAIN Vtx[b] : Vtx[b][i] = Vtx[b][j] => i = j
    /\ MaxFlush \in Nat /\ MaxCrash \in Nat

NoCoin == 0     \* no unspent coin; a coin is the height (>= 1) of its block
Coins == [OutPoint -> Nat]
NoCoins == [o \in OutPoint |-> NoCoin]

\* Transaction i of b creates or spends o.
Touches(b, i, o) == o \in Inputs[Vtx[b][i]] \cup Outputs[Vtx[b][i]]

\* UpdateCoins for the first n transactions of a block, in order: of those that
\* touch an output, the last one decides.
CoinsAfter(coins, b, n) ==
    [o \in OutPoint |->
        IF \E i \in 1..n : o \in Outputs[Vtx[b][i]] /\ \A j \in (i + 1)..n : ~Touches(b, j, o)
        THEN Height[b]
        ELSE IF \E i \in 1..n : Touches(b, i, o) THEN NoCoin ELSE coins[o]]
ConnectCoins(coins, b) == CoinsAfter(coins, b, Len(Vtx[b]))

\* The coins a block's chain leaves: what every database state must lead to.
Utxo[b \in Block] == IF b = Genesis THEN NoCoins ELSE ConnectCoins(Utxo[Prev[b]], b)

\* ConnectBlock: the outputs of a block are new (BIP30, or the heights of BIP34,
\* which imply it), and what a transaction spends is there when its turn comes
\* (Consensus::CheckTxInputs).
ASSUME BlocksAreValid ==
    \A b \in Block \ {Genesis} : \A i \in DOMAIN Vtx[b] :
        /\ \A o \in Outputs[Vtx[b][i]] : Utxo[Prev[b]][o] = NoCoin
        /\ \A o \in Inputs[Vtx[b][i]] : CoinsAfter(Utxo[Prev[b]], b, i - 1)[o] # NoCoin

\* CTxUndo: the coins the inputs of transaction i of b had when b was first
\* connected.
TxUndo(b, i) == [o \in Inputs[Vtx[b][i]] |-> CoinsAfter(Utxo[Prev[b]], b, i - 1)[o]]

\* DisconnectBlock for the transactions after the n-th, in reverse order: of
\* those that touch an output, the first one decides.  Its outputs go, its inputs
\* come back with the coins of the undo data (ApplyTxInUndo).
Restorer(b, n, o) ==
    {i \in (n + 1)..Len(Vtx[b]) :
        o \in Inputs[Vtx[b][i]] /\ \A j \in (n + 1)..(i - 1) : ~Touches(b, j, o)}
CoinsUndone(coins, b, n) ==
    [o \in OutPoint |->
        IF Restorer(b, n, o) # {} THEN TxUndo(b, CHOOSE i \in Restorer(b, n, o) : TRUE)[o]
        ELSE IF \E i \in (n + 1)..Len(Vtx[b]) : Touches(b, i, o) THEN NoCoin ELSE coins[o]]

\* Mutant of DisconnectCoins: the coins that were spent do not come back.
DisconnectCoinsNoUndo(coins, b) ==
    [o \in OutPoint |-> IF \E i \in DOMAIN Vtx[b] : Touches(b, i, o) THEN NoCoin ELSE coins[o]]

DisconnectCoins(coins, b) == CoinsUndone(coins, b, 0)

\* DISCONNECT_OK rather than DISCONNECT_UNCLEAN: every output is there, with the
\* height of b, and no input is.
DisconnectIsClean(coins, b) ==
    \A i \in DOMAIN Vtx[b] :
        LET now == CoinsUndone(coins, b, i)
        IN  /\ \A o \in Outputs[Vtx[b][i]] : now[o] = Height[b]
            /\ \A o \in Inputs[Vtx[b][i]] : now[o] = NoCoin

-----------------------------------------------------------------------------

VARIABLES
    mode,       \* "running", "replaying", "down" or "failed" (start refused)
    tip, coins, \* m_chain.Tip() and what CoinsTip() shows
    index,      \* m_block_index in memory: entry -> flags
    written,    \* records in the block and undo files: <<"data" | "undo", block>>
    forced,     \* those of them that FlushBlockFile forced to disk
    indexDb,    \* the block index database
    coinsDb,    \* the coins database as the node reads it
    lost,       \* the earlier states of it that a crash may bring back
    flush,      \* progress of FlushStateToDisk
    used        \* the bounded events so far

vars == <<mode, tip, coins, index, written, forced, indexDb, coinsDb, lost, flush, used>>

NoFlush == [step |-> "none", target |-> Nil, rest |-> {}]
Entry == SUBSET {"data", "undo"}

\* Reading the files.
ReadBlockFromDisk(b) == "data" \in index[b] /\ <<"data", b>> \in written
UndoReadFromDisk(b) == "undo" \in index[b] /\ <<"undo", b>> \in written

Running == mode = "running" /\ flush.step = "none"

\* AcceptBlockHeader and AcceptBlock: the block goes to the file, the entry to
\* the index in memory.
SaveBlockToDisk(b) ==
    /\ Running
    /\ b \in Block \ DOMAIN index
    /\ Prev[b] \in DOMAIN index
    /\ written' = written \cup {<<"data", b>>}
    /\ index' = [x \in DOMAIN index \cup {b} |-> IF x = b THEN {"data"} ELSE index[x]]
    /\ UNCHANGED <<mode, tip, coins, forced, indexDb, coinsDb, lost, flush, used>>

\* ConnectTip: the undo data is written the first time only.
ConnectTip(b) ==
    /\ Running
    /\ b \in DOMAIN index \ {Genesis}
    /\ Prev[b] = tip
    /\ ReadBlockFromDisk(b)
    /\ coins' = ConnectCoins(coins, b)
    /\ written' = IF "undo" \in index[b] THEN written ELSE written \cup {<<"undo", b>>}
    /\ index' = [index EXCEPT ![b] = @ \cup {"undo"}]
    /\ tip' = b
    /\ UNCHANGED <<mode, forced, indexDb, coinsDb, lost, flush, used>>

DisconnectTip ==
    /\ Running
    /\ tip # Genesis
    /\ ReadBlockFromDisk(tip) /\ UndoReadFromDisk(tip)
    /\ DisconnectIsClean(coins, tip)
    /\ coins' = DisconnectCoins(coins, tip)
    /\ tip' = Prev[tip]
    /\ UNCHANGED <<mode, index, written, forced, indexDb, coinsDb, lost, flush, used>>

-----------------------------------------------------------------------------
(* FlushStateToDisk.  cs_main is held from the first step to the last.     *)

\* Mutant of FlushBlockFile: the files are not forced out.
FlushBlockFileNot ==
    /\ Running
    /\ used.flush < MaxFlush
    /\ flush' = [flush EXCEPT !.step = "index"]
    /\ used' = [used EXCEPT !.flush = @ + 1]
    /\ UNCHANGED <<mode, tip, coins, index, written, forced, indexDb, coinsDb, lost>>

FlushBlockFile ==
    /\ Running
    /\ used.flush < MaxFlush
    /\ forced' = written
    /\ flush' = [flush EXCEPT !.step = "index"]
    /\ used' = [used EXCEPT !.flush = @ + 1]
    /\ UNCHANGED <<mode, tip, coins, index, written, indexDb, coinsDb, lost>>

\* Mutant of StartBatch: the index is not written before the coins.
StartBatchEarly(step) == flush.step \in {"index", "coins"}

\* The coins are written in the last part of FlushStateToDisk.
StartBatch(step) == flush.step = step

\* A periodic write ends here; a full flush goes on with the coins.
WriteBlockIndexDB ==
    /\ mode = "running" /\ flush.step = "index"
    /\ indexDb' = index
    /\ \E full \in BOOLEAN : flush' = IF full THEN [flush EXCEPT !.step = "coins"] ELSE NoFlush
    /\ UNCHANGED <<mode, tip, coins, index, written, forced, coinsDb, lost, used>>

\* CoinsTip().Flush(): BatchWrite gets the DIRTY entries, which are at least the
\* coins that differ from the database.
BeginBatchWrite ==
    /\ mode = "running" /\ StartBatch("coins")
    /\ \E dirty \in SUBSET OutPoint :
        /\ {o \in OutPoint : coins[o] # coinsDb.coins[o]} \subseteq dirty
        /\ flush' = [step |-> "batch", target |-> tip, rest |-> dirty]
    /\ UNCHANGED <<mode, tip, coins, index, written, forced, indexDb, coinsDb, lost, used>>

\* old_tip of BatchWrite: DB_BEST_BLOCK, or the second of DB_HEAD_BLOCKS.
OldTip(db) == IF db.best = Nil /\ db.heads # <<>> THEN db.heads[2] ELSE db.best

WrittenCoins(db, part) == [o \in OutPoint |-> IF o \in part THEN coins[o] ELSE db.coins[o]]

\* A partial batch; the first one also replaces DB_BEST_BLOCK by DB_HEAD_BLOCKS.
PartialBatch(db, part) ==
    [coins |-> WrittenCoins(db, part), best |-> Nil, heads |-> <<flush.target, OldTip(db)>>]

\* The last batch erases DB_HEAD_BLOCKS and writes DB_BEST_BLOCK.
FinalBatch(db) ==
    [coins |-> WrittenCoins(db, flush.rest), best |-> flush.target, heads |-> <<>>]

\* The write is not synced: until something later forces it out, a crash may
\* bring back any earlier state.
WriteBatch(db) ==
    /\ coinsDb' = db
    /\ lost' = lost \cup {coinsDb}

WritePartialBatch(part) ==
    /\ flush.step = "batch"
    /\ part # {} /\ part \subseteq flush.rest
    /\ WriteBatch(PartialBatch(coinsDb, part))
    /\ flush' = [flush EXCEPT !.rest = @ \ part]
    /\ UNCHANGED <<mode, tip, coins, index, written, forced, indexDb, used>>

\* After the replay's own flush the node goes on with LoadChainTip.
WriteFinalBatch ==
    /\ flush.step = "batch"
    /\ WriteBatch(FinalBatch(coinsDb))
    /\ flush' = NoFlush
    /\ mode' = "running"
    /\ UNCHANGED <<tip, coins, index, written, forced, indexDb, used>>

-----------------------------------------------------------------------------
(* Crash and start.                                                        *)

\* The records the block index database points to; no other is ever read.
Indexed == {r \in {"data", "undo"} \X DOMAIN indexDb : r[1] \in indexDb[r[2]]}

Crash ==
    /\ mode \in {"running", "replaying"}
    /\ used.crash < MaxCrash
    /\ mode' = "down"
    /\ \E kept \in SUBSET ((written \ forced) \cap Indexed) : written' = (forced \cap Indexed) \cup kept
    /\ forced' = written'
    /\ coinsDb' \in lost \cup {coinsDb}
    /\ lost' = {}
    /\ flush' = NoFlush
    /\ tip' = Genesis /\ coins' = NoCoins /\ index' = << >>
    /\ used' = [used EXCEPT !.crash = @ + 1]
    /\ UNCHANGED indexDb

\* The blocks of a chain above the fork, for the old and the new head of an
\* interrupted flush; the first flush has no old head and starts from nothing.
OldHead(db) == IF db.heads[2] = Nil THEN Genesis ELSE db.heads[2]
Fork(db) == FindFork(db.heads[1], OldHead(db))
RollBack(db) == Path[OldHead(db)] \ Path[Fork(db)]
RollForward(db) == Path[db.heads[1]] \ Path[Fork(db)]

\* The loops of ReplayBlocks: from a block back to the fork, and from the fork
\* with the coins base forward to a block.
RolledBack(fork) ==
    LET back[b \in Block] ==
            IF b \in Path[fork] THEN [c \in Coins |-> c]
            ELSE [c \in Coins |-> back[Prev[b]][DisconnectCoins(c, b)]]
    IN  back
RolledForward(fork, base) ==
    LET forward[b \in Block] ==
            IF b \in Path[fork] THEN base ELSE ConnectCoins(forward[Prev[b]], b)
    IN  forward

\* Mutant of Replayed: the blocks of the old head are not rolled back.
ReplayedForwardOnly(db) == RolledForward(Fork(db), db.coins)[db.heads[1]]

\* ReplayBlocks over the coins database: blocks of the old head are rolled back
\* (an unclean disconnect is accepted), those of the new head rolled forward.
Replayed(db) ==
    RolledForward(Fork(db), RolledBack(Fork(db))[OldHead(db)][db.coins])[db.heads[1]]

\* What ReplayBlocks needs: both heads known, every block readable, and the
\* undo data of those rolled back.
CanReplay(db) ==
    /\ {db.heads[1], db.heads[2]} \subseteq DOMAIN indexDb \cup {Nil}
    /\ \A b \in RollBack(db) \cup RollForward(db) :
            "data" \in indexDb[b] /\ <<"data", b>> \in written
    /\ \A b \in RollBack(db) : "undo" \in indexDb[b] /\ <<"undo", b>> \in written

\* LoadChainstate: LoadBlockIndex, ReplayBlocks, LoadChainTip.  With an empty
\* coins database the genesis block is connected anew.
Start ==
    /\ mode = "down"
    /\ index' = indexDb
    /\ IF coinsDb.heads # <<>>
       THEN IF CanReplay(coinsDb)
            THEN /\ mode' = "replaying"
                 /\ coins' = Replayed(coinsDb)
                 /\ tip' = coinsDb.heads[1]
                 /\ \E dirty \in SUBSET OutPoint :
                        /\ {o \in OutPoint : coins'[o] # coinsDb.coins[o]} \subseteq dirty
                        /\ flush' = [step |-> "batch", target |-> coinsDb.heads[1], rest |-> dirty]
            ELSE mode' = "failed" /\ UNCHANGED <<coins, tip, flush>>
       ELSE /\ mode' = IF coinsDb.best \in DOMAIN indexDb \cup {Nil} THEN "running" ELSE "failed"
            /\ coins' = coinsDb.coins
            /\ tip' = IF coinsDb.best = Nil THEN Genesis ELSE coinsDb.best
            /\ UNCHANGED flush
    /\ UNCHANGED <<written, forced, indexDb, coinsDb, lost, used>>

-----------------------------------------------------------------------------

EmptyDb == [coins |-> NoCoins, best |-> Nil, heads |-> <<>>]

\* A new data directory: LoadGenesisBlock has stored the genesis block.
Init ==
    /\ mode = "running"
    /\ tip = Genesis /\ coins = NoCoins
    /\ index = [b \in {Genesis} |-> {"data"}]
    /\ written = {<<"data", Genesis>>} /\ forced = written
    /\ indexDb = index
    /\ coinsDb = EmptyDb
    /\ lost = {}
    /\ flush = NoFlush
    /\ used = [flush |-> 0, crash |-> 0]

FlushNext ==
    \/ WriteBlockIndexDB
    \/ BeginBatchWrite
    \/ \E part \in SUBSET OutPoint : WritePartialBatch(part)
    \/ WriteFinalBatch

Next ==
    \/ \E b \in Block : SaveBlockToDisk(b) \/ ConnectTip(b)
    \/ DisconnectTip
    \/ FlushBlockFile
    \/ FlushNext
    \/ Crash
    \/ Start

Spec == Init /\ [][Next]_vars

-----------------------------------------------------------------------------
(* Properties.                                                             *)

DbStates == lost \cup {coinsDb}

TypeOK ==
    /\ mode \in {"running", "replaying", "down", "failed"}
    /\ tip \in Block /\ coins \in [OutPoint -> Nat]
    /\ DOMAIN index \cup DOMAIN indexDb \subseteq Block
    /\ \A b \in DOMAIN index : index[b] \in Entry
    /\ forced \subseteq written /\ written \subseteq {"data", "undo"} \X Block
    /\ \A db \in DbStates : db.best # Nil => db.heads = <<>>

\* While the node runs, the coins it validates with are exactly those of its
\* tip, however many crashes, partial flushes, replays and reorganisations
\* came before (ConnectTip, DisconnectTip, ReplayBlocks, LoadChainTip).
CoinsMatchTip == mode \in {"running", "replaying"} => coins = Utxo[tip]

\* A start never fails: the block a flush or an interrupted flush names is in
\* the block index, and the blocks and undo data that ReplayBlocks reads are in
\* the files ("Unable to replay blocks", "Error initializing block database").
StartNeverFails == mode # "failed"

\* Every state of the coins database that a crash can bring back leads to the
\* coins of the block it names: a finished flush as it is, an interrupted one
\* by rolling the old head back and the new one forward.
EveryDbStateRecovers ==
    \A db \in DbStates :
        IF db.heads = <<>>
        THEN db.coins = IF db.best = Nil THEN NoCoins ELSE Utxo[db.best]
        ELSE Replayed(db) = Utxo[db.heads[1]]

\* What the index says is in the files can be read from them, before and after
\* a crash: the index never overtakes the files.
FilesHoldWhatIndexSays ==
    /\ \A b \in DOMAIN index, kind \in {"data", "undo"} :
            kind \in index[b] => <<kind, b>> \in written
    /\ \A b \in DOMAIN indexDb, kind \in {"data", "undo"} :
            kind \in indexDb[b] => <<kind, b>> \in forced

\* Every block of the active chain can be disconnected (DisconnectTip asks for
\* DISCONNECT_OK), also right after a recovery: the undo data is there and the
\* coins match it.
TipCanBeDisconnected ==
    Running => \A b \in Path[tip] \ {Genesis} :
        ReadBlockFromDisk(b) /\ UndoReadFromDisk(b) /\ DisconnectIsClean(Utxo[b], b)

\* BatchWrite after an interrupted flush is always for the block that flush was
\* for: assert(old_heads[0] == hashBlock), txdb.cpp:93.
InterruptedFlushIsFinished ==
    flush.step = "batch" /\ coinsDb.best = Nil /\ coinsDb.heads # <<>> =>
        coinsDb.heads[1] = flush.target

\* A node can be started after any crash, from whatever the crash left of the
\* coins database, and the flush that the recovery ends with, interrupted or
\* not, finishes the one that was interrupted before it.
RecoverySucceeds ==
    TypeOK /\ StartNeverFails /\ EveryDbStateRecovers /\ InterruptedFlushIsFinished

\* A node never depends on a block or undo record that a power loss can take or
\* has taken from it: neither its index nor its active chain needs more than
\* the files hold.
FilesSuffice == FilesHoldWhatIndexSays /\ TipCanBeDisconnected

=============================================================================
