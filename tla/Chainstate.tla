------------------------------ MODULE Chainstate ------------------------------
(***************************************************************************)
(* The block index and the choice of the active chain: Chainstate and      *)
(* ChainstateManager of src/src/validation.cpp with BlockManager of        *)
(* src/src/node/blockstorage.cpp.                                          *)
(*                                                                         *)
(* Several threads (message handler, RPC workers, the miner) submit        *)
(* headers and blocks and issue preciousblock, invalidateblock,            *)
(* reconsiderblock and pruneblockchain.  An action is one section of code  *)
(* that holds cs_main.  ActivateBestChain and InvalidateBlock release      *)
(* cs_main between their iterations and keep m_chainstate_mutex; other     *)
(* threads then interleave everything that does not need that mutex.       *)
(*                                                                         *)
(* Validation is abstracted to a verdict per block: "contextual" is found  *)
(* by ContextualCheckBlock, "connect" by ConnectBlock.  A header or block  *)
(* refused without a trace in the index is a step that changes nothing and *)
(* is left out.                                                            *)
(***************************************************************************)
EXTENDS BlockTree, Sequences, SequencesExt

CONSTANTS
    Thread,
    Verdicts,           \* what validation may say of the blocks: functions
                        \* [Block -> {"valid", "contextual", "connect"}]
    MIN_BLOCKS_TO_KEEP,
    ConnectBatch,       \* 32 in ActivateBestChainStep
    Invalidatable,      \* blocks invalidateblock is called on
    Reconsiderable,     \* blocks reconsiderblock is called on
    MaxPrecious,        \* bound on the preciousblock calls per run of the node
    MaxInvalidate,      \* bound on the invalidateblock calls
    MaxRestart,         \* bound on the restarts
    MaxPrune,           \* bound on the block files pruned (0: not in prune mode)
    MaxOperations       \* bound on all of these together

ASSUME ChainstateAssumption ==
    /\ Verdicts \subseteq [Block -> {"valid", "contextual", "connect"}]
    /\ \A v \in Verdicts : v[Genesis] = "valid"
    /\ MIN_BLOCKS_TO_KEEP \in Nat /\ ConnectBatch \in Nat \ {0}
    /\ Invalidatable \subseteq Block /\ Reconsiderable \subseteq Block
    /\ {MaxPrecious, MaxInvalidate, MaxRestart, MaxPrune, MaxOperations} \subseteq Nat

VARIABLES
    verdict,        \* what validation says of each block, from the start
    index,          \* m_block_index: the entries that exist
    valid,          \* nStatus & BLOCK_VALID_MASK of each entry
    failed,         \* nStatus & BLOCK_FAILED_MASK, a set of flags
    data,           \* the entries with BLOCK_HAVE_DATA
    undo,           \* the entries with BLOCK_HAVE_UNDO
    processed,      \* the entries with nTx > 0
    chainTx,        \* the entries with nChainTx > 0 (HaveTxsDownloaded)
    seqId,          \* nSequenceId
    lastFile,       \* the block in the block file m_last_blockfile
    havePruned,     \* m_have_pruned
    candidates,     \* setBlockIndexCandidates
    unlinked,       \* the second components of m_blocks_unlinked
    failedBlocks,   \* m_failed_blocks
    bestInvalid,    \* m_best_invalid
    bestHeader,     \* m_best_header
    tip,            \* m_chain.Tip(); the active chain is Path[tip]
    ids,            \* nBlockSequenceId, nBlockReverseSequenceId, nLastPreciousChainwork
    pc,             \* where each thread is
    abc,            \* locals of the running ActivateBestChain
    inv,            \* locals of the running InvalidateBlock
    aborted,        \* AbortNode was called
    used            \* the bounded operations used so far

status   == <<index, valid, failed, data, undo, processed, chainTx, seqId>>
files    == <<lastFile, havePruned>>
chain    == <<candidates, unlinked, failedBlocks, bestInvalid, bestHeader, tip>>
control  == <<pc, abc, inv, aborted, used>>
vars     == <<verdict, status, files, chain, ids, control>>

TREE == 2           \* BLOCK_VALID_TREE
TRANSACTIONS == 3   \* BLOCK_VALID_TRANSACTIONS
SCRIPTS == 5        \* BLOCK_VALID_SCRIPTS

NoActivation == [mostWork |-> Nil, starting |-> Nil, newTip |-> Nil, connected |-> FALSE]
NoInvalidation == [block |-> Nil, toMark |-> Nil, byWork |-> {}]

-----------------------------------------------------------------------------

IsValid(b, upTo) == failed[b] = {} /\ valid[b] >= upTo

Mark(flags, blocks, flag) ==
    [b \in Block |-> IF b \in blocks THEN flags[b] \cup {flag} ELSE flags[b]]

\* Only ActivateBestChain holds cs_main over several steps of the model: its
\* inner loop.
CsMainFree == ~aborted /\ \A t \in Thread : pc[t] # "inner"
ChainstateMutexFree == \A t \in Thread : pc[t] \in {"idle", "activate"}

\* The operations of an operator, and the restarts, are bounded one by one and
\* together.
CanUse(operation, bound) ==
    /\ used[operation] < bound
    /\ used.precious + used.invalidate + used.restart + used.prune < MaxOperations

Goto(t, label) == pc' = [pc EXCEPT ![t] = label]

\* InvalidChainFound(b) with the active chain ending in chainTip: the new
\* m_best_invalid and m_best_header.
WorseInvalid(worst, b) == IF worst = Nil \/ Work[b] > Work[worst] THEN b ELSE worst
HeaderWithout(header, b, chainTip) == IF b \in Path[header] THEN chainTip ELSE header

\* PruneBlockIndexCandidates.
PruneBlockIndexCandidates(cands, seq, chainTip) == {c \in cands : ~Worse(seq, c, chainTip)}

-----------------------------------------------------------------------------
(* Headers.                                                                *)

FailedAncestors(b) == failedBlocks \cap Path[b]

\* AcceptBlockHeader up to the scan of m_failed_blocks.
HeaderConnects(b) ==
    /\ b \in Block \ index
    /\ Prev[b] \in index
    /\ failed[Prev[b]] = {}

HeaderIsNew(b) ==
    /\ HeaderConnects(b)
    /\ IsValid(Prev[b], SCRIPTS) \/ FailedAncestors(Prev[b]) = {}

HeaderIsKnown(b) == b \in index \ {Genesis} /\ failed[b] = {}

\* AddToBlockIndex.  An entry is created with validity TREE and sequence id 0;
\* the functions valid, failed and seqId hold these values beforehand.
AddToBlockIndex(b) ==
    /\ index' = index \cup {b}
    /\ bestHeader' = IF b \notin index /\ Work[bestHeader] < Work[b] THEN b ELSE bestHeader

AcceptBlockHeader(b) ==
    /\ CsMainFree
    /\ HeaderIsNew(b)
    /\ AddToBlockIndex(b)
    /\ UNCHANGED <<valid, failed, data, undo, processed, chainTx, seqId, files, candidates,
                   unlinked, failedBlocks, bestInvalid, tip, ids, control>>

\* The header descends from a member f of m_failed_blocks: everything between
\* is marked and the header is refused.
RefuseHeader(b, f) ==
    /\ CsMainFree
    /\ HeaderConnects(b)
    /\ ~IsValid(Prev[b], SCRIPTS)
    /\ f \in FailedAncestors(Prev[b])
    /\ failed' = Mark(failed, Path[Prev[b]] \ Path[f], "CHILD")
    /\ UNCHANGED <<index, valid, data, undo, processed, chainTx, seqId, files, chain, ids,
                   control>>

-----------------------------------------------------------------------------
(* Blocks.                                                                 *)

\* Mutant of Linked: m_blocks_unlinked is not followed.
LinkedAlone(b) == {b}

\* The entries a block with a downloaded parent makes complete: itself and
\* what hangs below it in m_blocks_unlinked.
Linked(b) ==
    {x \in {b} \cup unlinked : b \in Path[x] /\ Path[x] \ Path[b] \subseteq unlinked}

\* The orders in which the queue can emit them: breadth first.
LinkOrders(blocks) ==
    {s \in SetToSeqs(blocks) :
        \A i, j \in DOMAIN s : i < j => Height[s[i]] <= Height[s[j]]}

ReceivedBlockTransactions(b) ==
    /\ data' = data \cup {b}
    /\ processed' = processed \cup {b}
    /\ undo' = undo
    /\ valid' = [valid EXCEPT ![b] = IF failed[b] = {} /\ @ < TRANSACTIONS THEN TRANSACTIONS ELSE @]
    /\ IF Prev[b] \in chainTx
       THEN LET blocks == Linked(b) IN
            \E order \in LinkOrders(blocks) :
                /\ chainTx' = chainTx \cup blocks
                /\ seqId' = [x \in Block |->
                        IF x \in blocks
                        THEN ids.next + (CHOOSE i \in DOMAIN order : order[i] = x) - 1
                        ELSE seqId[x]]
                /\ ids' = [ids EXCEPT !.next = @ + Cardinality(blocks)]
                /\ candidates' = candidates \cup {x \in blocks : ~Worse(seqId', x, tip)}
                /\ unlinked' = unlinked \ blocks
       ELSE /\ chainTx' = chainTx \ {b}
            /\ unlinked' = IF failed[Prev[b]] = {} THEN unlinked \cup {b} ELSE unlinked
            /\ UNCHANGED <<seqId, ids, candidates>>

\* The early returns of AcceptBlock.
BlockIsIgnored(b, fRequested) ==
    \/ b \in data
    \/ /\ ~fRequested
       /\ \/ b \in processed
          \/ Work[b] < Work[tip]
          \/ Height[b] > Height[tip] + MIN_BLOCKS_TO_KEEP

StoreBlock(b) ==
    /\ verdict[b] # "contextual"
    /\ ReceivedBlockTransactions(b)
    /\ lastFile' = b
    /\ failed' = failed

RefuseBlock(b) ==
    /\ verdict[b] = "contextual"
    /\ failed' = Mark(failed, {b}, "VALID")
    /\ UNCHANGED <<valid, data, undo, processed, chainTx, seqId, lastFile, candidates, unlinked, ids>>

\* ProcessNewBlock up to the release of cs_main: AcceptBlock.  A block that is
\* ignored is a success, and ActivateBestChain follows.
AcceptBlock(t, b, fRequested) ==
    /\ CsMainFree
    /\ pc[t] = "idle"
    /\ HeaderIsNew(b) \/ HeaderIsKnown(b)
    /\ AddToBlockIndex(b)
    /\ IF BlockIsIgnored(b, fRequested)
       THEN /\ Goto(t, "activate")
            /\ UNCHANGED <<valid, failed, data, undo, processed, chainTx, seqId, lastFile,
                           candidates, unlinked, ids>>
       ELSE \/ StoreBlock(b) /\ Goto(t, "activate")
            \/ RefuseBlock(b) /\ UNCHANGED pc
    /\ UNCHANGED <<havePruned, failedBlocks, bestInvalid, tip, abc, inv, aborted, used>>

-----------------------------------------------------------------------------
(* The active chain.                                                       *)

\* Mutant of Blockers: the failure flags are not looked at.
BlockersMissing(c) == {x \in Path[c] \ Path[tip] : x \notin data}

\* What stops FindMostWorkChain on its way from candidate c to the active
\* chain: the highest entry that is failed or has no data.
Blockers(c) == {x \in Path[c] \ Path[tip] : failed[x] # {} \/ x \notin data}
Blocker(c) == Highest(Blockers(c))
BlockedPart(c) == Path[c] \ Path[Blocker(c)]

Best(S) == CHOOSE b \in S : \A c \in S : ~Worse(seqId, b, c)

\* FindMostWorkChain: candidates are taken from the best down until one has no
\* blocker.  Those passed over leave the set; below a failed blocker they are
\* marked, below a missing one they go to m_blocks_unlinked.
FindMostWorkChain ==
    LET clear   == {c \in candidates : Blockers(c) = {}}
        passed  == {c \in candidates \ clear : clear = {} \/ Worse(seqId, Best(clear), c)}
        onFailed == {c \in passed : failed[Blocker(c)] # {}}
    IN  [mostWork    |-> IF clear = {} THEN Nil ELSE Best(clear),
         failed      |-> Mark(failed, UNION {BlockedPart(c) : c \in onFailed}, "CHILD"),
         unlinked    |-> unlinked \cup UNION {BlockedPart(c) : c \in passed \ onFailed},
         candidates  |-> candidates \ UNION {BlockedPart(c) \cup {Blocker(c)} : c \in passed},
         bestInvalid |-> IF onFailed = {} THEN bestInvalid
                         ELSE WorseInvalid(bestInvalid, Best(onFailed))]

\* A mostWork kept from an earlier iteration is used as it is.
KeepMostWorkChain ==
    [mostWork |-> abc.mostWork, failed |-> failed, unlinked |-> unlinked,
     candidates |-> candidates, bestInvalid |-> bestInvalid]

\* The blocks ActivateBestChainStep connects, in order, if nothing stops it.
ToConnect(fork, target) ==
    [i \in 1 .. Height[target] - Height[fork] |-> GetAncestor(target, Height[fork] + i)]

\* Mutant of Connected: the result of ConnectBlock is ignored.
ConnectedUnchecked(blocks) ==
    LET stops == {i \in DOMAIN blocks : i > 1 /\ Work[blocks[i - 1]] > Work[tip]}
    IN  IF stops = {} THEN blocks
        ELSE SubSeq(blocks, 1, (CHOOSE i \in stops : \A j \in stops : i <= j) - 1)

\* Connecting stops before a block that is invalid or unreadable and after one
\* that has more work than the old tip.
Connected(blocks) ==
    LET stops == {i \in DOMAIN blocks :
                    \/ verdict[blocks[i]] = "connect" \/ blocks[i] \notin data
                    \/ i > 1 /\ Work[blocks[i - 1]] > Work[tip]}
    IN  IF stops = {} THEN blocks
        ELSE SubSeq(blocks, 1, (CHOOSE i \in stops : \A j \in stops : i <= j) - 1)

\* The block at which the loop was stopped by ConnectTip, if any.
Refused(blocks, n) ==
    IF n < Len(blocks) /\ (n = 0 \/ Work[blocks[n]] <= Work[tip]) THEN blocks[n + 1] ELSE Nil

\* vpindexToConnect.front(): the end of the batch that holds the refused block.
BatchEnd(blocks, n) ==
    LET end == ((n \div ConnectBatch) + 1) * ConnectBatch
    IN  blocks[IF end < Len(blocks) THEN end ELSE Len(blocks)]

\* DisconnectTip needs the block and its undo data.
Undisconnectable(fork) == (Path[tip] \ Path[fork]) \ (data \cap undo)

\* Mutants of EndInner: no second inner, no second outer iteration.
EndInnerOnce(t, again, newTip, mostWork, connected) ==
    LET next == IF connected /\ newTip # mostWork THEN "outer" ELSE "idle"
    IN  /\ Goto(t, next)
        /\ abc' = IF next = "idle" THEN NoActivation
                  ELSE [abc EXCEPT !.mostWork = mostWork, !.newTip = newTip, !.connected = connected]
EndInnerStops(t, again, newTip, mostWork, connected) ==
    /\ Goto(t, IF again THEN "inner" ELSE "idle")
    /\ abc' = IF again THEN [abc EXCEPT !.mostWork = mostWork, !.newTip = newTip, !.connected = connected]
              ELSE NoActivation

\* The conditions of the inner and the outer loop of ActivateBestChain.
EndInner(t, again, newTip, mostWork, connected) ==
    LET next == IF again THEN "inner"
                ELSE IF connected /\ newTip # mostWork THEN "outer" ELSE "idle"
    IN  /\ Goto(t, next)
        /\ abc' = IF next = "idle" THEN NoActivation
                  ELSE [abc EXCEPT !.mostWork = mostWork, !.newTip = newTip,
                                   !.connected = connected]

\* ActivateBestChainStep towards f.mostWork after FindMostWorkChain gave f.
ActivateBestChainStep(t, f) ==
    LET fork    == FindFork(tip, f.mostWork)
        blocks  == ToConnect(fork, f.mostWork)
        done    == Connected(blocks)
        refused == Refused(blocks, Len(done))
        invalid == refused # Nil /\ refused \in data
        newTip  == IF done = <<>> THEN fork ELSE done[Len(done)]
        front   == BatchEnd(blocks, Len(done))
    IN  IF Undisconnectable(fork) # {}
        THEN /\ tip' = Highest(Undisconnectable(fork))
             /\ aborted' = TRUE
             /\ failed' = f.failed /\ candidates' = f.candidates /\ bestInvalid' = f.bestInvalid
             /\ UNCHANGED <<valid, undo, failedBlocks, bestHeader, abc, pc>>
        ELSE /\ tip' = newTip
             /\ valid' = [b \in Block |-> IF b \in ToSet(done) /\ f.failed[b] = {}
                                          THEN SCRIPTS ELSE valid[b]]
             /\ undo' = undo \cup ToSet(done)
             /\ failed' = IF invalid THEN Mark(f.failed, {refused}, "VALID") ELSE f.failed
             /\ failedBlocks' = IF invalid THEN failedBlocks \cup {refused} ELSE failedBlocks
             /\ candidates' =
                    LET kept == IF done = <<>> THEN f.candidates
                                ELSE PruneBlockIndexCandidates(f.candidates, seqId, newTip)
                    IN  IF invalid THEN kept \ {refused} ELSE kept
             /\ bestInvalid' = IF invalid THEN WorseInvalid(WorseInvalid(f.bestInvalid, refused), front)
                               ELSE f.bestInvalid
             /\ bestHeader' = IF invalid THEN HeaderWithout(HeaderWithout(bestHeader, refused, newTip),
                                                            front, newTip)
                              ELSE bestHeader
             /\ aborted' = (refused # Nil /\ ~invalid)
             /\ LET mostWork == IF invalid THEN Nil ELSE f.mostWork IN
                EndInner(t, Worse(seqId, newTip, abc.starting), newTip, mostWork, TRUE)

\* ActivateBestChain takes m_chainstate_mutex.
ActivateBestChain(t) ==
    /\ ~aborted
    /\ pc[t] = "activate"
    /\ ChainstateMutexFree
    /\ abc' = NoActivation
    /\ Goto(t, "outer")
    /\ UNCHANGED <<status, files, chain, ids, inv, aborted, used>>

\* An iteration of the outer loop takes cs_main.
LockCsMain(t) ==
    /\ CsMainFree
    /\ pc[t] = "outer"
    /\ abc' = [abc EXCEPT !.starting = tip, !.connected = FALSE]
    /\ Goto(t, "inner")
    /\ UNCHANGED <<status, files, chain, ids, inv, aborted, used>>

\* One iteration of the inner loop; cs_main is released when it is the last.
ActivateInner(t) ==
    /\ ~aborted
    /\ pc[t] = "inner"
    /\ LET f == IF abc.mostWork = Nil THEN FindMostWorkChain ELSE KeepMostWorkChain IN
        /\ unlinked' = f.unlinked
        /\ IF f.mostWork \in {Nil, tip}
           THEN /\ failed' = f.failed /\ candidates' = f.candidates /\ bestInvalid' = f.bestInvalid
                /\ EndInner(t, FALSE, abc.newTip, f.mostWork, abc.connected)
                /\ UNCHANGED <<valid, undo, failedBlocks, bestHeader, tip, aborted>>
           ELSE ActivateBestChainStep(t, f)
    /\ UNCHANGED <<index, data, processed, chainTx, seqId, files, ids, inv, used>>

-----------------------------------------------------------------------------
(* RPC operations.                                                         *)

\* PreciousBlock up to the release of cs_main.
PreciousBlock(t, b) ==
    LET rev == IF Work[tip] > ids.lastPrecious THEN -1 ELSE ids.rev
        seq == [seqId EXCEPT ![b] = rev]
    IN
    /\ CsMainFree
    /\ pc[t] = "idle"
    /\ CanUse("precious", MaxPrecious)
    /\ b \in index
    /\ Work[b] >= Work[tip]
    /\ ids' = [ids EXCEPT !.rev = rev - 1, !.lastPrecious = Work[tip]]
    /\ seqId' = seq
    /\ candidates' = IF IsValid(b, TRANSACTIONS) /\ b \in chainTx
                     THEN PruneBlockIndexCandidates(candidates \cup {b}, seq, tip)
                     ELSE candidates \ {b}
    /\ used' = [used EXCEPT !.precious = @ + 1]
    /\ Goto(t, "activate")
    /\ UNCHANGED <<index, valid, failed, data, undo, processed, chainTx, files, unlinked,
                   failedBlocks, bestInvalid, bestHeader, tip, abc, inv, aborted>>

\* InvalidateBlock: takes m_chainstate_mutex and lists the blocks that may
\* become candidates while the chain is taken down.
InvalidateBlock(t, b) ==
    /\ CsMainFree
    /\ pc[t] = "idle"
    /\ ChainstateMutexFree
    /\ CanUse("invalidate", MaxInvalidate)
    /\ b \in (index \cap Invalidatable) \ {Genesis}
    /\ inv' = [block |-> b, toMark |-> b,
               byWork |-> {x \in index \ Path[tip] :
                   ~Worse(seqId, x, Prev[b]) /\ IsValid(x, TRANSACTIONS) /\ x \in chainTx}]
    /\ used' = [used EXCEPT !.invalidate = @ + 1]
    /\ Goto(t, "invalidate")
    /\ UNCHANGED <<status, files, chain, ids, abc, aborted>>

\* One iteration of its loop: the tip is disconnected and marked.
InvalidateStep(t) ==
    LET walkTip == tip
        pprev   == Prev[tip]
        now     == {x \in inv.byWork : ~Worse(seqId, x, pprev)}
        marked  == Mark(failed, {walkTip}, "VALID")
    IN
    /\ CsMainFree
    /\ pc[t] = "invalidate"
    /\ inv.block \in Path[tip]
    /\ IF tip \in data \cap undo
       THEN /\ tip' = pprev
            /\ failed' = IF pprev = inv.toMark /\ "VALID" \in marked[pprev]
                         THEN [marked EXCEPT ![pprev] = (@ \ {"VALID"}) \cup {"CHILD"}]
                         ELSE marked
            /\ candidates' = (candidates \ {walkTip}) \cup {pprev} \cup now
            /\ inv' = [inv EXCEPT !.byWork = @ \ now, !.toMark = walkTip]
            /\ UNCHANGED pc
       ELSE /\ Goto(t, "idle")
            /\ inv' = NoInvalidation
            /\ UNCHANGED <<tip, failed, candidates>>
    /\ UNCHANGED <<index, valid, data, undo, processed, chainTx, seqId, files, unlinked,
                   failedBlocks, bestInvalid, bestHeader, ids, abc, aborted, used>>

\* The end of InvalidateBlock; invalidateblock then calls ActivateBestChain.
InvalidateEnd(t) ==
    LET b == inv.toMark
        marked == Mark(failed, {b}, "VALID")
    IN
    /\ CsMainFree
    /\ pc[t] = "invalidate"
    /\ inv.block \notin Path[tip]
    /\ failed' = marked
    /\ failedBlocks' = failedBlocks \cup {b}
    /\ candidates' = (candidates \ {b}) \cup
            {x \in index \cap chainTx : marked[x] = {} /\ valid[x] >= TRANSACTIONS
                                        /\ ~Worse(seqId, x, tip)}
    /\ bestInvalid' = WorseInvalid(bestInvalid, b)
    /\ bestHeader' = HeaderWithout(bestHeader, b, tip)
    /\ inv' = NoInvalidation
    /\ Goto(t, "activate")
    /\ UNCHANGED <<index, valid, data, undo, processed, chainTx, seqId, files, unlinked, tip, ids,
                   abc, aborted, used>>

\* The parts of ResetBlockFailureFlags: the descendants it clears, those it makes
\* candidates, and what is left of m_failed_blocks.
FailedBelow(b) == {x \in index : b \in Path[x] /\ ~IsValid(x, TRANSACTIONS)}

Reactivated(reset) ==
    {x \in reset \cap chainTx : valid[x] >= TRANSACTIONS /\ Worse(seqId, tip, x)}

ForgetFailed(cleared) == failedBlocks \ cleared

\* reconsiderblock: ResetBlockFailureFlags, then ActivateBestChain.
ResetBlockFailureFlags(t, b) ==
    LET reset == FailedBelow(b)
        cleared == reset \cup {x \in Path[b] : failed[x] # {}}
    IN
    /\ CsMainFree
    /\ pc[t] = "idle"
    /\ b \in index \cap Reconsiderable
    /\ failed' = [x \in Block |-> IF x \in cleared THEN {} ELSE failed[x]]
    /\ candidates' = candidates \cup Reactivated(reset)
    /\ bestInvalid' = IF bestInvalid \in reset THEN Nil ELSE bestInvalid
    /\ failedBlocks' = ForgetFailed(cleared)
    /\ Goto(t, "activate")
    /\ UNCHANGED <<index, valid, data, undo, processed, chainTx, seqId, files, unlinked,
                   bestHeader, tip, ids, abc, inv, aborted, used>>

\* pruneblockchain: PruneOneBlockFile of the file that holds b.  A file holds
\* one block, and the file being written is never pruned.
PruneOneBlockFile(b) ==
    /\ CanUse("prune", MaxPrune)
    /\ CsMainFree
    /\ b \in data
    /\ b # lastFile
    /\ Height[b] <= Height[tip] - MIN_BLOCKS_TO_KEEP
    /\ data' = data \ {b}
    /\ undo' = undo \ {b}
    /\ unlinked' = unlinked \ {b}
    /\ havePruned' = TRUE
    /\ used' = [used EXCEPT !.prune = @ + 1]
    /\ UNCHANGED <<index, valid, failed, processed, chainTx, seqId, lastFile, candidates,
                   failedBlocks, bestInvalid, bestHeader, tip, ids, pc, abc, inv, aborted>>

-----------------------------------------------------------------------------
(* A clean shutdown and start: LoadBlockIndex of BlockManager and of       *)
(* ChainstateManager, LoadChainTip, and the import thread's                *)
(* ActivateBestChain.  The index was written out, so nStatus and nTx are   *)
(* those of before; the rest is rebuilt from them.                         *)

LoadedChainTx == {b \in index : Path[b] \subseteq processed}
LoadedFailed ==
    Mark(failed, {b \in index : failed[b] = {} /\ \E a \in Path[b] : failed[a] # {}}, "CHILD")
LoadedCandidates ==
    {b \in index : LoadedFailed[b] = {} /\ valid[b] >= TRANSACTIONS /\ b \in LoadedChainTx}
LoadedUnlinked == {b \in processed : b # Genesis /\ Prev[b] \notin LoadedChainTx}
LoadedBestInvalid ==
    LET bad == {b \in index : LoadedFailed[b] # {}} IN
    IF bad = {} THEN {Nil} ELSE {b \in bad : \A c \in bad : Work[c] <= Work[b]}
NoSequence == [b \in Block |-> 0]
FirstIds == [next |-> 1, rev |-> -1, lastPrecious |-> 0]

Restart(t) ==
    /\ \A u \in Thread : pc[u] \in {"idle", "activate", "outer"} \/ aborted
    /\ CanUse("restart", MaxRestart)
    /\ chainTx' = LoadedChainTx
    /\ failed' = LoadedFailed
    /\ seqId' = NoSequence
    /\ unlinked' = LoadedUnlinked
    /\ candidates' = PruneBlockIndexCandidates(LoadedCandidates, NoSequence, tip)
    /\ failedBlocks' = {}
    /\ bestInvalid' \in LoadedBestInvalid
    /\ bestHeader' = CHOOSE b \in index : /\ LoadedFailed[b] = {}
                                          /\ \A c \in index : LoadedFailed[c] = {} =>
                                                ~Worse(NoSequence, b, c)
    /\ ids' = FirstIds
    /\ pc' = [u \in Thread |-> IF u = t THEN "activate" ELSE "idle"]
    /\ abc' = NoActivation
    /\ inv' = NoInvalidation
    /\ aborted' = FALSE
    /\ used' = [used EXCEPT !.restart = @ + 1]
    /\ UNCHANGED <<index, valid, data, undo, processed, files, tip>>

-----------------------------------------------------------------------------

\* A node that has just connected the genesis block (LoadGenesisBlock and the
\* first ActivateBestChain).
Init ==
    /\ index = {Genesis}
    /\ valid = [b \in Block |-> IF b = Genesis THEN TRANSACTIONS ELSE TREE]
    /\ failed = [b \in Block |-> {}]
    /\ data = {Genesis} /\ undo = {}
    /\ processed = {Genesis} /\ chainTx = {Genesis}
    /\ seqId = [NoSequence EXCEPT ![Genesis] = 1]
    /\ lastFile = Genesis /\ havePruned = FALSE
    /\ candidates = {Genesis}
    /\ unlinked = {}
    /\ failedBlocks = {}
    /\ bestInvalid = Nil
    /\ bestHeader = Genesis
    /\ tip = Genesis
    /\ ids = [FirstIds EXCEPT !.next = 2]
    /\ pc = [t \in Thread |-> "idle"]
    /\ abc = NoActivation
    /\ inv = NoInvalidation
    /\ aborted = FALSE
    /\ verdict \in Verdicts
    /\ used = [precious |-> 0, invalidate |-> 0, restart |-> 0, prune |-> 0]

Activation(t) == ActivateBestChain(t) \/ LockCsMain(t) \/ ActivateInner(t)
Invalidation(t) == InvalidateStep(t) \/ InvalidateEnd(t)

Step ==
    \/ \E b \in Block : AcceptBlockHeader(b)
    \/ \E b, f \in Block : RefuseHeader(b, f)
    \/ \E b \in Block : PruneOneBlockFile(b)
    \/ \E t \in Thread :
        \/ \E b \in Block, fRequested \in BOOLEAN : AcceptBlock(t, b, fRequested)
        \/ \E b \in Block : \/ PreciousBlock(t, b)
                            \/ InvalidateBlock(t, b)
                            \/ ResetBlockFailureFlags(t, b)
        \/ Activation(t)
        \/ Invalidation(t)
        \/ Restart(t)

Next == Step /\ UNCHANGED verdict

\* When a thread in ActivateBestChain or InvalidateBlock can take a step: the
\* states in which Activation(t) or Invalidation(t) is enabled.
CanRun(t) ==
    \/ pc[t] = "activate" /\ ChainstateMutexFree /\ ~aborted
    \/ pc[t] \in {"outer", "invalidate"} /\ CsMainFree
    \/ pc[t] = "inner" /\ ~aborted

\* A running thread keeps running, and a mutex that is free again and again is
\* eventually granted to it: strong fairness, written with CanRun for ENABLED.
Fairness ==
    \A t \in Thread : <>[]~CanRun(t) \/ []<><<Activation(t) \/ Invalidation(t)>>_vars

Spec == Init /\ [][Next]_vars
FairSpec == Spec /\ Fairness

-----------------------------------------------------------------------------
(* Properties.                                                             *)

TypeOK ==
    /\ index \subseteq Block /\ tip \in index /\ bestHeader \in index
    /\ valid \in [Block -> {TREE, TRANSACTIONS, SCRIPTS}]
    /\ failed \in [Block -> SUBSET {"VALID", "CHILD"}]
    /\ undo \subseteq processed /\ data \subseteq processed
    /\ processed \subseteq index /\ chainTx \subseteq index
    /\ seqId \in [Block -> Int]
    /\ candidates \cup unlinked \cup failedBlocks \subseteq index
    /\ bestInvalid \in index \cup {Nil}
    /\ pc \in [Thread -> {"idle", "activate", "outer", "inner", "invalidate"}]
    /\ Cardinality({t \in Thread : pc[t] \in {"outer", "inner", "invalidate"}}) <= 1

HasInvalid(b) == \E a \in Path[b] : "VALID" \in failed[a]
HasMissing(b) == ~(Path[b] \subseteq data)
IsProcessed(b) == Path[b] \subseteq processed

\* The assertions of CheckBlockIndex about the status of one entry
\* (validation.cpp:2931-2956).
StatusAsserts(b) ==
    /\ b \notin chainTx => seqId[b] <= 0
    /\ ~havePruned => (b \in data <=> b \in processed)
    /\ b \in data => b \in processed
    /\ b \in undo => b \in data
    /\ valid[b] >= TRANSACTIONS <=> b \in processed
    /\ IsProcessed(b) <=> b \in chainTx
    /\ (\A a \in Path[b] \ {Genesis} : valid[a] >= TRANSACTIONS) <=> b \in chainTx
    /\ valid[b] = SCRIPTS => \A a \in Path[b] \ {Genesis} : valid[a] = SCRIPTS
    /\ ~HasInvalid(b) => failed[b] = {}

\* Those about setBlockIndexCandidates (validation.cpp:2957-2966).
CandidateAsserts(b) ==
    IF ~Worse(seqId, b, tip) /\ IsProcessed(b)
    THEN ~HasInvalid(b) /\ (~HasMissing(b) \/ b = tip) => b \in candidates
    ELSE b \notin candidates

\* Those about m_blocks_unlinked (validation.cpp:2977-2989).
UnlinkedAsserts(b) ==
    /\ b # Genesis /\ b \in data /\ ~IsProcessed(b) /\ ~HasInvalid(b) => b \in unlinked
    /\ b \in unlinked => b \in data /\ HasMissing(b)
    /\ b # Genesis /\ b \in data /\ IsProcessed(b) /\ HasMissing(b) =>
        /\ havePruned
        /\ ~Worse(seqId, b, tip) /\ b \notin candidates /\ ~HasInvalid(b) => b \in unlinked

Invalidating == \E t \in Thread : pc[t] = "invalidate"

\* CheckBlockIndex holds whenever cs_main is free, no InvalidateBlock is between
\* two of its sections and no block file was pruned: every order of headers, blocks, activations,
\* preciousblock, invalidateblock, reconsiderblock and restarts leaves the
\* index, the candidates and the unlinked blocks as validation.cpp:2877-3022
\* demands.
CheckBlockIndex ==
    CsMainFree /\ ~Invalidating /\ ~havePruned =>
        \A b \in index : StatusAsserts(b) /\ CandidateAsserts(b) /\ UnlinkedAsserts(b)

\* No block of the active chain is marked failed or is one that validation
\* refuses, and all of it was processed: reorganisations, stale values of
\* pindexMostWork and failure flags set by other threads never leave a bad
\* block connected.
ActiveChainIsValid ==
    \A b \in Path[tip] :
        failed[b] = {} /\ verdict[b] = "valid" /\ b \in processed /\ b \in chainTx

\* setBlockIndexCandidates is never empty when PruneBlockIndexCandidates has run
\* (validation.cpp:1769) and FindMostWorkChain only meets candidates whose
\* chain was downloaded (validation.cpp:1736).
CandidatesAreUsable ==
    /\ candidates # {}
    /\ \A c \in candidates : Path[c] \subseteq chainTx

\* When no thread has an activation to run, the tip is the best block whose
\* chain is complete, valid and not marked failed: an activation that used a
\* stale pindexMostWork is always followed by one that sees the better block.
BestChainWhenIdle ==
    (\A t \in Thread : pc[t] = "idle") /\ ~aborted =>
        \A b \in index :
            (\A a \in Path[b] : failed[a] = {} /\ verdict[a] = "valid" /\ a \in data)
            => ~Worse(seqId, tip, b)

\* Between two outer iterations of ActivateBestChain, when other threads look at
\* the chain, it has no less work than when the last one began: a
\* reorganisation that meets an invalid block does not let go of cs_main before
\* a chain as good as the old one is back (validation.cpp:1898).
WorkIsNotLost ==
    \A t \in Thread :
        pc[t] = "outer" /\ abc.starting # Nil /\ ~aborted => Work[tip] >= Work[abc.starting]

\* The active chain, whatever threads and flags did to it, is valid, never worse
\* than it was when other threads may look, and the best one when all is done.
ActiveChainIsRight == ActiveChainIsValid /\ WorkIsNotLost /\ BestChainWhenIdle

\* An entry of m_failed_blocks carries BLOCK_FAILED_VALID, as AcceptBlockHeader
\* asserts (validation.cpp:2301) long after the entry was made.
FailedBlocksAreFailed == \A b \in failedBlocks : "VALID" \in failed[b]

\* The asserts of validation.cpp about the block index hold together: those of
\* CheckBlockIndex, those FindMostWorkChain and PruneBlockIndexCandidates make
\* about the candidates, and the one AcceptBlockHeader makes about
\* m_failed_blocks; and one thread at a time is in ActivateBestChain or
\* InvalidateBlock.
BlockIndexIsSound == TypeOK /\ CheckBlockIndex /\ CandidatesAreUsable /\ FailedBlocksAreFailed

\* Every activation that was started ends, and with it every InvalidateBlock:
\* the loops of ActivateBestChain terminate although other threads may add
\* candidates whenever cs_main is released.
ActivationEnds == \A t \in Thread : pc[t] # "idle" ~> (pc[t] = "idle" \/ aborted)

=============================================================================
