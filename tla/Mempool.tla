------------------------------- MODULE Mempool -------------------------------
(* The memory pool (txmempool.cpp) with the acceptance of transactions       *)
(* (MemPoolAccept), their removal for blocks and the repair of the pool      *)
(* after a reorganisation (validation.cpp).  Every entry caches its links    *)
(* and the totals over its ancestors and descendants, and every operation    *)
(* updates them incrementally.                                               *)
(* Transactions are given by constants: what they spend, how much they pay,  *)
(* and the first height at which they are final and their inputs mature.     *)
(* Scripts and standardness are left out: all transactions pass them.  Sizes *)
(* count towards fee rates and the memory limit; the package limits are the  *)
(* two counts.  Signature operations and vTxHashes are left out.             *)
EXTENDS Integers, Sequences, FiniteSets, FiniteSetsExt, SequencesExt, TLC

CONSTANTS
    Inputs,              \* Inputs[t]: the outpoints <<transaction, n>> t spends
    NumOutputs,          \* outputs of each transaction are <<t, 1>>, <<t, 2>>...
    Genesis,             \* outpoints in the chain from the start
    Fee, Size,           \* Fee[t], Size[t]
    Signals,             \* the transactions that signal BIP125
    FinalAt,             \* FinalAt[t]: the first block height t may be in
    FullRbf,             \* m_full_rbf
    MaxReplacements,     \* MAX_REPLACEMENT_CANDIDATES
    IncrementalFee,      \* fee rate, per K
    Scenarios            \* settings and bounds: a set of records

VARIABLES
    pool,           \* the pool: mapTx, mapNextTx
    mapDeltas,
    rolling,        \* rollingMinimumFeeRate and blockSinceLastRollingFeeBump
    chain,          \* the blocks of the active chain, each a sequence of transactions
    now,
    scenario        \* the settings and bounds that apply; they never change

vars == <<pool, mapDeltas, rolling, chain, now, scenario>>

Tx == scenario.txs                              \* the transactions there are
LimitAncestors == scenario.limitAncestors       \* m_limits
LimitDescendants == scenario.limitDescendants
MaxSize == scenario.maxSize                     \* m_max_size_bytes
MinRelayFee == scenario.minRelayFee             \* per K
Expiry == scenario.expiry                       \* m_expiry
MaxDisconnected == scenario.maxDisconnected     \* MAX_DISCONNECTED_TX_POOL_SIZE, in transactions
Deltas == scenario.deltas                       \* fee deltas PrioritiseTransaction is called with
MaxDelta == scenario.maxDelta                   \* bounds: on their sum and number, ...
MaxPrioritised == scenario.maxPrioritised
MaxHeight == scenario.maxHeight                 \* on the blocks and on time
MaxBlockTx == scenario.maxBlockTx
MaxNewBlocks == scenario.maxNewBlocks
MaxTime == scenario.maxTime

K == 1000
InPool(p) == DOMAIN p.mapTx
Txid(o) == o[1]
FeePerK(fee, size) ==      \* CFeeRate: division truncates
    IF fee >= 0 THEN (fee * K) \div size ELSE -((-fee * K) \div size)

\* Op applied to base and each element of seq in turn (FoldLeft, the argument of
\* each application evaluated before it), and as often as there are transactions.
Fold(Op(_, _), base, seq) ==
    LET F[i \in 0..Len(seq)] ==
          IF i = 0 THEN base ELSE CHOOSE y \in {Op(x, seq[i]) : x \in {F[i-1]}} : TRUE
    IN  F[Len(seq)]
Iterate(Op(_), base) == Fold(LAMBDA x, i : Op(x), base, [i \in 1..Cardinality(Tx) |-> i])
\* f itself; TLC evaluates a function joined with @@ once and for all.
Table(f) == f @@ <<>>
-----------------------------------------------------------------------------
(* The chain.                                                                *)
Confirmed(c) == UNION {ToSet(c[i]) : i \in DOMAIN c}
Outputs(S) == UNION {{<<t, n>> : n \in 1..NumOutputs[t]} : t \in S}
Spent(S) == UNION {Inputs[t] : t \in S}
Coins(c) == (Genesis \cup Outputs(Confirmed(c))) \ Spent(Confirmed(c))

\* Blocks that may follow chain c: the transactions are final, and each finds
\* its inputs among the coins left by those before it.
ValidBlock(b, c) ==
    /\ \A i \in DOMAIN b :
         /\ FinalAt[b[i]] <= Len(c) + 1 /\ b[i] \notin Confirmed(c)
         /\ Inputs[b[i]] \subseteq Coins(Append(c, SubSeq(b, 1, i - 1)))
    /\ \A i, j \in DOMAIN b : i # j => b[i] # b[j]
BlocksAfter(c) == {b \in UNION {[1..n -> Tx] : n \in 0..MaxBlockTx} : ValidBlock(b, c)}
-----------------------------------------------------------------------------
(* The pool's graph.                                                         *)
\* S and all that Step leads to from it, in as many steps as there are transactions.
Closure(S, Step(_)) == Iterate(LAMBDA T : T \cup Step(T), S)

CalculateDescendants(p, S) ==
    Closure(S, LAMBDA T : UNION {p.mapTx[t].children : t \in T})

AncestorsFrom(p, parents) ==
    Closure(parents, LAMBDA T : UNION {p.mapTx[t].parents : t \in T})

ParentsOf(p, t) == {Txid(o) : o \in Inputs[t]} \cap InPool(p)

\* CalculateMemPoolAncestors with fSearchForParents, and without.
SearchAncestors(p, t) == AncestorsFrom(p, ParentsOf(p, t))
LinkedAncestors(p, t) == AncestorsFrom(p, p.mapTx[t].parents)
WithinLimits(p, ancestors, limitAncestors, limitDescendants) ==
    /\ Cardinality(ancestors) + 1 <= limitAncestors
    /\ \A a \in ancestors : p.mapTx[a].descCount + 1 <= limitDescendants

Modified(p, t) == p.mapTx[t].fee
ModifiedFees(p, S) == MapThenSumSet(LAMBDA t : Modified(p, t), S)
Sizes(S) == MapThenSumSet(LAMBDA t : Size[t], S)

addUnchecked(p, t, ancestors, fee, time) ==
    LET parents == ParentsOf(p, t)
        entry == [parents |-> parents, children |-> {}, fee |-> fee, time |-> time,
                  ancCount |-> 1 + Cardinality(ancestors),
                  ancSize |-> Size[t] + Sizes(ancestors),
                  ancFees |-> fee + ModifiedFees(p, ancestors),
                  descCount |-> 1, descSize |-> Size[t], descFees |-> fee]
        Linked(u) == IF u \in parents THEN p.mapTx[u].children \cup {t} ELSE p.mapTx[u].children
        Updated(u) ==
          IF u \in ancestors
          THEN [p.mapTx[u] EXCEPT !.children = Linked(u), !.descCount = @ + 1,
                                  !.descSize = @ + Size[t], !.descFees = @ + fee]
          ELSE [p.mapTx[u] EXCEPT !.children = Linked(u)]
    IN  [mapTx |-> (t :> entry) @@ [u \in InPool(p) |-> Updated(u)],
         mapNextTx |-> [o \in Inputs[t] |-> t] @@ p.mapNextTx]

\* RemoveStaged: UpdateForRemoveFromMempool, then removeUnchecked for each.
RemoveStaged(p, stage, updateDescendants) ==
    LET above(u) == {r \in stage : u \in CalculateDescendants(p, {r}) \ {r}}
        below(u) == {r \in stage : u \in LinkedAncestors(p, r)}
        anc(u) == IF updateDescendants THEN above(u) ELSE {}
        Updated(u) ==
          [p.mapTx[u] EXCEPT
             !.parents = @ \ stage, !.children = @ \ stage,
             !.ancCount = @ - Cardinality(anc(u)), !.ancSize = @ - Sizes(anc(u)),
             !.ancFees = @ - ModifiedFees(p, anc(u)),
             !.descCount = @ - Cardinality(below(u)), !.descSize = @ - Sizes(below(u)),
             !.descFees = @ - ModifiedFees(p, below(u))]
    IN  [mapTx |-> Table([u \in InPool(p) \ stage |-> Updated(u)]),
         mapNextTx |-> Table([o \in DOMAIN p.mapNextTx \ Spent(stage) |-> p.mapNextTx[o]])]

removeRecursive(p, t) ==
    LET origins == IF t \in InPool(p) THEN {t}
                   ELSE {p.mapNextTx[o] : o \in {q \in DOMAIN p.mapNextTx : Txid(q) = t}}
    IN  RemoveStaged(p, CalculateDescendants(p, origins), FALSE)

ConflictsOf(p, t) == {p.mapNextTx[o] : o \in Inputs[t] \cap DOMAIN p.mapNextTx} \ {t}

\* A state of the pool as the operations below pass it on.
State == [pool |-> pool, mapDeltas |-> mapDeltas, rolling |-> rolling]
Delta(s, t) == IF t \in DOMAIN s.mapDeltas THEN s.mapDeltas[t] ELSE 0
ClearPrioritisation(s, t) ==
    [s EXCEPT !.mapDeltas = Table([u \in DOMAIN @ \ {t} |-> @[u]])]

removeConflicts(s, t) ==
    Fold(LAMBDA r, o :
               IF o \in DOMAIN r.pool.mapNextTx /\ r.pool.mapNextTx[o] # t
               THEN LET c == r.pool.mapNextTx[o]
                    IN  [ClearPrioritisation(r, c) EXCEPT !.pool = removeRecursive(@, c)]
               ELSE r,
             s, SetToSeq(Inputs[t]))

removeForBlock(s, block) ==
    LET remove(r, t) ==
          LET r1 == IF t \in InPool(r.pool)
                    THEN [r EXCEPT !.pool = RemoveStaged(@, {t}, TRUE)] ELSE r
          IN  ClearPrioritisation(removeConflicts(r1, t), t)
    IN  [Fold(remove, s, block) EXCEPT !.rolling.block = TRUE]

\* The totals of the entry t and of its descendants that were in the pool before
\* the entries in `exclude` came back; `u` is [pool, cached, remove].
UpdateForDescendants(u, t, exclude) ==
    LET entries == u.pool.mapTx
        cachedOf(S) == {c \in UNION {entries[d].children : d \in S} : c \in DOMAIN u.cached}
        staged == Closure(entries[t].children,
                          LAMBDA S : UNION {entries[d].children : d \in S} \ DOMAIN u.cached)
        descendants == staged \cup UNION {u.cached[c] : c \in cachedOf(staged)}
        updated == descendants \ exclude
        fee == Modified(u.pool, t)
        mapTx == Table([d \in DOMAIN entries |->
                    IF d = t
                    THEN [entries[d] EXCEPT !.descCount = @ + Cardinality(updated),
                                            !.descSize = @ + Sizes(updated),
                                            !.descFees = @ + ModifiedFees(u.pool, updated)]
                    ELSE IF d \in updated
                    THEN [entries[d] EXCEPT !.ancCount = @ + 1, !.ancSize = @ + Size[t],
                                            !.ancFees = @ + fee]
                    ELSE entries[d]])
    IN  [pool |-> [u.pool EXCEPT !.mapTx = mapTx],
         cached |-> IF updated = {} THEN u.cached ELSE (t :> updated) @@ u.cached,
         remove |-> u.remove \cup {d \in updated : mapTx[d].ancCount > LimitAncestors}]

\* Mutant: the children left in the pool are not linked.
UpdateTransactionsFromBlock_NotLinked(p, hashes) == p

UpdateTransactionsFromBlock(p, hashes) ==
    LET exclude == ToSet(hashes)
        link(u, t) ==
          LET children == {u.mapNextTx[o] : o \in {q \in DOMAIN u.mapNextTx : Txid(q) = t}} \ exclude
          IN  [u EXCEPT !.mapTx = Table([d \in DOMAIN @ |->
                 IF d = t THEN [@[d] EXCEPT !.children = @ \cup children]
                 ELSE IF d \in children THEN [@[d] EXCEPT !.parents = @ \cup {t}] ELSE @[d]])]
        step(u, t) ==
          IF t \notin InPool(u.pool) THEN u
          ELSE UpdateForDescendants([u EXCEPT !.pool = link(@, t)], t, exclude)
        end == Fold(step, [pool |-> p, cached |-> [t \in {} |-> {}], remove |-> {}],
                        Reverse(hashes))
    IN  Fold(LAMBDA q, t : IF t \in InPool(q) THEN removeRecursive(q, t) ELSE q,
                 end.pool, SetToSeq(end.remove))
-----------------------------------------------------------------------------
(* The limits on the pool as a whole.                                        *)
\* CompareTxMemPoolEntryByDescendantScore: the better of the entry's own fee
\* rate and that of the entry with its descendants, and the older first.
Score(p, t) ==
    LET e == p.mapTx[t]
    IN  IF e.descFees * Size[t] > e.fee * e.descSize
        THEN <<e.descFees, e.descSize>> ELSE <<e.fee, Size[t]>>
WorseThan(p, t, u) ==
    LET f1 == Score(p, t)[1] * Score(p, u)[2]
        f2 == Score(p, u)[1] * Score(p, t)[2]
    IN  f1 < f2 \/ (f1 = f2 /\ p.mapTx[t].time >= p.mapTx[u].time)
Worst(p) == CHOOSE t \in InPool(p) : \A u \in InPool(p) : WorseThan(p, t, u)

trackPackageRemoved(r, rate) ==
    IF rate > r.rate THEN [rate |-> rate, block |-> FALSE] ELSE r

\* Mutant: the fee asked for is that of the evicted package.
TrimToSize_NoIncrement(s) ==
    LET evict(r) ==
          LET t == Worst(r.pool)
              e == r.pool.mapTx[t]
          IN  [r EXCEPT !.pool = RemoveStaged(@, CalculateDescendants(@, {t}), FALSE),
                        !.rolling = trackPackageRemoved(@, FeePerK(e.descFees, e.descSize))]
    IN  Iterate(LAMBDA r : IF Sizes(InPool(r.pool)) > MaxSize THEN evict(r) ELSE r, s)

TrimToSize(s) ==
    LET evict(r) ==
          LET t == Worst(r.pool)
              e == r.pool.mapTx[t]
          IN  [r EXCEPT !.pool = RemoveStaged(@, CalculateDescendants(@, {t}), FALSE),
                        !.rolling = trackPackageRemoved(@, FeePerK(e.descFees, e.descSize) + IncrementalFee)]
    IN  Iterate(LAMBDA r : IF Sizes(InPool(r.pool)) > MaxSize THEN evict(r) ELSE r, s)

Expire(s) ==
    LET old == {t \in InPool(s.pool) : s.pool.mapTx[t].time < now - Expiry}
    IN  [s EXCEPT !.pool = RemoveStaged(@, CalculateDescendants(@, old), FALSE)]

LimitMempoolSize(s) == TrimToSize(Expire(s))
-----------------------------------------------------------------------------
(* MemPoolAccept::AcceptSingleTransaction, on chain c.                       *)
GetMinFee(r) ==
    IF ~r.block \/ r.rate = 0 THEN r.rate
    ELSE IF r.rate > IncrementalFee THEN r.rate ELSE IncrementalFee

\* The input is an output of a transaction in the pool, or an unspent coin.
HaveCoin(p, c, o) ==
    IF Txid(o) \in InPool(p) THEN o \in Outputs({Txid(o)}) ELSE o \in Coins(c)

ModifiedFee(s, t) == Fee[t] + Delta(s, t)

\* The ancestors are within the limits, or, for a transaction with one of them
\* at most, within limits that leave room for one more.
LimitsAllow(p, t) ==
    LET conflicts == ConflictsOf(p, t)
        limit == LimitDescendants + (IF Cardinality(conflicts) = 1 THEN 1 ELSE 0)
    IN  \/ WithinLimits(p, SearchAncestors(p, t), LimitAncestors, limit)
        \/ WithinLimits(p, SearchAncestors(p, t), 2, limit + 1)

CheckFeeRate(s, t) ==
    /\ GetMinFee(s.rolling) * Size[t] <= ModifiedFee(s, t) * K
    /\ MinRelayFee * Size[t] <= ModifiedFee(s, t) * K

PreChecks(s, c, t, bypass) ==
    LET p == s.pool
        conflicts == ConflictsOf(p, t)
    IN  /\ FinalAt[t] <= Len(c) + 1
        /\ t \notin InPool(p)
        /\ FullRbf \/ conflicts \subseteq Signals
        /\ \A o \in Inputs[t] : HaveCoin(p, c, o)
        /\ bypass \/ CheckFeeRate(s, t)
        /\ LimitsAllow(p, t)
        /\ SearchAncestors(p, t) \cap conflicts = {}

\* policy/rbf.cpp
PaysMoreThanConflicts(s, t, conflicts) ==
    \A u \in conflicts :
      FeePerK(ModifiedFee(s, t), Size[t]) > FeePerK(Modified(s.pool, u), Size[u])
GetEntriesForConflicts(p, conflicts) ==
    MapThenSumSet(LAMBDA u : p.mapTx[u].descCount, conflicts) <= MaxReplacements
HasNoNewUnconfirmed(p, t, conflicts) ==
    ParentsOf(p, t) \subseteq {Txid(o) : o \in Spent(conflicts)}
PaysForRBF(s, t, all) ==
    LET paid == ModifiedFee(s, t) - ModifiedFees(s.pool, all)
    IN  paid >= 0 /\ IncrementalFee * Size[t] <= paid * K

\* Mutant: only the fees of the direct conflicts count.
ReplacementChecks_DirectOnly(s, t) ==
    LET conflicts == ConflictsOf(s.pool, t)
    IN  /\ PaysMoreThanConflicts(s, t, conflicts)
        /\ GetEntriesForConflicts(s.pool, conflicts)
        /\ HasNoNewUnconfirmed(s.pool, t, conflicts)
        /\ PaysForRBF(s, t, conflicts)

ReplacementChecks(s, t) ==
    LET conflicts == ConflictsOf(s.pool, t)
    IN  /\ PaysMoreThanConflicts(s, t, conflicts)
        /\ GetEntriesForConflicts(s.pool, conflicts)
        /\ HasNoNewUnconfirmed(s.pool, t, conflicts)
        /\ PaysForRBF(s, t, CalculateDescendants(s.pool, conflicts))

\* Finalize: the conflicts go, the entry is added and the pool is limited.
Finalize(s, t, bypass) ==
    LET ancestors == SearchAncestors(s.pool, t)
        all == CalculateDescendants(s.pool, ConflictsOf(s.pool, t))
        added == [s EXCEPT !.pool = addUnchecked(RemoveStaged(@, all, FALSE), t, ancestors,
                                                 ModifiedFee(s, t), now)]
    IN  IF bypass THEN added ELSE LimitMempoolSize(added)

Accepted(s, c, t, bypass) ==
    PreChecks(s, c, t, bypass) /\ (ConflictsOf(s.pool, t) # {} => ReplacementChecks(s, t))
-----------------------------------------------------------------------------
(* Reorganisations.                                                          *)
\* DisconnectTip: `d` is [s, chain, queue]; the queue grows in front of the
\* block's transactions in reverse order, and gives up its first ones.
DisconnectTip(d) ==
    LET block == Last(d.chain)
        queue == d.queue \o Reverse(block)
        excess == IF Len(queue) > MaxDisconnected THEN Len(queue) - MaxDisconnected ELSE 0
    IN  [s |-> [d.s EXCEPT !.pool = Fold(removeRecursive, @, SubSeq(queue, 1, excess))],
         chain |-> Front(d.chain),
         queue |-> SubSeq(queue, excess + 1, Len(queue))]

ConnectTip(d, block) ==
    [s |-> removeForBlock(d.s, block), chain |-> Append(d.chain, block),
     queue |-> SelectSeq(d.queue, LAMBDA t : t \notin ToSet(block))]

\* Mutant: nothing is checked again.
removeForReorg_Unchecked(s, c) == s

\* removeForReorg: what is not final, or spends what is not mature, any more.
removeForReorg(s, c) ==
    LET early == {t \in InPool(s.pool) : FinalAt[t] > Len(c) + 1}
    IN  [s EXCEPT !.pool = RemoveStaged(@, CalculateDescendants(@, early), FALSE)]

MaybeUpdateMempoolForReorg(d, fAddToMempool) ==
    LET readd(r, t) ==
          IF fAddToMempool /\ Accepted(r.s, d.chain, t, TRUE)
          THEN [s |-> Finalize(r.s, t, TRUE), hashes |-> Append(r.hashes, t)]
          ELSE [r EXCEPT !.s.pool = removeRecursive(@, t)]
        back == Fold(readd, [s |-> d.s, hashes |-> <<>>], Reverse(d.queue))
        linked == [back.s EXCEPT !.pool = UpdateTransactionsFromBlock(@, back.hashes)]
    IN  LimitMempoolSize(removeForReorg(linked, d.chain))
-----------------------------------------------------------------------------
EmptyPool == [mapTx |-> [t \in {} |-> {}], mapNextTx |-> [o \in {} |-> {}]]

Init ==
    /\ pool = EmptyPool /\ mapDeltas = [t \in {} |-> 0]
    /\ rolling = [rate |-> 0, block |-> FALSE]
    /\ chain = <<>> /\ now = 0
    /\ scenario \in Scenarios

SetState(s) == pool' = s.pool /\ mapDeltas' = s.mapDeltas /\ rolling' = s.rolling

AcceptToMemoryPool(t) ==
    /\ Accepted(State, chain, t, FALSE)
    /\ SetState(Finalize(State, t, FALSE))
    /\ UNCHANGED <<chain, now>>

Start == [s |-> State, chain |-> chain, queue |-> <<>>]

\* ActivateBestChainStep when the new tip extends the chain.
ConnectNewTip(b) ==
    /\ Len(chain) < MaxHeight
    /\ LET d == ConnectTip(Start, b) IN SetState(d.s) /\ chain' = d.chain
    /\ UNCHANGED now

\* Sequences of at most n blocks that may follow chain c.
BranchesAfter(c, n) ==
    LET longer(B, k) ==
          B \cup UNION {{Append(bs, b) : b \in BlocksAfter(c \o bs)} : bs \in B}
    IN  Fold(longer, {<<>>}, [k \in 1..n |-> k])

\* ActivateBestChainStep that leaves n blocks.  The new branch may be short or
\* empty, because the most-work block was reached or a block failed; after an
\* error that is not the block's, fAddToMempool is false.  InvalidateBlock is
\* the case n = 1 with no new block; it sets fAddToMempool for ten blocks only.
Reorganise(n, fAddToMempool) ==
    LET gone == Fold(LAMBDA d, i : DisconnectTip(d), Start, [i \in 1..n |-> i])
    IN  /\ \E bs \in BranchesAfter(gone.chain, MaxNewBlocks) :
             LET d == Fold(ConnectTip, gone, bs)
             IN  /\ Len(d.chain) <= MaxHeight
                 /\ SetState(MaybeUpdateMempoolForReorg(d, fAddToMempool)) /\ chain' = d.chain
        /\ UNCHANGED now

PrioritiseTransaction(t, delta) ==
    /\ Delta(State, t) + delta \in -MaxDelta..MaxDelta
    /\ Cardinality(DOMAIN mapDeltas \cup {t}) <= MaxPrioritised
    /\ mapDeltas' = (t :> (Delta(State, t) + delta)) @@ mapDeltas
    /\ pool' = IF t \notin InPool(pool) THEN pool
               ELSE [pool EXCEPT !.mapTx = [u \in DOMAIN @ |->
                 IF u = t
                 THEN [@[u] EXCEPT !.fee = @ + delta, !.ancFees = @ + delta, !.descFees = @ + delta]
                 ELSE IF u \in LinkedAncestors(pool, t)
                 THEN [@[u] EXCEPT !.descFees = @ + delta]
                 ELSE IF u \in CalculateDescendants(pool, {t})
                 THEN [@[u] EXCEPT !.ancFees = @ + delta] ELSE @[u]]]
    /\ UNCHANGED <<rolling, chain, now>>

\* What a call of GetMinFee makes of the rolling fee when time has passed.
DecayRollingFee ==
    /\ rolling.block /\ rolling.rate # 0
    /\ rolling' = [rolling EXCEPT !.rate = IF @ \div 2 < IncrementalFee \div 2 THEN 0 ELSE @ \div 2]
    /\ UNCHANGED <<pool, mapDeltas, chain, now>>

Tick == now < MaxTime /\ now' = now + 1 /\ UNCHANGED <<pool, mapDeltas, rolling, chain>>

Step ==
    \/ \E t \in Tx : AcceptToMemoryPool(t)
    \/ \E b \in BlocksAfter(chain) : ConnectNewTip(b)
    \/ \E n \in 1..Len(chain), add \in BOOLEAN : Reorganise(n, add)
    \/ \E t \in Tx, delta \in Deltas : PrioritiseTransaction(t, delta)
    \/ DecayRollingFee
    \/ Tick

Next == Step /\ UNCHANGED scenario

Spec == Init /\ [][Next]_vars
-----------------------------------------------------------------------------
(* Properties.                                                               *)
Entry == [parents : SUBSET Tx, children : SUBSET Tx, fee : Int, time : 0..MaxTime,
          ancCount : Nat, ancSize : Nat, ancFees : Int,
          descCount : Nat, descSize : Nat, descFees : Int]

\* Type invariant of the pool and of what is kept about it.
TypeOK ==
    /\ InPool(pool) \subseteq Tx
    /\ \A t \in InPool(pool) : pool.mapTx[t] \in Entry
    /\ \A o \in DOMAIN pool.mapNextTx : pool.mapNextTx[o] \in Tx
    /\ DOMAIN mapDeltas \subseteq Tx /\ rolling \in [rate : Nat, block : BOOLEAN]
    /\ now \in 0..MaxTime

\* What the entries and the spending index say agrees with the transactions: the
\* parents and children of an entry are the transactions of the pool it spends
\* from and that spend from it, mapNextTx has each input of the pool once
\* (CTxMemPool::check asserts both), whatever was added, removed or put back.
LinksExact ==
    /\ \A t \in InPool(pool) :
         /\ pool.mapTx[t].parents = ParentsOf(pool, t)
         /\ pool.mapTx[t].children = {u \in InPool(pool) : t \in ParentsOf(pool, u)}
    /\ DOMAIN pool.mapNextTx = Spent(InPool(pool))
    /\ \A t \in InPool(pool) : \A o \in Inputs[t] : pool.mapNextTx[o] = t

\* The closure of the true parent relation, independent of the links.
TrueAncestors(t) ==
    LET up(S) == {Txid(o) : o \in Spent(S)} \cap InPool(pool)
    IN  Closure(up({t}), up)

\* The cached totals are those of the graph: an entry's fee is the transaction's
\* with its delta, and count, size and fees with ancestors and with descendants
\* are the sums over them (CTxMemPool::check recomputes the ancestors' and
\* bounds the descendants').
TotalsExact ==
    \A t \in InPool(pool) :
      LET e == pool.mapTx[t]
          anc == TrueAncestors(t) \cup {t}
          desc == {u \in InPool(pool) : t \in TrueAncestors(u)} \cup {t}
      IN  /\ e.fee = ModifiedFee(State, t)
          /\ e.ancCount = Cardinality(anc) /\ e.ancSize = Sizes(anc)
          /\ e.ancFees = ModifiedFees(pool, anc)
          /\ e.descCount = Cardinality(desc) /\ e.descSize = Sizes(desc)
          /\ e.descFees = ModifiedFees(pool, desc)

\* Every transaction of the pool can still be mined after the tip, after those
\* of the pool it spends from: its inputs are unspent there, it is final, and
\* no other one of the pool spends the same (the asserts on HaveCoin and
\* CheckTxInputs of CTxMemPool::check).
PoolFitsChain ==
    /\ \A t \in InPool(pool) :
         /\ FinalAt[t] <= Len(chain) + 1
         /\ Inputs[t] \subseteq Coins(chain) \cup Outputs(InPool(pool))
    /\ \A t, u \in InPool(pool) : t # u => Inputs[t] \cap Inputs[u] = {}

\* No entry has more ancestors than m_limits allows, not even when a
\* reorganisation puts transactions under those already in the pool.
AncestorsWithinLimit == \A t \in InPool(pool) : pool.mapTx[t].ancCount <= LimitAncestors

\* The pool never holds more than m_max_size_bytes when an operation returns,
\* whichever of acceptance, a reorganisation or a block it was.
UsageBounded == Sizes(InPool(pool)) <= MaxSize

\* The asserts of CTxMemPool::check on the graph hold after every operation:
\* links, spending index and cached totals are those of the transactions.
PoolIsExact == TypeOK /\ LinksExact /\ TotalsExact

\* The pool could be mined after the tip as it is, and it stays within its
\* limits, after every acceptance, block and reorganisation.
PoolIsMinable == PoolFitsChain /\ AncestorsWithinLimit /\ UsageBounded

\* The pool is both: right about itself and right for the chain.
PoolIsRight == PoolIsExact /\ PoolIsMinable

\* A transaction that AcceptToMemoryPool added and lost again because the pool
\* is full would be refused if it were offered again at once: the fee the
\* eviction asks for is above what it pays.
NoChurn ==
    [][\A t \in Tx :
         /\ t \notin InPool(pool) \cup InPool(pool)'
         /\ rolling' # rolling \/ pool' # pool
         /\ UNCHANGED chain
         /\ AcceptToMemoryPool(t)
         => ~Accepted(State, chain, t, FALSE)']_vars

\* A replacement pays: when a transaction evicts conflicts and nothing else
\* leaves the pool, the fees of the pool grow by at least the incremental fee
\* for the replacement's size.
ReplacementPays ==
    [][\A t \in InPool(pool)' \ InPool(pool) :
         /\ UNCHANGED chain
         /\ ConflictsOf(pool, t) # {}
         /\ InPool(pool) \ InPool(pool)' = CalculateDescendants(pool, ConflictsOf(pool, t))
         => (ModifiedFees(pool, InPool(pool))' - ModifiedFees(pool, InPool(pool))) * K
              >= IncrementalFee * Size[t]]_vars
=============================================================================
