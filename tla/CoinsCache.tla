----------------------------- MODULE CoinsCache -----------------------------
(***************************************************************************)
(* The stack of coins views of one chain state (coins.cpp, txdb.cpp):      *)
(*   db    CCoinsViewDB, the coins database;                               *)
(*   tip   CCoinsViewCache CoinsTip(), whose base is db;                   *)
(*   view  the CCoinsViewCache that ConnectTip, DisconnectTip, the mempool *)
(*         and the verifier open on the tip for one block or transaction.  *)
(* A cache entry holds a coin (or Spent) with the flags DIRTY and FRESH.   *)
(* All of it runs under cs_main, so each operation is one step.            *)
(***************************************************************************)
EXTENDS Integers, FiniteSetsExt

CONSTANTS
    OutPoint,
    Coin,                \* coins with a spendable script
    Spent,               \* Coin::IsSpent(): the null output
    NoEntry,             \* cacheCoins.find() = end()
    Block,
    NullBlock,           \* uint256::IsNull()
    DynamicMemoryUsage   \* of a coin's script

Flag == {"DIRTY", "FRESH"}
CacheEntry == [coin : Coin \cup {Spent}, flags : SUBSET Flag]

ASSUME CoinAssumption ==
    /\ Spent \notin Coin
    /\ NoEntry \notin CacheEntry
    /\ NullBlock \notin Block

VARIABLES
    db, dbBest,
    tip, tipBest, tipUsage,
    view, viewBest, viewUsage,
    open                 \* is the view alive?

dbVars   == <<db, dbBest>>
tipVars  == <<tip, tipBest, tipUsage>>
viewVars == <<view, viewBest, viewUsage, open>>
vars     == <<db, dbBest, tip, tipBest, tipUsage,
              view, viewBest, viewUsage, open>>

CCoinsMap   == [OutPoint -> CacheEntry \cup {NoEntry}]
EmptyCache  == [o \in OutPoint |-> NoEntry]
CoinMap     == [OutPoint -> Coin \cup {Spent}]

TypeOK ==
    /\ db \in CoinMap
    /\ dbBest \in Block \cup {NullBlock}
    /\ tip \in CCoinsMap
    /\ tipBest \in Block \cup {NullBlock}
    /\ view \in CCoinsMap
    /\ viewBest \in Block \cup {NullBlock}
    /\ open \in BOOLEAN

-----------------------------------------------------------------------------
(* Lookup.                                                                 *)

Dirty(e) == e # NoEntry /\ "DIRTY" \in e.flags
Fresh(e) == e # NoEntry /\ "FRESH" \in e.flags
Clean(e) == e # NoEntry /\ e.flags = {}

Usage(c) == IF c = Spent THEN 0 ELSE DynamicMemoryUsage[c]
EntryUsage(e) == IF e = NoEntry THEN 0 ELSE Usage(e.coin)

\* The map a reader of a cache sees: the entry if there is one, else the base.
GetCoin(cache, base) ==
    [o \in OutPoint |-> IF cache[o] = NoEntry THEN base[o] ELSE cache[o].coin]

TipCoins  == GetCoin(tip, db)
ViewCoins == GetCoin(view, TipCoins)

\* Whether a lookup copies the coin up from the base. The base answers only
\* for coins that are unspent, so the copy is never born spent.
Fetches(cache, base, o) == cache[o] = NoEntry /\ base[o] # Spent

FetchCoin(cache, base, o) ==
    IF Fetches(cache, base, o)
    THEN [cache EXCEPT ![o] = [coin |-> base[o], flags |-> {}]]
    ELSE cache

FetchUsage(cache, base, o) ==
    IF Fetches(cache, base, o) THEN Usage(base[o]) ELSE 0

\* A lookup through the view asks the tip, and the tip the database, only
\* when the upper cache has no entry.
FetchThroughTip(o) ==
    IF view[o] = NoEntry
    THEN /\ tip' = FetchCoin(tip, db, o)
         /\ tipUsage' = tipUsage + FetchUsage(tip, db, o)
    ELSE UNCHANGED <<tip, tipUsage>>

AccessTip(o) ==
    /\ tip' = FetchCoin(tip, db, o)
    /\ tipUsage' = tipUsage + FetchUsage(tip, db, o)
    /\ UNCHANGED <<db, dbBest, tipBest, view, viewBest, viewUsage, open>>

AccessCoin(o) ==
    /\ open
    /\ FetchThroughTip(o)
    /\ view' = FetchCoin(view, TipCoins, o)
    /\ viewUsage' = viewUsage + FetchUsage(view, TipCoins, o)
    /\ UNCHANGED <<db, dbBest, tipBest, viewBest, open>>

\* hashBlock is read from the base the first time it is asked for, and again
\* as long as the base has none.
BestOf(best, baseBest) == IF best = NullBlock THEN baseBest ELSE best

GetBestBlock ==
    /\ viewBest = NullBlock
    /\ tipBest' = BestOf(tipBest, dbBest)
    /\ viewBest' = IF open THEN tipBest' ELSE viewBest
    /\ UNCHANGED <<db, dbBest, tip, tipUsage, view, viewUsage, open>>

-----------------------------------------------------------------------------
(* Changes to the view.                                                    *)

OpenView ==
    /\ ~open
    /\ open' = TRUE
    /\ UNCHANGED <<db, dbBest, tip, tipBest, tipUsage, view, viewBest, viewUsage>>

\* The view goes out of scope; what was not flushed is lost with it.
CloseView ==
    /\ open
    /\ open' = FALSE
    /\ view' = EmptyCache
    /\ viewBest' = NullBlock
    /\ viewUsage' = 0
    /\ UNCHANGED <<db, dbBest, tip, tipBest, tipUsage>>

SetBestBlock(b) ==
    /\ open
    /\ viewBest' = b
    /\ UNCHANGED <<db, dbBest, tip, tipBest, tipUsage, view, viewUsage, open>>

\* Mutant: FRESH is set without looking at DIRTY.
AddedEntryAlwaysFresh(e, c, possible_overwrite) ==
    [coin |-> c,
     flags |-> (IF e = NoEntry THEN {} ELSE e.flags) \cup {"DIRTY"}
               \cup (IF possible_overwrite THEN {} ELSE {"FRESH"})]

\* The entry AddCoin leaves. Without an overwrite the coin is FRESH unless
\* the entry is DIRTY: a dirty spent entry may hide a coin of the base.
AddedEntry(e, c, possible_overwrite) ==
    LET old   == IF e = NoEntry THEN {} ELSE e.flags
        fresh == ~possible_overwrite /\ ~Dirty(e)
    IN [coin |-> c,
        flags |-> old \cup {"DIRTY"} \cup (IF fresh THEN {"FRESH"} ELSE {})]

\* Callers pass possible_overwrite = FALSE only for an outpoint that holds no
\* coin: ConnectBlock after the BIP30 test or for a new txid, ApplyTxInUndo
\* after HaveCoin. Hence AddCoin's own throw is out of reach. A coin whose
\* script is unspendable makes AddCoin return before it changes anything.
AddCoin(o, c, possible_overwrite) ==
    /\ open
    /\ possible_overwrite \/ ViewCoins[o] = Spent
    /\ view' = [view EXCEPT ![o] = AddedEntry(@, c, possible_overwrite)]
    /\ viewUsage' = viewUsage - EntryUsage(view[o]) + Usage(c)
    /\ UNCHANGED <<db, dbBest, tip, tipBest, tipUsage, viewBest, open>>

\* Mutant: every spent entry is erased.
SpentEntryErased(e) == NoEntry

\* A FRESH entry is erased, any other is kept, spent and DIRTY, so that the
\* deletion reaches the base.
SpentEntry(e) ==
    IF e = NoEntry \/ Fresh(e) THEN NoEntry
    ELSE [coin |-> Spent, flags |-> e.flags \cup {"DIRTY"}]

SpendCoin(o) ==
    LET fetched == FetchCoin(view, TipCoins, o) IN
    /\ open
    /\ FetchThroughTip(o)
    /\ view' = [fetched EXCEPT ![o] = SpentEntry(@)]
    /\ viewUsage' = viewUsage + FetchUsage(view, TipCoins, o) - EntryUsage(fetched[o])
    /\ UNCHANGED <<db, dbBest, tipBest, viewBest, open>>

-----------------------------------------------------------------------------
(* Flushing the view into the tip: CCoinsViewCache::BatchWrite.            *)

\* The throw "FRESH flag misapplied to coin that exists in parent cache".
Misapplied(c, p) == Dirty(c) /\ Fresh(c) /\ p # NoEntry /\ p.coin # Spent

\* The parent's entry after the child's entry c is written over p.
InsertedEntry(c) ==
    IF Fresh(c) /\ c.coin = Spent THEN NoEntry
    ELSE [coin |-> c.coin, flags |-> {"DIRTY"} \cup (c.flags \cap {"FRESH"})]

OverwrittenEntry(c, p) ==
    IF Fresh(p) /\ c.coin = Spent THEN NoEntry
    ELSE [coin |-> c.coin, flags |-> p.flags \cup {"DIRTY"}]

MergedEntry(c, p) ==
    IF ~Dirty(c) THEN p
    ELSE IF p = NoEntry THEN InsertedEntry(c) ELSE OverwrittenEntry(c, p)

\* Mutant: the memory of the entry that is overwritten is not subtracted.
MergedUsageGrows(c, p) == IF ~Dirty(c) THEN 0 ELSE Usage(c.coin)

\* What BatchWrite adds to the parent's cachedCoinsUsage for one entry.
MergedUsage(c, p) ==
    IF ~Dirty(c) THEN 0 ELSE Usage(c.coin) - EntryUsage(p)

FlushedUsage ==
    MapThenSumSet(LAMBDA o : MergedUsage(view[o], tip[o]), OutPoint)

\* ConnectBlock and DisconnectBlock have read or set the view's best block
\* before their caller flushes it.
FlushView ==
    /\ open
    /\ viewBest # NullBlock
    /\ \A o \in OutPoint : ~Misapplied(view[o], tip[o])
    /\ tip' = [o \in OutPoint |-> MergedEntry(view[o], tip[o])]
    /\ tipUsage' = tipUsage + FlushedUsage
    /\ tipBest' = viewBest
    /\ view' = EmptyCache
    /\ viewUsage' = 0
    /\ UNCHANGED <<db, dbBest, viewBest, open>>

-----------------------------------------------------------------------------
(* Operations on the tip.                                                  *)

\* CCoinsViewDB::BatchWrite, seen as one write. FlushStateToDisk asks for the
\* best block, and does nothing when there is none yet.
FlushTip ==
    /\ ~open
    /\ BestOf(tipBest, dbBest) # NullBlock
    /\ db' = [o \in OutPoint |-> IF Dirty(tip[o]) THEN tip[o].coin ELSE db[o]]
    /\ dbBest' = BestOf(tipBest, dbBest)
    /\ tip' = EmptyCache
    /\ tipUsage' = 0
    /\ tipBest' = BestOf(tipBest, dbBest)
    /\ UNCHANGED viewVars

\* The mempool drops a coin it fetched for a transaction it did not keep.
Uncache(o) ==
    /\ Clean(tip[o])
    /\ tip' = [tip EXCEPT ![o] = NoEntry]
    /\ tipUsage' = tipUsage - EntryUsage(tip[o])
    /\ UNCHANGED <<db, dbBest, tipBest, view, viewBest, viewUsage, open>>

\* Loading a UTXO snapshot: each outpoint once, into a cache without it.
EmplaceCoinInternalDANGER(o, c) ==
    /\ ~open
    /\ tip[o] = NoEntry
    /\ tip' = [tip EXCEPT ![o] = [coin |-> c, flags |-> {"DIRTY"}]]
    /\ tipUsage' = tipUsage + Usage(c)
    /\ UNCHANGED <<db, dbBest, tipBest, view, viewBest, viewUsage, open>>

-----------------------------------------------------------------------------
Init ==
    /\ db = [o \in OutPoint |-> Spent]
    /\ dbBest = NullBlock
    /\ tip = EmptyCache /\ tipBest = NullBlock /\ tipUsage = 0
    /\ view = EmptyCache /\ viewBest = NullBlock /\ viewUsage = 0
    /\ open = FALSE

Next ==
    \/ OpenView
    \/ CloseView
    \/ GetBestBlock
    \/ FlushView
    \/ FlushTip
    \/ \E b \in Block : SetBestBlock(b)
    \/ \E o \in OutPoint :
        \/ AccessTip(o)
        \/ AccessCoin(o)
        \/ SpendCoin(o)
        \/ Uncache(o)
    \/ \E o \in OutPoint, c \in Coin :
        \/ AddCoin(o, c, TRUE)
        \/ AddCoin(o, c, FALSE)
        \/ EmplaceCoinInternalDANGER(o, c)

Spec == Init /\ [][Next]_vars

-----------------------------------------------------------------------------
(* Properties.                                                             *)

\* What the flags of a cache mean with respect to the map its base shows.
\* An entry without flags repeats an unspent coin of the base; FRESH says the
\* base shows no coin there; a spent entry is kept only to be written down.
FlagsSound(cache, base) ==
    \A o \in OutPoint : cache[o] # NoEntry =>
        /\ Clean(cache[o]) => cache[o].coin = base[o] /\ base[o] # Spent
        /\ Fresh(cache[o]) => Dirty(cache[o]) /\ base[o] = Spent
        /\ cache[o].coin = Spent => cache[o].flags = {"DIRTY"}

\* The flags of the tip are sound for the database and those of the view for
\* the tip, after any interleaving of lookups, writes, flushes and uncachings.
FlagInv == FlagsSound(tip, db) /\ FlagsSound(view, TipCoins)

\* CCoinsViewCache::BatchWrite never reaches its throw "FRESH flag misapplied
\* to coin that exists in parent cache".
FlushNeverThrows == \A o \in OutPoint : ~Misapplied(view[o], tip[o])

\* A view that is not alive hides nothing.
ClosedIsEmpty == ~open => view = EmptyCache /\ viewBest = NullBlock

IInv == TypeOK /\ FlagInv /\ ClosedIsEmpty

\* FRESH and DIRTY mean what they say at both levels, whatever operations were
\* interleaved on them, and so a flush never meets the flags it throws at.
CacheIsSound == IInv /\ FlushNeverThrows

\* cachedCoinsUsage, kept by increments and decrements spread over six
\* operations, is the memory the entries of the cache really use.
UsageExact ==
    /\ tipUsage = MapThenSumSet(LAMBDA o : EntryUsage(tip[o]), OutPoint)
    /\ viewUsage = MapThenSumSet(LAMBDA o : EntryUsage(view[o]), OutPoint)

\* The two caches over the database implement three plain maps: a flush moves
\* the whole view, a dropped view leaves no trace, a lookup changes nothing,
\* and a flush of the tip makes the database equal to what the tip showed.
Abstract == INSTANCE UtxoSet WITH
    work <- ViewCoins, workBest <- BestOf(viewBest, BestOf(tipBest, dbBest)),
    ledger <- TipCoins, ledgerBest <- BestOf(tipBest, dbBest),
    durable <- db, durableBest <- dbBest

RefinesUtxoSet == Abstract!Spec

\* Every operation of the caches has exactly the effect its name promises on
\* the maps its users see: a spend removes the coin even when only the
\* database holds it, an addition shows the coin, a flush moves everything.
OperationsCorrespond ==
    [][/\ \A o \in OutPoint : SpendCoin(o) => Abstract!Delete(o)
       /\ \A o \in OutPoint, c \in Coin, po \in BOOLEAN :
            AddCoin(o, c, po) => Abstract!Put(o, c)
       /\ FlushView => Abstract!Commit
       /\ CloseView => Abstract!Abort
       /\ FlushTip => Abstract!Sync]_vars

\* To its users the stack of caches is the plain maps: nothing else happens to
\* them, and what an operation is called for does happen.
ActsAsMap == RefinesUtxoSet /\ OperationsCorrespond
=============================================================================
