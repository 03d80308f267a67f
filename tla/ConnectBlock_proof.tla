------------------------- MODULE ConnectBlock_proof --------------------------
(***************************************************************************)
(* Proofs about the two components ConnectBlock works with.                *)
(*                                                                         *)
(* The coins caches: their flags are sound for every set of outpoints,     *)
(* coins and blocks; hence a flush never throws, and the two caches        *)
(* implement plain maps.                                                   *)
(*                                                                         *)
(* The check queue: it is safe for any number of workers and checks,       *)
(* provided it is not stopped while a block is being connected.            *)
(***************************************************************************)
EXTENDS CoinsCache, CheckQueue, FiniteSetTheorems, TLAPS

\* An entry AddCoin leaves is DIRTY and unspent, and FRESH only if it was
\* FRESH before or was not DIRTY and no overwrite was allowed.
LEMMA AddedEntryFacts ==
    ASSUME NEW e \in CacheEntry \cup {NoEntry}, NEW c \in Coin,
           NEW po \in BOOLEAN
    PROVE  /\ AddedEntry(e, c, po) \in CacheEntry
           /\ AddedEntry(e, c, po).coin = c
           /\ "DIRTY" \in AddedEntry(e, c, po).flags
           /\ "FRESH" \in AddedEntry(e, c, po).flags =>
                Fresh(e) \/ (~po /\ ~Dirty(e))
  BY CoinAssumption DEF AddedEntry, CacheEntry, Flag, Dirty, Fresh

\* The entry SpendCoin leaves, when there is one, is spent and DIRTY.
LEMMA SpentEntryFacts ==
    ASSUME NEW e \in CacheEntry \cup {NoEntry}
    PROVE  /\ SpentEntry(e) \in CacheEntry \cup {NoEntry}
           /\ SpentEntry(e) = NoEntry <=> e = NoEntry \/ Fresh(e)
           /\ SpentEntry(e) # NoEntry =>
                /\ SpentEntry(e).coin = Spent
                /\ SpentEntry(e).flags = e.flags \cup {"DIRTY"}
  BY CoinAssumption DEF SpentEntry, CacheEntry, Flag, Fresh

\* What a reader sees is a coin map.
LEMMA GetCoinType ==
    ASSUME NEW cache \in CCoinsMap, NEW base \in CoinMap
    PROVE  GetCoin(cache, base) \in CoinMap
  BY DEF GetCoin, CCoinsMap, CoinMap, CacheEntry

\* A lookup changes neither the map a reader sees nor the soundness of the
\* flags.
LEMMA FetchFacts ==
    ASSUME NEW cache \in CCoinsMap, NEW base \in CoinMap, NEW o \in OutPoint,
           FlagsSound(cache, base)
    PROVE  /\ FetchCoin(cache, base, o) \in CCoinsMap
           /\ GetCoin(FetchCoin(cache, base, o), base) = GetCoin(cache, base)
           /\ FlagsSound(FetchCoin(cache, base, o), base)
  BY CoinAssumption DEF FetchCoin, Fetches, GetCoin, CCoinsMap, CoinMap,
     FlagsSound, Clean, Fresh, Dirty, CacheEntry, Flag

\* Flushing a view with sound flags into a parent with sound flags leaves the
\* parent sound and showing exactly what the view showed.
LEMMA MergeFacts ==
    ASSUME NEW child \in CCoinsMap, NEW parent \in CCoinsMap,
           NEW base \in CoinMap,
           FlagsSound(parent, base),
           FlagsSound(child, GetCoin(parent, base)),
           NEW merged,
           merged = [o \in OutPoint |-> MergedEntry(child[o], parent[o])]
    PROVE  /\ merged \in CCoinsMap
           /\ GetCoin(merged, base) = GetCoin(child, GetCoin(parent, base))
           /\ FlagsSound(merged, base)
<1> DEFINE Below == GetCoin(parent, base)
<1>1. ASSUME NEW o \in OutPoint
      PROVE  /\ merged[o] \in CacheEntry \cup {NoEntry}
             /\ (IF merged[o] = NoEntry THEN base[o] ELSE merged[o].coin)
                  = (IF child[o] = NoEntry THEN Below[o] ELSE child[o].coin)
             /\ merged[o] # NoEntry =>
                  /\ Clean(merged[o]) => merged[o].coin = base[o] /\ base[o] # Spent
                  /\ Fresh(merged[o]) => Dirty(merged[o]) /\ base[o] = Spent
                  /\ merged[o].coin = Spent => merged[o].flags = {"DIRTY"}
  <2> DEFINE c == child[o]
             p == parent[o]
  <2>1. /\ c \in CacheEntry \cup {NoEntry}
        /\ p \in CacheEntry \cup {NoEntry}
        /\ base[o] \in Coin \cup {Spent}
        /\ merged[o] = MergedEntry(c, p)
        /\ Below[o] = IF p = NoEntry THEN base[o] ELSE p.coin
    BY DEF CCoinsMap, CoinMap, GetCoin
  <2>2. p # NoEntry =>
          /\ Clean(p) => p.coin = base[o] /\ base[o] # Spent
          /\ Fresh(p) => Dirty(p) /\ base[o] = Spent
          /\ p.coin = Spent => p.flags = {"DIRTY"}
    BY DEF FlagsSound
  <2>3. c # NoEntry =>
          /\ Clean(c) => c.coin = Below[o] /\ Below[o] # Spent
          /\ Fresh(c) => Dirty(c) /\ Below[o] = Spent
          /\ c.coin = Spent => c.flags = {"DIRTY"}
    BY DEF FlagsSound
  <2> HIDE DEF c, p, Below
  <2>4. CASE ~Dirty(c)
    <3>1. merged[o] = p
      BY <2>1, <2>4 DEF MergedEntry, InsertedEntry, OverwrittenEntry
    <3>2. c # NoEntry => Clean(c)
      BY <2>1, <2>3, <2>4 DEF CacheEntry, Flag, Dirty, Clean, Fresh
    <3> QED BY <2>1, <2>2, <2>3, <3>1, <3>2 DEF c
  <2>5. CASE Dirty(c) /\ p = NoEntry
    <3>1. c \in CacheEntry /\ "DIRTY" \in c.flags /\ c # NoEntry
      BY <2>1, <2>5 DEF Dirty
    <3>2. ~(Fresh(c) /\ c.coin = Spent)
      BY <3>1, <2>3 DEF Fresh
    <3>3. merged[o] = [coin |-> c.coin, flags |-> {"DIRTY"} \cup (c.flags \cap {"FRESH"})]
      BY <2>1, <2>5, <3>2 DEF MergedEntry, InsertedEntry, OverwrittenEntry
    <3> QED
      BY <2>1, <2>3, <2>5, <3>1, <3>3, CoinAssumption
      DEF c, CacheEntry, Flag, Dirty, Clean, Fresh
  <2>6. CASE Dirty(c) /\ p # NoEntry /\ Fresh(p) /\ c.coin = Spent
    <3>1. merged[o] = NoEntry
      BY <2>1, <2>6 DEF MergedEntry, InsertedEntry, OverwrittenEntry
    <3> QED BY <2>1, <2>2, <2>6, <3>1 DEF c, Dirty
  <2>7. CASE Dirty(c) /\ p # NoEntry /\ ~(Fresh(p) /\ c.coin = Spent)
    <3>1. c \in CacheEntry /\ p \in CacheEntry /\ c # NoEntry
      BY <2>1, <2>7 DEF Dirty
    <3>2. merged[o] = [coin |-> c.coin, flags |-> p.flags \cup {"DIRTY"}]
      BY <2>1, <2>7 DEF MergedEntry, InsertedEntry, OverwrittenEntry
    <3> QED
      BY <2>1, <2>2, <2>7, <3>1, <3>2, CoinAssumption
      DEF c, CacheEntry, Flag, Dirty, Clean, Fresh
  <2> QED BY <2>4, <2>5, <2>6, <2>7
<1>2. merged \in CCoinsMap
  BY <1>1 DEF CCoinsMap
<1>3. GetCoin(merged, base) = GetCoin(child, GetCoin(parent, base))
  BY <1>1 DEF GetCoin
<1>4. FlagsSound(merged, base)
  BY <1>1 DEF FlagsSound
<1> QED BY <1>2, <1>3, <1>4

-----------------------------------------------------------------------------
(* The inductive invariant.                                                *)

\* Empty caches over an empty database satisfy the invariant.
LEMMA InitIInv == Init => IInv
  BY CoinAssumption DEF Init, IInv, TypeOK, FlagInv, FlagsSound, ClosedIsEmpty,
     EmptyCache, CCoinsMap, CoinMap

\* A lookup through the view leaves the tip sound and what it shows unchanged.
LEMMA FetchThroughTipFacts ==
    ASSUME IInv, NEW o \in OutPoint, FetchThroughTip(o), UNCHANGED db
    PROVE  /\ tip' \in CCoinsMap
           /\ FlagsSound(tip, db)'
           /\ TipCoins' = TipCoins
<1>1. tip \in CCoinsMap /\ db \in CoinMap /\ FlagsSound(tip, db)
  BY DEF IInv, TypeOK, FlagInv
<1>2. CASE view[o] = NoEntry
  <2>1. tip' = FetchCoin(tip, db, o) /\ db' = db
    BY <1>2 DEF FetchThroughTip
  <2>2. /\ FetchCoin(tip, db, o) \in CCoinsMap
        /\ GetCoin(FetchCoin(tip, db, o), db) = GetCoin(tip, db)
        /\ FlagsSound(FetchCoin(tip, db, o), db)
    BY <1>1, FetchFacts
  <2> QED BY <2>1, <2>2 DEF TipCoins, FlagsSound, GetCoin
<1>3. CASE view[o] # NoEntry
  BY <1>1, <1>3 DEF FetchThroughTip, TipCoins, FlagsSound, GetCoin
<1> QED BY <1>2, <1>3

\* A lookup in the tip cache preserves the invariant and changes no coin.
LEMMA AccessTipFacts ==
    ASSUME IInv, NEW o \in OutPoint, AccessTip(o)
    PROVE  IInv' /\ TipCoins' = TipCoins /\ ViewCoins' = ViewCoins
<1>1. /\ FetchCoin(tip, db, o) \in CCoinsMap
      /\ GetCoin(FetchCoin(tip, db, o), db) = GetCoin(tip, db)
      /\ FlagsSound(FetchCoin(tip, db, o), db)
  BY FetchFacts DEF IInv, TypeOK, FlagInv
<1>2. tip' \in CCoinsMap /\ FlagsSound(tip, db)' /\ TipCoins' = TipCoins
  BY <1>1 DEF AccessTip, TipCoins, FlagsSound, GetCoin
<1>3. ViewCoins' = ViewCoins /\ FlagsSound(view, TipCoins)'
  BY <1>2 DEF IInv, FlagInv, AccessTip, ViewCoins, GetCoin, FlagsSound
<1> QED BY <1>2, <1>3 DEF IInv, TypeOK, FlagInv, ClosedIsEmpty, AccessTip

\* AccessCoin of the view preserves the invariant and changes no coin.
LEMMA AccessCoinFacts ==
    ASSUME IInv, NEW o \in OutPoint, AccessCoin(o)
    PROVE  IInv' /\ TipCoins' = TipCoins /\ ViewCoins' = ViewCoins
<1>1. tip' \in CCoinsMap /\ FlagsSound(tip, db)' /\ TipCoins' = TipCoins
  BY FetchThroughTipFacts DEF AccessCoin
<1>2. TipCoins \in CoinMap
  BY GetCoinType DEF IInv, TypeOK, TipCoins
<1>3. /\ FetchCoin(view, TipCoins, o) \in CCoinsMap
      /\ GetCoin(FetchCoin(view, TipCoins, o), TipCoins) = GetCoin(view, TipCoins)
      /\ FlagsSound(FetchCoin(view, TipCoins, o), TipCoins)
  BY <1>2, FetchFacts DEF IInv, TypeOK, FlagInv
<1>4. /\ view' \in CCoinsMap
      /\ ViewCoins' = ViewCoins
      /\ FlagsSound(view, TipCoins)'
  BY <1>1, <1>3 DEF AccessCoin, ViewCoins, GetCoin, FlagsSound
<1> QED BY <1>1, <1>4 DEF IInv, TypeOK, FlagInv, ClosedIsEmpty, AccessCoin

\* AddCoin preserves the invariant and sets one coin of the view.
LEMMA AddCoinFacts ==
    ASSUME IInv, NEW o \in OutPoint, NEW c \in Coin, NEW po \in BOOLEAN,
           AddCoin(o, c, po)
    PROVE  /\ IInv'
           /\ TipCoins' = TipCoins
           /\ ViewCoins' = [ViewCoins EXCEPT ![o] = c]
<1> DEFINE newEntry == AddedEntry(view[o], c, po)
<1>1. /\ view \in CCoinsMap /\ view[o] \in CacheEntry \cup {NoEntry}
      /\ TipCoins \in CoinMap
      /\ view' = [view EXCEPT ![o] = newEntry]
  BY GetCoinType DEF IInv, TypeOK, CCoinsMap, TipCoins, AddCoin
<1>2. /\ newEntry \in CacheEntry
      /\ newEntry.coin = c
      /\ "DIRTY" \in newEntry.flags
      /\ "FRESH" \in newEntry.flags => Fresh(view[o]) \/ (~po /\ ~Dirty(view[o]))
  BY <1>1, AddedEntryFacts
<1>3. TipCoins' = TipCoins
  BY DEF AddCoin, TipCoins, GetCoin
<1>4. "FRESH" \in newEntry.flags => TipCoins[o] = Spent
  <2>1. CASE Fresh(view[o])
    BY <2>1 DEF IInv, FlagInv, FlagsSound, Fresh
  <2>2. CASE ~po /\ ~Dirty(view[o])
    <3>1. ViewCoins[o] = Spent
      BY <2>2 DEF AddCoin
    <3>2. view[o] = NoEntry \/ view[o].coin = Spent
      BY <3>1 DEF ViewCoins, GetCoin
    <3>3. view[o] # NoEntry => "DIRTY" \in view[o].flags
      BY <3>2 DEF IInv, FlagInv, FlagsSound
    <3>4. view[o] = NoEntry
      BY <2>2, <3>3 DEF Dirty
    <3> QED BY <3>1, <3>4 DEF ViewCoins, GetCoin
  <2> QED BY <1>2, <2>1, <2>2
<1> HIDE DEF newEntry
<1>5. view' \in CCoinsMap
  BY <1>1, <1>2 DEF CCoinsMap
<1>6. ViewCoins' = [ViewCoins EXCEPT ![o] = c]
  BY <1>1, <1>2, <1>3, CoinAssumption DEF ViewCoins, GetCoin, CCoinsMap
<1>7. FlagsSound(view', TipCoins)
  BY <1>1, <1>2, <1>4, CoinAssumption
  DEF IInv, FlagInv, FlagsSound, CCoinsMap, CoinMap, Clean, Fresh, Dirty
<1>8. FlagInv'
  BY <1>3, <1>7 DEF IInv, FlagInv, FlagsSound, AddCoin
<1> QED BY <1>3, <1>5, <1>6, <1>8 DEF IInv, TypeOK, ClosedIsEmpty, AddCoin

\* SpendCoin preserves the invariant and removes one coin of the view.
LEMMA SpendCoinFacts ==
    ASSUME IInv, NEW o \in OutPoint, SpendCoin(o)
    PROVE  /\ IInv'
           /\ TipCoins' = TipCoins
           /\ ViewCoins' = [ViewCoins EXCEPT ![o] = Spent]
<1> DEFINE fetched == FetchCoin(view, TipCoins, o)
           spent == SpentEntry(fetched[o])
<1>1. tip' \in CCoinsMap /\ FlagsSound(tip, db)' /\ TipCoins' = TipCoins
  BY FetchThroughTipFacts DEF SpendCoin
<1>2. TipCoins \in CoinMap
  BY GetCoinType DEF IInv, TypeOK, TipCoins
<1>3. /\ fetched \in CCoinsMap
      /\ GetCoin(fetched, TipCoins) = ViewCoins
      /\ FlagsSound(fetched, TipCoins)
      /\ fetched[o] = NoEntry => TipCoins[o] = Spent
  <2>1. view \in CCoinsMap /\ FlagsSound(view, TipCoins)
    BY DEF IInv, TypeOK, FlagInv
  <2>2. fetched[o] = NoEntry => TipCoins[o] = Spent
    BY <2>1, CoinAssumption, <1>2
    DEF FetchCoin, Fetches, CCoinsMap, CoinMap, CacheEntry
  <2> QED BY <1>2, <2>1, <2>2, FetchFacts DEF ViewCoins
<1>4. view' = [fetched EXCEPT ![o] = spent]
  BY DEF SpendCoin
<1> HIDE DEF fetched
<1>5. /\ spent \in CacheEntry \cup {NoEntry}
      /\ spent = NoEntry <=> fetched[o] = NoEntry \/ Fresh(fetched[o])
      /\ spent # NoEntry => /\ spent.coin = Spent
                            /\ spent.flags = fetched[o].flags \cup {"DIRTY"}
  BY <1>3, SpentEntryFacts DEF CCoinsMap
<1>6. spent = NoEntry => TipCoins[o] = Spent
  BY <1>3, <1>5 DEF FlagsSound, Fresh
<1>7. spent # NoEntry => spent.flags = {"DIRTY"}
  BY <1>3, <1>5, CoinAssumption DEF Fresh, CCoinsMap, CacheEntry, Flag
<1> HIDE DEF spent
<1>8. view' \in CCoinsMap
  BY <1>3, <1>4, <1>5 DEF CCoinsMap
<1>9. GetCoin(view', TipCoins) = [ViewCoins EXCEPT ![o] = Spent]
  <2>1. GetCoin(fetched, TipCoins) = ViewCoins
    BY <1>3
  <2> QED BY <2>1, <1>3, <1>4, <1>5, <1>6 DEF GetCoin, CCoinsMap
<1>10. FlagsSound(view', TipCoins)
  BY <1>3, <1>4, <1>5, <1>7 DEF FlagsSound, CCoinsMap, Clean, Fresh, Dirty
<1>11. ViewCoins' = [ViewCoins EXCEPT ![o] = Spent] /\ FlagInv'
  BY <1>1, <1>9, <1>10 DEF ViewCoins, FlagInv, GetCoin, FlagsSound
<1> QED BY <1>1, <1>8, <1>11 DEF IInv, TypeOK, ClosedIsEmpty, SpendCoin

\* Flush of the view preserves the invariant and gives its coins to the tip.
LEMMA FlushViewFacts ==
    ASSUME IInv, FlushView
    PROVE  IInv' /\ TipCoins' = ViewCoins /\ ViewCoins' = ViewCoins
<1> DEFINE merged == [o \in OutPoint |-> MergedEntry(view[o], tip[o])]
<1>1. /\ merged \in CCoinsMap
      /\ GetCoin(merged, db) = GetCoin(view, GetCoin(tip, db))
      /\ FlagsSound(merged, db)
  BY MergeFacts DEF IInv, TypeOK, FlagInv, TipCoins
<1>2. tip' = merged /\ db' = db /\ view' = EmptyCache
  BY DEF FlushView
<1> HIDE DEF merged
<1>3. TipCoins' = ViewCoins
  BY <1>1, <1>2 DEF TipCoins, ViewCoins
<1>4. ViewCoins' = TipCoins'
  BY <1>2 DEF ViewCoins, TipCoins, GetCoin, EmptyCache
<1>5. FlagInv'
  BY <1>1, <1>2 DEF FlagInv, FlagsSound, EmptyCache
<1> QED
  BY <1>1, <1>2, <1>3, <1>4, <1>5
  DEF IInv, TypeOK, ClosedIsEmpty, FlushView, EmptyCache, CCoinsMap

\* Flush of the tip cache preserves the invariant and gives its coins to the database.
LEMMA FlushTipFacts ==
    ASSUME IInv, FlushTip
    PROVE  IInv' /\ db' = TipCoins /\ TipCoins' = TipCoins /\ ViewCoins' = ViewCoins
<1>1. /\ view = EmptyCache /\ view' = EmptyCache
      /\ db \in CoinMap /\ tip \in CCoinsMap
      /\ tip' = EmptyCache
      /\ db' = [o \in OutPoint |-> IF Dirty(tip[o]) THEN tip[o].coin ELSE db[o]]
  BY DEF IInv, ClosedIsEmpty, TypeOK, FlushTip, viewVars
<1>2. ASSUME NEW o \in OutPoint, ~Dirty(tip[o]), tip[o] # NoEntry
      PROVE  tip[o].coin = db[o]
  BY <1>1, <1>2 DEF IInv, FlagInv, FlagsSound, Dirty, Clean, Fresh, CCoinsMap,
     CacheEntry, Flag
<1>3. db' = TipCoins
  BY <1>1, <1>2 DEF TipCoins, GetCoin, Dirty
<1>4. db' \in CoinMap
  BY <1>1, <1>3, GetCoinType DEF TipCoins
<1>5. TipCoins' = db' /\ ViewCoins' = TipCoins' /\ ViewCoins = TipCoins
  BY <1>1, <1>4 DEF TipCoins, ViewCoins, GetCoin, EmptyCache, CoinMap
<1>6. FlagInv'
  BY <1>1 DEF FlagInv, FlagsSound, EmptyCache
<1>7. TypeOK'
  BY <1>1, <1>4 DEF IInv, TypeOK, FlushTip, BestOf, EmptyCache, CCoinsMap, viewVars
<1> QED
  BY <1>3, <1>5, <1>6, <1>7 DEF IInv, ClosedIsEmpty, FlushTip, viewVars

\* Uncache preserves the invariant and changes no coin.
LEMMA UncacheFacts ==
    ASSUME IInv, NEW o \in OutPoint, Uncache(o)
    PROVE  IInv' /\ TipCoins' = TipCoins /\ ViewCoins' = ViewCoins
<1>1. /\ tip \in CCoinsMap /\ db' = db /\ view' = view
      /\ tip' = [tip EXCEPT ![o] = NoEntry]
      /\ tip[o].coin = db[o]
  BY DEF IInv, TypeOK, FlagInv, FlagsSound, Uncache, Clean
<1>2. tip' \in CCoinsMap /\ FlagsSound(tip, db)' /\ TipCoins' = TipCoins
  BY <1>1 DEF IInv, FlagInv, FlagsSound, TipCoins, GetCoin, CCoinsMap
<1>3. ViewCoins' = ViewCoins /\ FlagsSound(view, TipCoins)'
  BY <1>1, <1>2 DEF IInv, FlagInv, ViewCoins, GetCoin, FlagsSound
<1> QED BY <1>2, <1>3 DEF IInv, TypeOK, FlagInv, ClosedIsEmpty, Uncache

\* EmplaceCoinInternalDANGER preserves the invariant and sets one coin.
LEMMA EmplaceFacts ==
    ASSUME IInv, NEW o \in OutPoint, NEW c \in Coin, EmplaceCoinInternalDANGER(o, c)
    PROVE  /\ IInv'
           /\ TipCoins' = [TipCoins EXCEPT ![o] = c]
           /\ ViewCoins = TipCoins
           /\ ViewCoins' = TipCoins'
<1> DEFINE e == [coin |-> c, flags |-> {"DIRTY"}]
<1>1. /\ tip \in CCoinsMap /\ db' = db
      /\ view = EmptyCache /\ view' = EmptyCache
      /\ tip' = [tip EXCEPT ![o] = e]
      /\ e \in CacheEntry /\ e # NoEntry
  BY CoinAssumption DEF IInv, TypeOK, ClosedIsEmpty, EmplaceCoinInternalDANGER,
     CacheEntry, Flag
<1>2. tip' \in CCoinsMap
  BY <1>1 DEF CCoinsMap
<1>3. FlagsSound(tip, db)'
  BY <1>1, CoinAssumption DEF IInv, FlagInv, FlagsSound, CCoinsMap, Clean, Fresh, Dirty
<1>4. TipCoins' = [TipCoins EXCEPT ![o] = c]
  BY <1>1 DEF TipCoins, GetCoin, CCoinsMap
<1>5. ViewCoins = TipCoins /\ ViewCoins' = TipCoins' /\ FlagsSound(view, TipCoins)'
  BY <1>1 DEF ViewCoins, TipCoins, GetCoin, EmptyCache, FlagsSound
<1> QED
  BY <1>1, <1>2, <1>3, <1>4, <1>5
  DEF IInv, TypeOK, FlagInv, ClosedIsEmpty, EmplaceCoinInternalDANGER

\* Dropping a view preserves the invariant and changes no coin of the tip.
LEMMA CloseViewFacts ==
    ASSUME IInv, CloseView
    PROVE  IInv' /\ TipCoins' = TipCoins /\ ViewCoins' = TipCoins
<1>1. view' = EmptyCache /\ tip' = tip /\ db' = db
  BY DEF CloseView
<1>2. TipCoins' = TipCoins /\ ViewCoins' = TipCoins
  BY <1>1 DEF TipCoins, ViewCoins, GetCoin, EmptyCache
<1>3. FlagInv'
  BY <1>1 DEF IInv, FlagInv, FlagsSound, EmptyCache
<1> QED
  BY <1>1, <1>2, <1>3
  DEF IInv, TypeOK, ClosedIsEmpty, CloseView, EmptyCache, CCoinsMap

\* The steps that touch no entry at all.
LEMMA SameEntriesFacts ==
    ASSUME IInv,
           OpenView \/ GetBestBlock \/ (\E b \in Block : SetBestBlock(b)) \/ UNCHANGED vars
    PROVE  IInv' /\ TipCoins' = TipCoins /\ ViewCoins' = ViewCoins
<1>1. tip' = tip /\ db' = db /\ view' = view
  BY DEF OpenView, GetBestBlock, SetBestBlock, vars
<1>2. TipCoins' = TipCoins /\ ViewCoins' = ViewCoins /\ FlagInv'
  BY <1>1 DEF TipCoins, ViewCoins, GetCoin, IInv, FlagInv, FlagsSound
<1>3. TypeOK' /\ ClosedIsEmpty'
  BY DEF IInv, TypeOK, ClosedIsEmpty, OpenView, GetBestBlock, SetBestBlock, vars, BestOf
<1> QED BY <1>2, <1>3 DEF IInv

\* Every operation of the caches preserves the invariant.
LEMMA NextIInv == IInv /\ [Next]_vars => IInv'
<1> SUFFICES ASSUME IInv, [Next]_vars PROVE IInv'
  OBVIOUS
<1>1. CASE \/ OpenView \/ GetBestBlock \/ (\E b \in Block : SetBestBlock(b))
           \/ UNCHANGED vars
  BY <1>1, SameEntriesFacts
<1>2. CASE CloseView
  BY <1>2, CloseViewFacts
<1>3. CASE FlushView
  BY <1>3, FlushViewFacts
<1>4. CASE FlushTip
  BY <1>4, FlushTipFacts
<1>5. ASSUME NEW o \in OutPoint,
             AccessTip(o) \/ AccessCoin(o) \/ SpendCoin(o) \/ Uncache(o)
      PROVE  IInv'
  BY <1>5, AccessTipFacts, AccessCoinFacts, SpendCoinFacts, UncacheFacts
<1>6. ASSUME NEW o \in OutPoint, NEW c \in Coin, NEW po \in BOOLEAN, AddCoin(o, c, po)
      PROVE  IInv'
  BY <1>6, AddCoinFacts
<1>7. ASSUME NEW o \in OutPoint, NEW c \in Coin, EmplaceCoinInternalDANGER(o, c)
      PROVE  IInv'
  BY <1>7, EmplaceFacts
<1> QED BY <1>1, <1>2, <1>3, <1>4, <1>5, <1>6, <1>7 DEF Next

\* The caches are well typed, their flags are sound with respect to what the
\* view below shows, and a closed view is empty, in every reachable state.
LEMMA CacheInvariant == Spec => []IInv
  BY InitIInv, NextIInv, PTL DEF Spec

\* The flags of both levels are sound, and no flush of a view reaches the throw "FRESH flag misapplied to coin that
\* exists in parent cache" of CCoinsViewCache::BatchWrite.
THEOREM CacheIsSoundHolds == Spec => []CacheIsSound
<1>1. IInv => FlushNeverThrows
  <2> SUFFICES ASSUME IInv, NEW o \in OutPoint, Misapplied(view[o], tip[o])
               PROVE  FALSE
    BY DEF FlushNeverThrows
  <2>1. TipCoins[o] = Spent
    BY DEF IInv, FlagInv, FlagsSound, Misapplied, Fresh
  <2> QED BY <2>1 DEF TipCoins, GetCoin, Misapplied
<1> QED BY <1>1, CacheInvariant, PTL DEF CacheIsSound

-----------------------------------------------------------------------------
(* Refinement: every step of the caches is a step of the plain maps, or    *)
(* leaves them as they are.                                                *)

\* The initial state of the caches is an initial state of the map.
LEMMA InitRefines == Init => Abstract!Init
  BY DEF Init, Abstract!Init, TipCoins, ViewCoins, GetCoin, EmptyCache, BestOf

\* Every operation of the caches is an operation of the map or changes nothing of it.
LEMMA StepRefines == IInv /\ [Next]_vars => [Abstract!Next]_(Abstract!vars)
<1> SUFFICES ASSUME IInv, [Next]_vars
             PROVE  Abstract!Next \/ UNCHANGED Abstract!vars
  OBVIOUS
<1> USE DEF Abstract!vars, BestOf
<1>1. CASE OpenView \/ UNCHANGED vars
  BY <1>1, SameEntriesFacts DEF OpenView, vars
<1>2. CASE GetBestBlock
  <2>1. TipCoins' = TipCoins /\ ViewCoins' = ViewCoins
    BY <1>2, SameEntriesFacts
  <2> QED BY <1>2, <2>1 DEF GetBestBlock
<1>3. ASSUME NEW b \in Block, SetBestBlock(b)
      PROVE  Abstract!Next
  <2>1. TipCoins' = TipCoins /\ ViewCoins' = ViewCoins
    BY <1>3, SameEntriesFacts
  <2>2. Abstract!Stamp(b)
    BY <1>3, <2>1, CoinAssumption DEF SetBestBlock, Abstract!Stamp
  <2> QED BY <2>2 DEF Abstract!Next
<1>4. CASE CloseView
  <2>1. Abstract!Abort
    BY <1>4, CloseViewFacts DEF CloseView, Abstract!Abort
  <2> QED BY <2>1 DEF Abstract!Next
<1>5. CASE FlushView
  <2>1. Abstract!Commit
    BY <1>5, FlushViewFacts DEF FlushView, Abstract!Commit
  <2> QED BY <2>1 DEF Abstract!Next
<1>6. CASE FlushTip
  <2>1. /\ db' = TipCoins /\ TipCoins' = TipCoins /\ ViewCoins' = ViewCoins
        /\ viewBest' = viewBest
    BY <1>6, FlushTipFacts DEF FlushTip, viewVars
  <2>2. Abstract!Sync
    BY <1>6, <2>1 DEF FlushTip, Abstract!Sync
  <2> QED BY <2>2 DEF Abstract!Next
<1>7. ASSUME NEW o \in OutPoint, AccessTip(o) \/ AccessCoin(o) \/ Uncache(o)
      PROVE  UNCHANGED Abstract!vars
  <2>1. TipCoins' = TipCoins /\ ViewCoins' = ViewCoins
    BY <1>7, AccessTipFacts, AccessCoinFacts, UncacheFacts
  <2> QED BY <1>7, <2>1 DEF AccessTip, AccessCoin, Uncache
<1>8. ASSUME NEW o \in OutPoint, SpendCoin(o)
      PROVE  Abstract!Next
  <2>1. Abstract!Delete(o)
    BY <1>8, SpendCoinFacts DEF SpendCoin, Abstract!Delete, Abstract!Put
  <2> QED BY <2>1 DEF Abstract!Next
<1>9. ASSUME NEW o \in OutPoint, NEW c \in Coin, NEW po \in BOOLEAN, AddCoin(o, c, po)
      PROVE  Abstract!Next
  <2>1. Abstract!Put(o, c)
    BY <1>9, AddCoinFacts DEF AddCoin, Abstract!Put
  <2> QED BY <2>1 DEF Abstract!Next
<1>10. ASSUME NEW o \in OutPoint, NEW c \in Coin, EmplaceCoinInternalDANGER(o, c)
       PROVE  Abstract!Next
  <2>1. viewBest = NullBlock
    BY <1>10 DEF IInv, ClosedIsEmpty, EmplaceCoinInternalDANGER
  <2>2. Abstract!Load(o, c)
    BY <1>10, <2>1, EmplaceFacts DEF EmplaceCoinInternalDANGER, Abstract!Load
  <2> QED BY <2>2 DEF Abstract!Next
<1> QED
  BY <1>1, <1>2, <1>3, <1>4, <1>5, <1>6, <1>7, <1>8, <1>9, <1>10 DEF Next

\* The stack of coins caches implements the plain maps of UtxoSet, whatever
\* the flags and the contents of the caches are.
THEOREM Refinement == Spec => RefinesUtxoSet
  BY CacheInvariant, InitRefines, StepRefines, PTL
  DEF Spec, RefinesUtxoSet, Abstract!Spec

\* Spending, adding, flushing and dropping a view do to the plain maps exactly
\* what Delete, Put, Commit, Abort and Sync of UtxoSet do.
THEOREM Correspondence == Spec => OperationsCorrespond
<1>1. IInv /\ [Next]_vars =>
        [/\ \A o \in OutPoint : SpendCoin(o) => Abstract!Delete(o)
         /\ \A o \in OutPoint, c \in Coin, po \in BOOLEAN :
              AddCoin(o, c, po) => Abstract!Put(o, c)
         /\ FlushView => Abstract!Commit
         /\ CloseView => Abstract!Abort
         /\ FlushTip => Abstract!Sync]_vars
  <2> SUFFICES ASSUME IInv
               PROVE  /\ \A o \in OutPoint : SpendCoin(o) => Abstract!Delete(o)
                      /\ \A o \in OutPoint, c \in Coin, po \in BOOLEAN :
                           AddCoin(o, c, po) => Abstract!Put(o, c)
                      /\ FlushView => Abstract!Commit
                      /\ CloseView => Abstract!Abort
                      /\ FlushTip => Abstract!Sync
    OBVIOUS
  <2> USE DEF BestOf
  <2>1. ASSUME NEW o \in OutPoint, SpendCoin(o) PROVE Abstract!Delete(o)
    BY <2>1, SpendCoinFacts DEF SpendCoin, Abstract!Delete, Abstract!Put
  <2>2. ASSUME NEW o \in OutPoint, NEW c \in Coin, NEW po \in BOOLEAN, AddCoin(o, c, po)
        PROVE  Abstract!Put(o, c)
    BY <2>2, AddCoinFacts DEF AddCoin, Abstract!Put
  <2>3. ASSUME FlushView PROVE Abstract!Commit
    BY <2>3, FlushViewFacts DEF FlushView, Abstract!Commit
  <2>4. ASSUME CloseView PROVE Abstract!Abort
    BY <2>4, CloseViewFacts DEF CloseView, Abstract!Abort
  <2>5. ASSUME FlushTip PROVE Abstract!Sync
    <3>1. /\ db' = TipCoins /\ TipCoins' = TipCoins /\ ViewCoins' = ViewCoins
          /\ viewBest' = viewBest
      BY <2>5, FlushTipFacts DEF FlushTip, viewVars
    <3> QED BY <2>5, <3>1 DEF FlushTip, Abstract!Sync
  <2> QED BY <2>1, <2>2, <2>3, <2>4, <2>5
<1> QED BY <1>1, CacheInvariant, PTL DEF Spec, OperationsCorrespond

\* The two together: the caches are, for any outpoints, coins and blocks, what
\* the users of CCoinsViewCache take them for.
THEOREM ActsAsMapHolds == Spec => ActsAsMap
BY Refinement, Correspondence DEF ActsAsMap

-----------------------------------------------------------------------------
(* The check queue.                                                         *)

Holding(t) == pc[t] \in {"run", "report"}

\* The queue is stopped only between blocks, and what is pending belongs to the
\* block being connected.
Quiet ==
    /\ stopper # "no" => pc[Master] = "out"
    /\ request_stop => stopper # "no"
    /\ pc[Master] # "exited"
    /\ verdict # "none" => pc[Master] = "out"
    /\ Pending \subseteq added

\* What is known of the checks already run, by the block and by each batch.
Results ==
    /\ pc[Master] # "out" =>
         /\ fAllOk => (added \ Pending) \cap Bad = {}
         /\ ~fAllOk => added \cap Bad # {}
    /\ \A t \in Thread : Holding(t) =>
         /\ fOk[t] => (batch[t] \ vChecks[t]) \cap Bad = {}
         /\ ~fOk[t] => added \cap Bad # {}

QueueIInv == QueueTypeOK /\ TodoIsRight /\ Quiet /\ Results /\ NothingLeftBehind /\ VerdictIsRight

\* Membership in Pending, without the UNION.
LEMMA InPending ==
    \A x : x \in Pending <=> x \in queue \/ \E t \in Thread : x \in batch[t]
BY DEF Pending

\* The same in the next state.
LEMMA InPendingNext ==
    \A x : x \in Pending' <=> x \in queue' \/ \E t \in Thread : x \in batch'[t]
BY DEF Pending

\* The checks that are queued or held are finitely many.
LEMMA PendingFinite ==
    ASSUME QueueTypeOK
    PROVE  /\ Pending \subseteq Check /\ IsFiniteSet(Pending)
           /\ \A t \in Thread : IsFiniteSet(batch[t])
<1>1. Pending \subseteq Check
  BY InPending DEF QueueTypeOK
<1>2. \A t \in Thread : batch[t] \subseteq Check
  BY DEF QueueTypeOK
<1> QED
  BY <1>1, <1>2, FS_Subset, QueueAssumption

\* What the counter becomes at the start of a turn.
LEMMA TodoOfTurn ==
    ASSUME QueueTypeOK, TodoIsRight, NEW t \in Thread, Turn(t)
    PROVE  /\ Todo(t) \in Nat
           /\ Todo(t) = Cardinality(Pending \ batch[t])
<1>1. IsFiniteSet(Pending) /\ IsFiniteSet(batch[t])
  BY PendingFinite
<1>2. batch[t] \subseteq Pending
  BY InPending
<1>3. Pending \cap batch[t] = batch[t]
  BY <1>2
<1>4. /\ IsFiniteSet(Pending \ batch[t])
      /\ Cardinality(Pending \ batch[t]) = Cardinality(Pending) - Cardinality(batch[t])
  BY <1>1, <1>3, FS_Difference
<1>5. Cardinality(Pending \ batch[t]) \in Nat
  BY <1>4, FS_CardinalityType
<1>6. CASE pc[t] = "report"
  BY <1>4, <1>5, <1>6 DEF Todo, TodoIsRight
<1>7. CASE pc[t] # "report"
  <2>1. batch[t] = {}
    BY <1>7 DEF QueueTypeOK, Turn
  <2>2. Pending \ batch[t] = Pending
    BY <2>1
  <2> QED
    BY <1>5, <1>7, <2>2 DEF Todo, TodoIsRight
<1> QED
  BY <1>6, <1>7

\* A turn that leaves t with the batch S taken from the queue (the empty set
\* when it does not take one) keeps the count of pending checks right.
LEMMA TurnKeepsTodo ==
    ASSUME QueueTypeOK, TodoIsRight, NEW t \in Thread, Turn(t), NEW S \in SUBSET queue,
           queue' = queue \ S, batch' = [batch EXCEPT ![t] = S], nTodo' = Todo(t)
    PROVE  TodoIsRight' /\ Pending' = Pending \ batch[t]
<1>0. /\ batch'[t] = S /\ \A u \in Thread : u # t => batch'[u] = batch[u]
  BY DEF QueueTypeOK
<1>1. Pending' = Pending \ batch[t]
  BY <1>0, InPending, InPendingNext DEF TodoIsRight
<1>2. nTodo' = Cardinality(Pending')
  BY <1>1, TodoOfTurn
<1>3. \A u \in Thread : batch'[u] \cap queue' = {}
  BY <1>0 DEF TodoIsRight
<1>4. \A u, v \in Thread : u # v => batch'[u] \cap batch'[v] = {}
  BY <1>0 DEF TodoIsRight
<1> QED
  BY <1>1, <1>2, <1>3, <1>4 DEF TodoIsRight

\* An empty queue satisfies the invariant.
LEMMA InitOK == QueueInit => QueueIInv
<1> SUFFICES ASSUME QueueInit PROVE QueueIInv
  OBVIOUS
<1>1. Pending = {}
  BY InPending DEF QueueInit
<1>2. Cardinality({}) = 0
  BY FS_EmptySet
<1>3. QueueTypeOK
  <2>1. pc \in [Thread -> InLoop \cup {"out", "in", "notify_one", "notify_all", "exited"}]
    BY DEF QueueInit, InLoop
  <2>2. \A t \in Thread : pc[t] \in {"out", "start"} /\ vChecks[t] = {} /\ batch[t] = {}
    BY DEF QueueInit
  <2>3. fOk \in [Thread -> BOOLEAN] /\ fAllOk \in BOOLEAN /\ request_stop \in BOOLEAN
    BY Zenon DEF QueueInit
  <2>4. /\ queue \subseteq Check /\ nTodo \in Nat /\ nIdle \in Int /\ nTotal \in Int
        /\ batch \in [Thread -> SUBSET Check] /\ vChecks \in [Thread -> SUBSET Check]
        /\ stopper = "no" /\ added \subseteq Check /\ verdict = "none"
    BY SMT DEF QueueInit
  <2>5. \A t \in Thread : batch[t] = {} <=> pc[t] \notin {"run", "report"}
    BY <2>2
  <2> QED
    BY <2>1, <2>2, <2>3, <2>4, <2>5, Zenon DEF QueueTypeOK
<1>4. TodoIsRight
  BY <1>1, <1>2 DEF QueueInit, TodoIsRight
<1>5. Quiet /\ Results /\ NothingLeftBehind /\ VerdictIsRight
  BY <1>1, QueueAssumption DEF QueueInit, Quiet, Results, NothingLeftBehind, VerdictIsRight,
     Holding, Thread
<1> QED
  BY <1>3, <1>4, <1>5 DEF QueueIInv

\* Steps that move threads without touching the queue or a batch.
LEMMA EnterOK ==
    ASSUME QueueIInv, ~StopWhileBusy, MayEnter, Enter
    PROVE  QueueIInv'
<1> USE DEF Enter, shared
<1>1. Pending' = Pending /\ Pending = {} /\ fAllOk /\ nTodo = 0
  BY DEF QueueIInv, NothingLeftBehind, Pending
<1>2. /\ pc'[Master] = "in" /\ pc[Master] = "out"
      /\ \A t \in Thread : t # Master => pc'[t] = pc[t]
  BY DEF QueueIInv, QueueTypeOK, Thread
<1>3. QueueTypeOK'
  BY <1>2 DEF QueueIInv, QueueTypeOK, Thread, InLoop
<1>4. TodoIsRight'
  BY <1>1 DEF QueueIInv, TodoIsRight
<1>5. Quiet' /\ NothingLeftBehind' /\ VerdictIsRight'
  BY <1>1, <1>2 DEF QueueIInv, Quiet, NothingLeftBehind, VerdictIsRight, MayEnter
<1>6. Results'
  <2>1. \A t \in Thread : batch[t] = {}
    BY <1>1, InPending
  <2>2. \A t \in Thread : ~Holding(t)'
    BY <1>2, <2>1 DEF Holding, QueueIInv, QueueTypeOK
  <2> QED
    BY <1>1, <1>2, <2>2 DEF Results
<1> QED
  BY <1>3, <1>4, <1>5, <1>6 DEF QueueIInv

\* The other steps that only move threads between states without a batch.
LEMMA MoveOK ==
    ASSUME QueueIInv, UNCHANGED <<shared, batch, vChecks, fOk, added, verdict>>,
           pc' \in [Thread -> InLoop \cup {"out", "in", "notify_one", "notify_all", "exited"}],
           \A t \in Thread : \/ pc'[t] = pc[t]
                             \/ /\ pc[t] \notin {"run", "report"}
                                /\ pc'[t] \notin {"run", "report"},
           pc'[Master] = "out" <=> pc[Master] = "out",
           pc'[Master] # "exited",
           stopper' \in {"no", "joining", "done"}, request_stop' \in BOOLEAN,
           stopper' # "no" => pc[Master] = "out",
           request_stop' => stopper' # "no"
    PROVE  QueueIInv'
<1> USE DEF shared
<1>1. Pending' = Pending
  BY DEF Pending
<1>2. QueueTypeOK'
  BY DEF QueueIInv, QueueTypeOK
<1>3. TodoIsRight'
  BY <1>1 DEF QueueIInv, TodoIsRight
<1>4. Quiet' /\ NothingLeftBehind' /\ VerdictIsRight'
  BY <1>1 DEF QueueIInv, Quiet, NothingLeftBehind, VerdictIsRight
<1>5. Results'
  BY <1>1 DEF QueueIInv, Results, Holding
<1> QED
  BY <1>2, <1>3, <1>4, <1>5 DEF QueueIInv

\* Waking any of the waiting workers preserves the invariant.
LEMMA NotifyOK ==
    ASSUME QueueIInv, NEW W \in SUBSET Waiting, Notify(W),
           pc[Master] \in {"notify_one", "notify_all"}
    PROVE  QueueIInv'
<1>1. Master \notin W /\ Master \in Thread
  BY QueueAssumption DEF Waiting, Thread
<1>2. pc' \in [Thread -> InLoop \cup {"out", "in", "notify_one", "notify_all", "exited"}]
  BY DEF Notify, QueueIInv, QueueTypeOK, InLoop
<1>3. /\ pc'[Master] = "in"
      /\ \A t \in Thread : \/ pc'[t] = pc[t]
                           \/ pc[t] \notin {"run", "report"} /\ pc'[t] \notin {"run", "report"}
  BY <1>1 DEF Notify, Waiting
<1> QED
  BY <1>1, <1>2, <1>3, MoveOK DEF Notify, QueueIInv, QueueTypeOK, Quiet

\* The steps that move no check preserve the invariant: Wait, the notifications of
\* Add, spurious wakeups and StopWorkerThreads.
LEMMA MovesOK ==
    ASSUME QueueIInv, ~StopWhileBusy,
           \/ CallWait \/ NotifyOne \/ NotifyAll \/ RequestStop \/ Joined
           \/ \E t \in Thread : SpuriousWake(t)
           \/ UNCHANGED queueVars
    PROVE  QueueIInv'
<1>m. Master \in Thread /\ Master \notin Worker
  BY QueueAssumption DEF Thread
<1>1. CASE CallWait
  <2>1. pc' \in [Thread -> InLoop \cup {"out", "in", "notify_one", "notify_all", "exited"}]
    BY <1>1 DEF CallWait, QueueIInv, QueueTypeOK, InLoop
  <2>2. pc'[Master] = "start" /\ \A t \in Thread : t # Master => pc'[t] = pc[t]
    BY <1>m, <1>1 DEF CallWait, QueueIInv, QueueTypeOK
  <2> QED
    BY <1>m, <1>1, <2>1, <2>2, MoveOK DEF CallWait, QueueIInv, QueueTypeOK, Quiet
<1>2. CASE NotifyOne
  BY <1>2, NotifyOK DEF NotifyOne
<1>3. CASE NotifyAll
  BY <1>3, NotifyOK DEF NotifyAll
<1>4. CASE RequestStop
  <2>1. pc' \in [Thread -> InLoop \cup {"out", "in", "notify_one", "notify_all", "exited"}]
    BY <1>4 DEF RequestStop, QueueIInv, QueueTypeOK, InLoop
  <2>2. pc'[Master] = pc[Master]
    BY <1>m, <1>4 DEF RequestStop, Waiting
  <2>3. \A t \in Thread : \/ pc'[t] = pc[t]
                          \/ pc[t] \notin {"run", "report"} /\ pc'[t] \notin {"run", "report"}
    BY <1>4 DEF RequestStop, Waiting
  <2> QED
    BY <1>4, <2>1, <2>2, <2>3, MoveOK DEF RequestStop, QueueIInv, Quiet
<1>5. CASE Joined
  BY <1>5, MoveOK DEF Joined, local, QueueIInv, QueueTypeOK, Quiet
<1>6. ASSUME NEW t \in Thread, SpuriousWake(t) PROVE QueueIInv'
  <2>1. pc' \in [Thread -> InLoop \cup {"out", "in", "notify_one", "notify_all", "exited"}]
    BY <1>6 DEF SpuriousWake, QueueIInv, QueueTypeOK, InLoop
  <2>2. pc'[t] = "woken" /\ pc[t] = "waiting" /\ \A u \in Thread : u # t => pc'[u] = pc[u]
    BY <1>6 DEF SpuriousWake, QueueIInv, QueueTypeOK
  <2> QED
    BY <1>m, <1>6, <2>1, <2>2, MoveOK DEF SpuriousWake, QueueIInv, QueueTypeOK, Quiet
<1>7. CASE UNCHANGED queueVars
  BY <1>7, MoveOK DEF queueVars, local, QueueIInv, QueueTypeOK, Quiet
<1> QED
  BY <1>1, <1>2, <1>3, <1>4, <1>5, <1>6, <1>7

\* Add preserves the invariant.
LEMMA AddOK ==
    ASSUME QueueIInv, NEW S \in SUBSET (Check \ added), Add(S)
    PROVE  QueueIInv'
<1> USE DEF Add
<1>m. Master \in Thread
  BY DEF Thread
<1>1. Pending' = Pending \cup S
  BY InPending, InPendingNext
<1>2. Pending \cap S = {}
  BY DEF QueueIInv, Quiet
<1>3. IsFiniteSet(S) /\ IsFiniteSet(Pending)
  BY FS_Subset, QueueAssumption, PendingFinite DEF QueueIInv
<1>4. nTodo' = Cardinality(Pending')
  <2>1. Cardinality(Pending \cup S) = Cardinality(Pending) + Cardinality(S) - Cardinality(Pending \cap S)
    BY <1>3, FS_Union
  <2>2. Cardinality(S) \in Nat /\ Cardinality(Pending) \in Nat /\ Cardinality(Pending \cap S) = 0
    BY <1>2, <1>3, FS_CardinalityType, FS_EmptySet
  <2>3. nTodo = Cardinality(Pending) /\ nTodo' = nTodo + Cardinality(S)
    BY DEF QueueIInv, TodoIsRight
  <2>4. nTodo' = Cardinality(Pending \cup S)
    BY <2>1, <2>2, <2>3
  <2> QED
    BY <1>1, <2>4
<1>5. /\ pc'[Master] \in {"notify_one", "notify_all"}
      /\ \A t \in Thread : t # Master => pc'[t] = pc[t]
      /\ pc' \in [Thread -> InLoop \cup {"out", "in", "notify_one", "notify_all", "exited"}]
  BY <1>m DEF QueueIInv, QueueTypeOK
<1>6. Cardinality(S) \in Nat
  BY <1>3, FS_CardinalityType
<1>7. QueueTypeOK'
  BY <1>5, <1>6 DEF QueueIInv, QueueTypeOK
<1>8. \A t \in Thread : batch[t] \cap S = {}
  BY <1>2, InPending
<1>9. TodoIsRight'
  BY <1>4, <1>8 DEF QueueIInv, TodoIsRight
<1>10. Quiet' /\ NothingLeftBehind' /\ VerdictIsRight'
  BY <1>1, <1>5 DEF QueueIInv, Quiet, NothingLeftBehind, VerdictIsRight
<1>11. Results'
  <2>1. (added' \ Pending') \subseteq (added \ Pending) /\ added \subseteq added'
    BY <1>1
  <2>2. \A t \in Thread : Holding(t)' => Holding(t)
    BY <1>5 DEF Holding
  <2> QED
    BY <1>5, <2>1, <2>2 DEF QueueIInv, Results
<1> QED
  BY <1>7, <1>9, <1>10, <1>11 DEF QueueIInv

\* Running a check of a batch preserves the invariant.
LEMMA RunCheckOK ==
    ASSUME QueueIInv, NEW t \in Thread, RunCheck(t)
    PROVE  QueueIInv'
<1> USE DEF shared
<1>1. PICK c \in vChecks[t] :
        /\ fOk' = [fOk EXCEPT ![t] = @ /\ c \notin Bad]
        /\ vChecks' = [vChecks EXCEPT ![t] = @ \ {c}]
        /\ pc' = [pc EXCEPT ![t] = IF vChecks[t] = {c} THEN "report" ELSE "run"]
  BY DEF RunCheck
<1>2. Pending' = Pending
  BY DEF Pending, RunCheck
<1>3. /\ pc[t] = "run" /\ pc'[t] = IF vChecks[t] = {c} THEN "report" ELSE "run"
      /\ \A u \in Thread : u # t => pc'[u] = pc[u]
      /\ pc' \in [Thread -> InLoop \cup {"out", "in", "notify_one", "notify_all", "exited"}]
  BY <1>1 DEF RunCheck, QueueIInv, QueueTypeOK, InLoop
<1>4. /\ vChecks'[t] = vChecks[t] \ {c}
      /\ \A u \in Thread : u # t => vChecks'[u] = vChecks[u]
      /\ vChecks' \in [Thread -> SUBSET Check]
  BY <1>1 DEF QueueIInv, QueueTypeOK
<1>5. /\ fOk'[t] = (fOk[t] /\ c \notin Bad)
      /\ \A u \in Thread : u # t => fOk'[u] = fOk[u]
      /\ fOk' \in [Thread -> BOOLEAN]
  <2>1. fOk \in [Thread -> BOOLEAN]
    BY DEF QueueIInv, QueueTypeOK
  <2> QED
    BY <1>1, <2>1, Zenon
<1>6. c \in batch[t] /\ c \in added
  BY <1>1, InPending DEF QueueIInv, QueueTypeOK, Quiet
<1>7. QueueTypeOK'
  <2>1. \A u \in Thread :
          /\ vChecks'[u] \subseteq batch'[u]
          /\ pc'[u] # "run" => vChecks'[u] = {}
          /\ batch'[u] = {} <=> pc'[u] \notin {"run", "report"}
    BY <1>3, <1>4 DEF RunCheck, QueueIInv, QueueTypeOK
  <2> QED
    BY <1>3, <1>4, <1>5, <2>1 DEF RunCheck, QueueIInv, QueueTypeOK
<1>8. TodoIsRight'
  BY <1>2 DEF RunCheck, QueueIInv, TodoIsRight
<1>9. pc'[Master] = "out" <=> pc[Master] = "out"
  BY <1>3 DEF Thread
<1>10. Quiet' /\ NothingLeftBehind' /\ VerdictIsRight'
  <2>1. pc'[Master] # "exited"
    BY <1>3 DEF Thread, QueueIInv, Quiet
  <2> QED
    BY <1>2, <1>9, <2>1 DEF RunCheck, QueueIInv, Quiet, NothingLeftBehind, VerdictIsRight
<1>11. Results'
  <2>1. ASSUME NEW u \in Thread, Holding(u)'
        PROVE  /\ fOk'[u] => (batch'[u] \ vChecks'[u]) \cap Bad = {}
               /\ ~fOk'[u] => added' \cap Bad # {}
    <3>1. CASE u # t
      BY <1>3, <1>4, <1>5, <2>1, <3>1 DEF RunCheck, QueueIInv, Results, Holding
    <3>2. CASE u = t
      <4>1. /\ fOk[t] => (batch[t] \ vChecks[t]) \cap Bad = {}
            /\ ~fOk[t] => added \cap Bad # {}
        BY <1>3 DEF QueueIInv, Results, Holding
      <4>2. fOk'[t] => (batch[t] \ (vChecks[t] \ {c})) \cap Bad = {}
        BY <4>1, <1>5
      <4>3. ~fOk'[t] => added \cap Bad # {}
        BY <4>1, <1>5, <1>6
      <4> QED
        BY <3>2, <4>2, <4>3, <1>4 DEF RunCheck
    <3> QED
      BY <3>1, <3>2
  <2>2. pc'[Master] # "out" =>
         /\ fAllOk' => (added' \ Pending') \cap Bad = {}
         /\ ~fAllOk' => added' \cap Bad # {}
    BY <1>2, <1>9 DEF RunCheck, QueueIInv, Results
  <2> QED
    BY <2>1, <2>2 DEF Results
<1> QED
  BY <1>7, <1>8, <1>10, <1>11 DEF QueueIInv

\* What the first lines of a turn establish, whatever follows.
LEMMA TurnFacts ==
    ASSUME QueueIInv, NEW t \in Thread, Turn(t)
    PROVE  /\ AllOk(t) \in BOOLEAN
           /\ pc[Master] = "out" => AllOk(t) /\ batch[t] = {} /\ queue = {}
           /\ pc[Master] # "out" =>
                /\ AllOk(t) => (added \ (Pending \ batch[t])) \cap Bad = {}
                /\ ~AllOk(t) => added \cap Bad # {}
           /\ vChecks[t] = {} /\ pc[t] # "out" /\ pc[t] # "run"
<1>1. vChecks[t] = {} /\ pc[t] # "out" /\ pc[t] # "run"
  BY DEF QueueIInv, QueueTypeOK, Turn
<1>2. pc[t] = "report" => Holding(t)
  BY DEF Holding
<1>3. pc[t] # "report" => batch[t] = {}
  BY DEF QueueIInv, QueueTypeOK, Turn
<1>4. batch[t] \subseteq Pending /\ queue \subseteq Pending
  BY InPending
<1>5. pc[Master] = "out" => AllOk(t) /\ batch[t] = {} /\ queue = {}
  BY <1>4 DEF QueueIInv, NothingLeftBehind, AllOk, QueueTypeOK
<1>6. AllOk(t) \in BOOLEAN
  BY DEF AllOk
<1>7. ASSUME pc[Master] # "out"
      PROVE  /\ AllOk(t) => (added \ (Pending \ batch[t])) \cap Bad = {}
             /\ ~AllOk(t) => added \cap Bad # {}
  <2>1. CASE pc[t] = "report"
    <3>1. /\ fOk[t] => batch[t] \cap Bad = {}
          /\ ~fOk[t] => added \cap Bad # {}
      BY <1>1, <1>2, <2>1 DEF QueueIInv, Results
    <3>2. /\ fAllOk => (added \ Pending) \cap Bad = {}
          /\ ~fAllOk => added \cap Bad # {}
      BY <1>7 DEF QueueIInv, Results
    <3>3. AllOk(t) <=> fAllOk /\ fOk[t]
      BY <2>1 DEF AllOk
    <3> QED
      BY <3>1, <3>2, <3>3
  <2>2. CASE pc[t] # "report"
    BY <1>3, <1>7, <2>2 DEF AllOk, QueueIInv, Results
  <2> QED
    BY <2>1, <2>2
<1> QED
  BY <1>1, <1>5, <1>6, <1>7

\* How the program counters change in a turn.
LEMMA WakesFacts ==
    ASSUME QueueIInv, NEW t \in Thread, Turn(t), NEW next, pc' = Wakes(t, next),
           next \in InLoop \cup {"out", "exited"}
    PROVE  /\ pc' \in [Thread -> InLoop \cup {"out", "in", "notify_one", "notify_all", "exited"}]
           /\ pc'[t] = next
           /\ \A u \in Thread : u # t =>
                \/ pc'[u] = pc[u]
                \/ u = Master /\ pc[u] = "waiting" /\ pc'[u] = "woken"
<1>1. \A u \in Thread : pc'[u] = IF u = t THEN next
        ELSE IF u = Master /\ pc[u] = "waiting" /\ pc[t] = "report" /\ Todo(t) = 0
        THEN "woken" ELSE pc[u]
  BY DEF Wakes
<1>2. pc' = [u \in Thread |-> pc'[u]]
  BY DEF Wakes
<1>3. \A u \in Thread : pc'[u] \in InLoop \cup {"out", "in", "notify_one", "notify_all", "exited"}
  BY <1>1 DEF QueueIInv, QueueTypeOK, InLoop
<1> QED
  BY <1>1, <1>2, <1>3

\* A turn that does not end the wait of the master.
LEMMA TurnOK ==
    ASSUME QueueIInv, NEW t \in Thread, Turn(t), NEW S \in SUBSET queue, NEW next,
           \/ next = "run" /\ S # {}
           \/ next = "waiting" /\ S = {}
           \/ next = "exited" /\ S = {} /\ t # Master,
           queue' = queue \ S, batch' = [batch EXCEPT ![t] = S],
           vChecks' = [vChecks EXCEPT ![t] = S],
           nTodo' = Todo(t), nIdle' \in Int, nTotal' \in Int,
           fAllOk' = AllOk(t), pc' = Wakes(t, next),
           fOk' \in [Thread -> BOOLEAN],
           \A u \in Thread : u # t => fOk'[u] = fOk[u],
           next = "run" => fOk'[t] = AllOk(t),
           UNCHANGED <<added, verdict, stopper, request_stop>>
    PROVE  QueueIInv'
<1>1. TodoIsRight' /\ Pending' = Pending \ batch[t]
  BY TurnKeepsTodo DEF QueueIInv
<1>2. nTodo' \in Nat
  BY TodoOfTurn DEF QueueIInv
<1>3. /\ pc' \in [Thread -> InLoop \cup {"out", "in", "notify_one", "notify_all", "exited"}]
      /\ pc'[t] = next
      /\ \A u \in Thread : u # t =>
           \/ pc'[u] = pc[u]
           \/ u = Master /\ pc[u] = "waiting" /\ pc'[u] = "woken"
  BY WakesFacts DEF InLoop
<1>4. /\ batch'[t] = S /\ vChecks'[t] = S
      /\ \A u \in Thread : u # t => batch'[u] = batch[u] /\ vChecks'[u] = vChecks[u]
      /\ batch' \in [Thread -> SUBSET Check] /\ vChecks' \in [Thread -> SUBSET Check]
  BY DEF QueueIInv, QueueTypeOK
<1>5. QueueTypeOK'
  <2>1. \A u \in Thread :
          /\ vChecks'[u] \subseteq batch'[u]
          /\ pc'[u] # "run" => vChecks'[u] = {}
          /\ batch'[u] = {} <=> pc'[u] \notin {"run", "report"}
    BY <1>3, <1>4 DEF QueueIInv, QueueTypeOK
  <2>2. fAllOk' \in BOOLEAN
    BY TurnFacts
  <2> QED
    BY <1>2, <1>3, <1>4, <2>1, <2>2 DEF QueueIInv, QueueTypeOK
<1>6. Master \in Thread /\ pc[t] # "out"
  BY DEF Thread, Turn
<1>7. pc'[Master] = "out" <=> pc[Master] = "out"
  BY <1>3, <1>6
<1>8. pc'[Master] # "exited"
  BY <1>3, <1>6 DEF QueueIInv, Quiet
<1>9. Quiet'
  BY <1>1, <1>7, <1>8 DEF QueueIInv, Quiet
<1>10. NothingLeftBehind' /\ VerdictIsRight'
  <2>1. pc[Master] = "out" => Todo(t) = nTodo
    BY TurnFacts, <1>6 DEF QueueIInv, QueueTypeOK, Todo, Turn
  <2>2. pc[Master] = "out" => AllOk(t)
    BY TurnFacts
  <2> QED
    BY <1>1, <1>7, <2>1, <2>2 DEF QueueIInv, NothingLeftBehind, VerdictIsRight
<1>11. Results'
  <2>1. pc'[Master] # "out" =>
          /\ fAllOk' => (added' \ Pending') \cap Bad = {}
          /\ ~fAllOk' => added' \cap Bad # {}
    BY <1>1, <1>7, TurnFacts
  <2>2. ASSUME NEW u \in Thread, Holding(u)'
        PROVE  /\ fOk'[u] => (batch'[u] \ vChecks'[u]) \cap Bad = {}
               /\ ~fOk'[u] => added' \cap Bad # {}
    <3>1. CASE u = t
      <4>1. next = "run" /\ batch'[u] \ vChecks'[u] = {}
        BY <1>3, <1>4, <2>2, <3>1 DEF Holding
      <4>2. pc[Master] # "out"
        BY <4>1, TurnFacts
      <4> QED
        BY <3>1, <4>1, <4>2, TurnFacts
    <3>2. CASE u # t
      <4>1. Holding(u)
        BY <1>3, <2>2, <3>2 DEF Holding
      <4> QED
        BY <1>4, <3>2, <4>1 DEF QueueIInv, Results
    <3> QED
      BY <3>1, <3>2
  <2> QED
    BY <2>1, <2>2 DEF Results
<1> QED
  BY <1>1, <1>5, <1>9, <1>10, <1>11 DEF QueueIInv

\* Taking a batch in Loop, with the report of the last one, preserves the invariant.
LEMMA TakeOK ==
    ASSUME QueueIInv, NEW t \in Thread, Take(t)
    PROVE  QueueIInv'
<1>1. PICK S \in SUBSET queue :
        /\ Cardinality(S) = BatchLength(t) /\ queue' = queue \ S
        /\ batch' = [batch EXCEPT ![t] = S] /\ vChecks' = [vChecks EXCEPT ![t] = S]
  BY DEF Take
<1>2. BatchLength(t) # 0
  BY DEF BatchLength
<1>3. S # {}
  BY <1>1, <1>2, FS_EmptySet
<1>4. Turn(t) /\ nIdle' \in Int /\ nTotal' \in Int
  BY DEF Take, QueueIInv, QueueTypeOK, Idle, Total
<1>5. fOk' \in [Thread -> BOOLEAN] /\ fOk'[t] = AllOk(t) /\ \A u \in Thread : u # t => fOk'[u] = fOk[u]
  <2>1. fOk \in [Thread -> BOOLEAN] /\ AllOk(t) \in BOOLEAN /\ fOk' = [fOk EXCEPT ![t] = AllOk(t)]
    BY <1>4, TurnFacts DEF Take, QueueIInv, QueueTypeOK
  <2> QED
    BY <2>1, Zenon
<1> QED
  BY <1>1, <1>3, <1>4, <1>5, TurnOK DEF Take

\* Waiting in Loop, with the report of the last batch, preserves the invariant.
LEMMA SleepOK ==
    ASSUME QueueIInv, NEW t \in Thread, Sleep(t)
    PROVE  QueueIInv'
<1>1. Turn(t) /\ nIdle' \in Int /\ nTotal' \in Int
  BY DEF Sleep, QueueIInv, QueueTypeOK, Idle, Total
<1>2. queue' = queue \ {} /\ {} \in SUBSET queue
  BY DEF Sleep
<1>3. vChecks' = [vChecks EXCEPT ![t] = {}]
  BY <1>1, TurnFacts DEF Sleep, QueueIInv, QueueTypeOK
<1>4. fOk' \in [Thread -> BOOLEAN] /\ \A u \in Thread : fOk'[u] = fOk[u]
  BY DEF Sleep, QueueIInv, QueueTypeOK
<1> QED
  BY <1>1, <1>2, <1>3, <1>4, TurnOK DEF Sleep

\* Only workers leave on request: the master is outside by then.
LEMMA LeaveOK ==
    ASSUME QueueIInv, NEW t \in Thread, Leave(t)
    PROVE  QueueIInv'
<1>1. Turn(t) /\ nIdle' \in Int /\ nTotal' \in Int
  BY DEF Leave, QueueIInv, QueueTypeOK, Idle, Total
<1>2. queue' = queue \ {} /\ {} \in SUBSET queue
  BY DEF Leave
<1>3. vChecks' = [vChecks EXCEPT ![t] = {}]
  BY <1>1, TurnFacts DEF Leave, QueueIInv, QueueTypeOK
<1>4. fOk' \in [Thread -> BOOLEAN] /\ \A u \in Thread : fOk'[u] = fOk[u]
  BY DEF Leave, QueueIInv, QueueTypeOK
<1>5. t # Master
  BY <1>1 DEF Leave, QueueIInv, Quiet, Turn
<1> QED
  BY <1>1, <1>2, <1>3, <1>4, <1>5, TurnOK DEF Leave

\* The return of the master from Loop, with the verdict, preserves the invariant.
LEMMA ReturnOK ==
    ASSUME QueueIInv, NEW t \in Thread, Return(t)
    PROVE  QueueIInv'
<1> USE DEF Return
<1>1. Turn(t) /\ nIdle' \in Int /\ nTotal' \in Int /\ t = Master
  BY DEF QueueIInv, QueueTypeOK, Idle, Total
<1>2. queue' = queue \ {} /\ {} \in SUBSET queue
  OBVIOUS
<1>3. TodoIsRight' /\ Pending' = Pending \ batch[t]
  BY <1>1, <1>2, TurnKeepsTodo DEF QueueIInv
<1>4. Pending' = {}
  <2>1. IsFiniteSet(Pending \ batch[t]) /\ Cardinality(Pending \ batch[t]) = 0
    BY <1>1, TodoOfTurn, PendingFinite, FS_Difference DEF QueueIInv
  <2> QED
    BY <1>3, <2>1, FS_EmptySet
<1>5. /\ pc' \in [Thread -> InLoop \cup {"out", "in", "notify_one", "notify_all", "exited"}]
      /\ pc'[t] = "out"
      /\ \A u \in Thread : u # t => pc'[u] = pc[u]
  BY <1>1, WakesFacts
<1>6. /\ batch'[t] = {} /\ \A u \in Thread : u # t => batch'[u] = batch[u]
      /\ batch' \in [Thread -> SUBSET Check]
  BY DEF QueueIInv, QueueTypeOK
<1>7. QueueTypeOK'
  <2>1. \A u \in Thread :
          /\ vChecks'[u] \subseteq batch'[u]
          /\ pc'[u] # "run" => vChecks'[u] = {}
          /\ batch'[u] = {} <=> pc'[u] \notin {"run", "report"}
    BY <1>1, <1>5, <1>6, TurnFacts DEF QueueIInv, QueueTypeOK
  <2>2. nTodo' \in Nat
    BY <1>1, TodoOfTurn DEF QueueIInv
  <2> QED
    BY <1>1, <1>5, <1>6, <2>1, <2>2 DEF QueueIInv, QueueTypeOK
<1>8. pc[Master] # "out"
  BY <1>1 DEF Turn
<1>9. Quiet'
  BY <1>1, <1>4, <1>5, <1>8 DEF QueueIInv, Quiet
<1>10. NothingLeftBehind'
  BY <1>4 DEF NothingLeftBehind
<1>11. Pending \ batch[t] = {}
  BY <1>3, <1>4
<1>12. VerdictIsRight'
  BY <1>1, <1>8, <1>11, TurnFacts DEF VerdictIsRight
<1>13. Results'
  <2>1. \A u \in Thread : batch'[u] = {}
    BY <1>4, InPendingNext
  <2>2. \A u \in Thread : ~Holding(u)'
    BY <1>7, <2>1 DEF Holding, QueueTypeOK
  <2> QED
    BY <1>1, <1>5, <2>2 DEF Results
<1> QED
  BY <1>3, <1>7, <1>9, <1>10, <1>12, <1>13 DEF QueueIInv

\* The invariant is inductive.
LEMMA NextOK ==
    ASSUME ~StopWhileBusy, QueueIInv, [QueueNext]_queueVars
    PROVE  QueueIInv'
<1>1. CASE MayEnter /\ Enter
  BY <1>1, EnterOK
<1>2. ASSUME NEW S \in SUBSET (Check \ added), Add(S) PROVE QueueIInv'
  BY <1>2, AddOK
<1>3. ASSUME NEW t \in Thread, Loop(t) PROVE QueueIInv'
  BY <1>3, TakeOK, SleepOK, ReturnOK, LeaveOK DEF Loop
<1>4. ASSUME NEW t \in Thread, RunCheck(t) PROVE QueueIInv'
  BY <1>4, RunCheckOK
<1>5. CASE \/ CallWait \/ NotifyOne \/ NotifyAll \/ RequestStop \/ Joined
           \/ \E t \in Thread : SpuriousWake(t)
           \/ UNCHANGED queueVars
  BY <1>5, MovesOK
<1> QED
  BY <1>1, <1>2, <1>3, <1>4, <1>5 DEF QueueNext

\* The counters.  Two sets of threads that differ at most in t.
LEMMA OneThreadMoves ==
    ASSUME NEW A \in SUBSET Thread, NEW B \in SUBSET Thread, NEW t \in Thread,
           \A u \in Thread : u # t => (u \in A <=> u \in B)
    PROVE  Cardinality(B) = Cardinality(A) + (IF t \in B THEN 1 ELSE 0) - (IF t \in A THEN 1 ELSE 0)
<1>1. IsFiniteSet(Thread)
  BY FS_AddElement, QueueAssumption DEF Thread
<1>2. IsFiniteSet(A) /\ Cardinality(A) \in Nat
  BY <1>1, FS_Subset, FS_CardinalityType
<1>3. CASE t \in A /\ t \notin B
  <2>1. B = A \ {t}
    BY <1>3
  <2> QED
    BY <1>2, <1>3, <2>1, FS_RemoveElement
<1>4. CASE t \notin A /\ t \in B
  <2>1. B = A \cup {t}
    BY <1>4
  <2> QED
    BY <1>2, <1>4, <2>1, FS_AddElement
<1>5. CASE t \in A <=> t \in B
  <2>1. A = B
    BY <1>5
  <2> QED
    BY <1>2, <2>1
<1> QED
  BY <1>3, <1>4, <1>5

\* A turn of Loop counts its own thread in and out.
LEMMA LoopCounts ==
    ASSUME ~StopWhileBusy, QueueIInv, CountsAreRight, NEW t \in Thread, Loop(t)
    PROVE  CountsAreRight'
<1> DEFINE TurnsTo(next) ==
        /\ Turn(t) /\ pc' = Wakes(t, next) /\ stopper' = stopper
        /\ nIdle' = Idle(t) + (IF next = "waiting" THEN 1 ELSE 0)
        /\ stopper = "no" => /\ next # "exited"
                             /\ nTotal' = Total(t) - (IF next = "out" THEN 1 ELSE 0)
<1>0. Idle(t) \in Int /\ Total(t) \in Int
  BY DEF QueueIInv, QueueTypeOK, Idle, Total
<1>1. PICK next \in {"run", "waiting", "out", "exited"} : TurnsTo(next)
  <2>1. CASE Take(t)
    <3>1. TurnsTo("run")
      BY <1>0, <2>1 DEF Take
    <3> QED
      BY <3>1
  <2>2. CASE Sleep(t)
    <3>1. TurnsTo("waiting")
      BY <1>0, <2>2 DEF Sleep
    <3> QED
      BY <3>1
  <2>3. CASE Return(t)
    <3>1. TurnsTo("out")
      BY <1>0, <2>3 DEF Return
    <3> QED
      BY <3>1
  <2>4. CASE Leave(t)
    <3>0. stopper # "no"
      BY <2>4 DEF Leave, QueueIInv, Quiet
    <3>1. CASE t = Master
      <4>1. TurnsTo("out")
        BY <1>0, <2>4, <3>0, <3>1 DEF Leave
      <4> QED
        BY <4>1
    <3>2. CASE t # Master
      <4>1. TurnsTo("exited")
        BY <1>0, <2>4, <3>0, <3>2 DEF Leave
      <4> QED
        BY <4>1
    <3> QED
      BY <3>1, <3>2
  <2> QED
    BY <2>1, <2>2, <2>3, <2>4 DEF Loop
<1>2. /\ pc'[t] = next
      /\ \A u \in Thread : u # t =>
           \/ pc'[u] = pc[u]
           \/ pc[u] = "waiting" /\ pc'[u] = "woken"
  BY <1>1, WakesFacts DEF InLoop
<1>3. /\ \A u \in Thread : u # t => (u \in Asleep <=> u \in Asleep') /\ (u \in Inside <=> u \in Inside')
      /\ Asleep \in SUBSET Thread /\ Asleep' \in SUBSET Thread
      /\ Inside \in SUBSET Thread /\ Inside' \in SUBSET Thread
  BY <1>2 DEF Asleep, Inside
<1>4. /\ t \in Asleep <=> pc[t] = "woken"
      /\ t \in Inside <=> pc[t] # "start"
      /\ t \in Asleep' <=> next = "waiting"
      /\ t \in Inside' <=> next \in {"waiting", "run"}
  BY <1>1, <1>2 DEF Asleep, Inside, Turn
<1>5. /\ Cardinality(Asleep') = nIdle + (IF next = "waiting" THEN 1 ELSE 0) - (IF pc[t] = "woken" THEN 1 ELSE 0)
      /\ stopper = "no" =>
            Cardinality(Inside') = nTotal + (IF next \in {"waiting", "run"} THEN 1 ELSE 0)
                                          - (IF pc[t] # "start" THEN 1 ELSE 0)
  BY <1>3, <1>4, OneThreadMoves DEF CountsAreRight
<1>6. nIdle' = Cardinality(Asleep')
  BY <1>1, <1>5 DEF Idle, QueueIInv, QueueTypeOK
<1>7. stopper = "no" => nTotal' = Cardinality(Inside')
  BY <1>1, <1>5 DEF Total, Turn, QueueIInv, QueueTypeOK
<1> QED
  BY <1>1, <1>6, <1>7 DEF CountsAreRight

\* Everything else leaves both sets of threads as they are.
LEMMA OthersCount ==
    ASSUME QueueIInv, CountsAreRight, UNCHANGED <<nIdle, nTotal>>,
           stopper' = stopper \/ stopper' # "no",
           \A t \in Thread : \/ pc'[t] = pc[t]
                             \/ {pc[t], pc'[t]} \subseteq {"waiting", "woken"}
                             \/ {pc[t], pc'[t]} \subseteq {"run", "report"}
                             \/ {pc[t], pc'[t]} \cap {"waiting", "woken", "run", "report"} = {}
    PROVE  CountsAreRight'
<1>1. Asleep' = Asleep /\ Inside' = Inside
  BY DEF Asleep, Inside
<1> QED
  BY <1>1 DEF CountsAreRight

\* nIdle and nTotal keep counting the threads they stand for.
LEMMA NextCounts ==
    ASSUME ~StopWhileBusy, QueueIInv, CountsAreRight, [QueueNext]_queueVars
    PROVE  CountsAreRight'
<1> USE DEF shared, local
<1>m. Master \in Thread /\ Master \notin Worker
  BY QueueAssumption DEF Thread
<1>t. pc \in [Thread -> InLoop \cup {"out", "in", "notify_one", "notify_all", "exited"}]
  BY DEF QueueIInv, QueueTypeOK
<1>1. CASE Enter
  BY <1>1, <1>t, OthersCount DEF Enter
<1>2. ASSUME NEW S \in SUBSET (Check \ added), Add(S) PROVE CountsAreRight'
  <2>1. /\ pc[Master] = "in" /\ pc'[Master] \in {"notify_one", "notify_all"}
        /\ \A t \in Thread : t # Master => pc'[t] = pc[t]
    BY <1>2, <1>t, <1>m DEF Add
  <2> QED
    BY <1>2, <2>1, OthersCount DEF Add
<1>3. ASSUME NEW W \in SUBSET Waiting, Notify(W), pc[Master] \in {"notify_one", "notify_all"}
      PROVE  CountsAreRight'
  BY <1>3, <1>m, OthersCount DEF Notify, Waiting, Thread
<1>4. CASE NotifyOne \/ NotifyAll
  BY <1>3, <1>4 DEF NotifyOne, NotifyAll
<1>5. CASE CallWait
  BY <1>5, <1>t, OthersCount DEF CallWait
<1>6. ASSUME NEW t \in Thread, RunCheck(t) PROVE CountsAreRight'
  <2>1. pc[t] = "run" /\ pc'[t] \in {"run", "report"} /\ \A u \in Thread : u # t => pc'[u] = pc[u]
    BY <1>6, <1>t DEF RunCheck
  <2> QED
    BY <1>6, <2>1, OthersCount DEF RunCheck
<1>7. ASSUME NEW t \in Thread, SpuriousWake(t) PROVE CountsAreRight'
  BY <1>7, <1>t, OthersCount DEF SpuriousWake
<1>8. CASE RequestStop
  BY <1>8, <1>m, OthersCount DEF RequestStop, Waiting, Thread
<1>9. CASE Joined
  BY <1>9, OthersCount DEF Joined
<1>10. CASE UNCHANGED queueVars
  BY <1>10, OthersCount DEF queueVars
<1> QED
  BY <1>1, <1>2, <1>4, <1>5, <1>6, <1>7, <1>8, <1>9, <1>10, LoopCounts DEF QueueNext

\* nIdle and nTotal are right at the start.
LEMMA InitCounts == QueueInit => CountsAreRight
<1> SUFFICES ASSUME QueueInit PROVE CountsAreRight
  OBVIOUS
<1>1. Asleep = {} /\ Inside = {}
  BY DEF QueueInit, Asleep, Inside
<1> QED
  BY <1>1, FS_EmptySet DEF QueueInit, CountsAreRight

\* The check queue is right for any number of workers and checks: Wait() returns
\* the conjunction of the results of the checks of its block (Loop, Wait), no
\* check outlives the block it belongs to, and nTodo, nIdle and nTotal count what
\* is queued or handed out, who is asleep and who takes part.
THEOREM QueueIsRightHolds == ASSUME ~StopWhileBusy PROVE QueueSpec => []QueueIsRight
<1> DEFINE Strong == QueueIInv /\ CountsAreRight
<1>1. QueueInit => Strong
  BY InitOK, InitCounts
<1>2. Strong /\ [QueueNext]_queueVars => Strong'
  BY NextOK, NextCounts
<1>3. Strong => QueueIsRight
  BY DEF QueueIInv, QueueIsRight
<1> QED
  BY <1>1, <1>2, <1>3, PTL DEF QueueSpec

=============================================================================
