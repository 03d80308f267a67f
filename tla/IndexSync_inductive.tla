---- MODULE IndexSync_inductive ----
(***************************************************************************)
(* The inductive invariant behind IndexIsRight of IndexSync, and its       *)
(* preservation by the steps in which the node starts and stops and by the *)
(* steps of the sync thread.  The chain's moves and the callbacks, and the *)
(* theorem, are in IndexSync_proof.                                        *)
(*                                                                         *)
(* IndexIsRight is not inductive.  That a rewind finds the entries it      *)
(* needs says that the height index covers the whole path to the last      *)
(* block indexed (Holds), in memory and in whatever a crash leaves; that a *)
(* callback may ignore a block, or rewind to its parent, depends on how    *)
(* the queued notifications link to each other, to the best block of the   *)
(* index and to the tip (Queue); and that the caller of                    *)
(* BlockUntilSyncedToCurrentChain finds its tip, on the notifications that *)
(* were queued before its wait (Caller).                                   *)
(***************************************************************************)
EXTENDS IndexSync, BlockTree_proof

\* The height index of database d has an entry for every block on the path to b.
Holds(d, b) ==
    \A a \in Path[b] : Height[a] \in DOMAIN d.byHeight /\ d.byHeight[Height[a]].block = a

\* A right database: an entry at a height is of a block of that height, with its
\* statistics; a block in the hash index has its statistics, and the height
\* index an entry at its height; the best block is held and the state saved
\* beside it (DB_MUHASH) is that block's.
DbIsRight(d) ==
    /\ d = [best |-> d.best, muhash |-> d.muhash, byHeight |-> d.byHeight, byHash |-> d.byHash]
    /\ d.best \in Block \cup {Nil}
    /\ \A h \in DOMAIN d.byHeight :
         \E b \in Block : Height[b] = h /\ d.byHeight[h] = [block |-> b, stats |-> StatsOf(b)]
    /\ \A b \in DOMAIN d.byHash :
         b \in Block /\ d.byHash[b] = StatsOf(b) /\ Height[b] \in DOMAIN d.byHeight
    /\ d.best = Nil => d.muhash = NoStats
    /\ d.best # Nil => d.muhash = StatsOf(d.best) /\ Holds(d, d.best)

\* In memory: the running statistics are those of the last block indexed, the
\* database holds that block, and what was committed last is on its path.
Memory ==
    Up => /\ running = IF IndexedUpTo = Nil THEN NoStats ELSE StatsOf(IndexedUpTo)
          /\ IndexedUpTo # Nil => Holds(db, IndexedUpTo)
          /\ db.best # Nil => IndexedUpTo # Nil /\ db.best \in Path[IndexedUpTo]

\* What the stages of the program say of each other: when the node is down nothing
\* is queued; the sync thread is done once m_synced is set; before the first
\* flush of the chain only connected blocks are queued; before the first block
\* nothing is.
Control ==
    /\ mode # "broken"
    /\ mode \in {"down", "refused"} =>
         notices = <<>> /\ caller = NoCaller /\ ~m_synced /\ syncAt = "done" /\ activeTip = flushedTip
    /\ mode = "refused" => db.best # Nil /\ activeTip # Nil /\ db.best \notin Path[activeTip]
    /\ m_synced => syncAt = "done"
    /\ mode = "run" /\ syncAt = "done" => m_synced
    /\ syncAt \in {"locator", "append"} => pindex # Nil
    /\ flushedTip = Nil =>
         /\ mode # "flushed" /\ syncAt = "done" /\ (Up => m_synced)
         /\ mode = "down" => db.best = Nil
         /\ \A i \in DOMAIN notices : notices[i].kind = "connected"
    /\ activeTip = Nil => mode \in {"down", "run"} /\ flushedTip = Nil /\ notices = <<>> /\ (Up => m_best_block_index = Nil)

\* Queued notification i is a BlockConnected.
IsConnected(i) == notices[i].kind = "connected"
\* BlockConnected j is the next one after BlockConnected i.
Follows(j, i) == i < j /\ IsConnected(i) /\ IsConnected(j) /\ \A k \in (i+1)..(j-1) : ~IsConnected(k)
\* Notification i is of a block whose parent is on the path to the best block.
Links(i) == notices[i].block # Genesis /\ Prev[notices[i].block] \in Path[m_best_block_index]
\* The queued notifications lead from the best block of the index to the active
\* tip: a connected block's parent is on the path to the one before it, the last
\* one descends from the tip (which may have been disconnected since), the first
\* block comes first, and once synced either the index is at or beyond the tip or
\* some queued block links to what it holds.
Queue ==
    /\ notices \in Seq([kind : {"connected", "flushed"}, block : Block])
    /\ \A i, k \in DOMAIN notices : i < k /\ IsConnected(i) /\ IsConnected(k) =>
         \E j \in (i + 1)..k : Follows(j, i)
    /\ \A i, j \in DOMAIN notices : Follows(j, i) =>
         notices[j].block # Genesis /\ Prev[notices[j].block] \in Path[notices[i].block]
    /\ \A i \in DOMAIN notices :
         IsConnected(i) /\ (\A k \in (i+1)..Len(notices) : ~IsConnected(k)) =>
           activeTip \in Path[notices[i].block]
    /\ \A i \in DOMAIN notices : IsConnected(i) /\ notices[i].block = Genesis =>
         i = 1 /\ m_synced /\ m_best_block_index = Nil
    /\ m_synced /\ m_best_block_index = Nil /\ activeTip # Nil =>
         notices # <<>> /\ IsConnected(1) /\ notices[1].block = Genesis
    /\ m_synced /\ m_best_block_index # Nil =>
         activeTip \in Path[m_best_block_index] \/ \E j \in DOMAIN notices : IsConnected(j) /\ Links(j)

\* The tip that a caller of BlockUntilSyncedToCurrentChain read is indexed, or
\* a notification before the ones it waits for links to the best block and the
\* last of them descends from that tip.
Caller ==
    /\ caller = [tip |-> caller.tip, left |-> caller.left]
    /\ caller.tip = Nil => caller.left = 0
    /\ caller.tip # Nil =>
         /\ Up /\ m_synced /\ m_best_block_index # Nil
         /\ \/ caller.tip \in Path[m_best_block_index] \/ caller.tip \in DOMAIN db.byHash
            \/ /\ \E j \in 1..caller.left : IsConnected(j) /\ Links(j)
               /\ \A i \in 1..caller.left :
                    IsConnected(i) /\ (\A k \in (i+1)..caller.left : ~IsConnected(k)) =>
                      caller.tip \in Path[notices[i].block]

\* The inductive invariant.
IInv == IndexTypeOK /\ DbIsRight(db) /\ DbIsRight(durable) /\ Memory /\ Control /\ Queue /\ Caller

\* Facts of sequences, for the queue of notifications: the elements of one,
LEMMA SeqElements ==
    ASSUME NEW S, NEW s \in Seq(S)
    PROVE  Len(s) \in Nat /\ DOMAIN s = 1..Len(s) /\ \A i \in 1..Len(s) : s[i] \in S
OBVIOUS

\* the empty one,
LEMMA SeqEmpty ==
    ASSUME NEW S
    PROVE  <<>> \in Seq(S) /\ Len(<<>>) = 0 /\ \A s \in Seq(S) : s = <<>> <=> Len(s) = 0
OBVIOUS

\* one with an element added at its end,
LEMMA SeqAppended ==
    ASSUME NEW S, NEW s \in Seq(S), NEW x \in S
    PROVE  /\ Append(s, x) \in Seq(S) /\ Append(s, x) # <<>>
           /\ Len(Append(s, x)) = Len(s) + 1 /\ Append(s, x)[Len(s) + 1] = x
           /\ \A i \in 1..Len(s) : Append(s, x)[i] = s[i]
OBVIOUS

\* and one whose first element is taken off.
LEMMA SeqTaken ==
    ASSUME NEW S, NEW s \in Seq(S), s # <<>>
    PROVE  /\ Head(s) = s[1] /\ Tail(s) \in Seq(S) /\ Len(Tail(s)) = Len(s) - 1
           /\ \A i \in 1..Len(Tail(s)) : Tail(s)[i] = s[i + 1]
OBVIOUS

\* The statistics of a block tell which block it is: two blocks with the same
\* statistics are one block.
LEMMA StatsInjective ==
    ASSUME NEW a \in Block, NEW b \in Block, StatsOf(a) = StatsOf(b)
    PROVE  a = b
PROOF
<1>1. a \in Path[a] /\ b \in Path[b]
  BY PathEnds
<1>2. StatsOf(a)[a] = 1 /\ StatsOf(b)[b] = 1
  BY <1>1 DEF StatsOf
<1>3. a \in Path[b]
  <2>1. StatsOf(b)[a] = IF a \in Path[b] THEN 1 ELSE 0
    BY DEF StatsOf
  <2> QED
    BY <2>1, <1>2
<1>4. b \in Path[a]
  <2>1. StatsOf(a)[b] = IF b \in Path[a] THEN 1 ELSE 0
    BY DEF StatsOf
  <2> QED
    BY <2>1, <1>2
<1> QED
  BY <1>3, <1>4, PathAntisymmetric

\* Appending a block to the statistics of its parent gives its own (CustomAppend
\* adds the outputs of the block to m_muhash).
LEMMA StatsAppended ==
    ASSUME NEW b \in Block
    PROVE  Appended(IF b = Genesis THEN NoStats ELSE StatsOf(Prev[b]), b) = StatsOf(b)
PROOF
<1>1. CASE b = Genesis
  BY <1>1, PathDef DEF Appended, NoStats, StatsOf
<1>2. CASE b # Genesis
  <2>1. Prev[b] \in Block /\ Path[b] = {b} \cup Path[Prev[b]]
    BY <1>2, PathDef, TreeAssumption
  <2>2. b \notin Path[Prev[b]]
    <3>1. SUFFICES ASSUME b \in Path[Prev[b]] PROVE FALSE
      OBVIOUS
    <3>2. Prev[b] \in Path[b] /\ Prev[b] \in Path[Prev[b]]
      BY <2>1, PathEnds
    <3>3. b = Prev[b]
      BY <3>1, <3>2, <2>1, PathAntisymmetric
    <3>4. Height[b] \in Nat /\ Height[b] = 1 + Height[Prev[b]]
      BY <1>2, HeightDef
    <3> QED
      BY <3>3, <3>4
  <2>3. Appended(StatsOf(Prev[b]), b) = StatsOf(b)
    <3> DEFINE f == StatsOf(Prev[b])
    <3>1. f = [c \in Block |-> IF c \in Path[Prev[b]] THEN 1 ELSE 0] /\ f[b] = 0
      BY <2>2 DEF StatsOf
    <3> HIDE DEF f
    <3>2. Appended(f, b) = [f EXCEPT ![b] = 1]
      <4>1. f[b] + 1 = 1
        BY <3>1
      <4> QED
        BY <4>1, Zenon DEF Appended
    <3>3. Appended(f, b) = [c \in Block |-> IF c = b THEN 1 ELSE f[c]]
      BY <3>1, <3>2
    <3>4. \A c \in Block : (IF c = b THEN 1 ELSE f[c]) = IF c \in Path[b] THEN 1 ELSE 0
      BY <3>1, <2>1
    <3> QED
      BY <3>3, <3>4 DEF StatsOf, f
  <2> QED
    BY <1>2, <2>3
<1> QED
  BY <1>1, <1>2

\* Reversing the blocks above an ancestor gives the statistics of the ancestor
\* (CustomRewind, ReverseBlock).
LEMMA StatsReversed ==
    ASSUME NEW b \in Block, NEW a \in Path[b]
    PROVE  Reversed(StatsOf(b), b, a) = StatsOf(a)
PROOF
<1>1. a \in Block /\ Path[a] \subseteq Path[b]
  BY PathTransitive
<1> QED
  BY <1>1 DEF Reversed, StatsOf

\* A commit at a block the database holds leaves a right database whose best
\* block is that one (BaseIndex::Commit writes the locator and the state).
LEMMA CommitRight ==
    ASSUME NEW d, DbIsRight(d), NEW b \in Block, Holds(d, b)
    PROVE  /\ DbIsRight(Commit(d, b, StatsOf(b)))
           /\ Commit(d, b, StatsOf(b)).best = b
           /\ Commit(d, b, StatsOf(b)).byHash = d.byHash
           /\ \A c : Holds(d, c) => Holds(Commit(d, b, StatsOf(b)), c)
PROOF
<1> DEFINE e == Commit(d, b, StatsOf(b))
<1>1. e = [best |-> b, muhash |-> StatsOf(b), byHeight |-> d.byHeight, byHash |-> d.byHash]
  <2>1. d = [best |-> d.best, muhash |-> d.muhash, byHeight |-> d.byHeight, byHash |-> d.byHash]
    BY DEF DbIsRight
  <2>2. b # Nil
    BY NilAssumption
  <2>3. e = [d EXCEPT !.best = b, !.muhash = StatsOf(b)]
    BY <2>2 DEF Commit
  <2> HIDE DEF e
  <2> QED
    BY <2>1, <2>3, Zenon
<1> HIDE DEF e
<1>2. e.best = b /\ e.muhash = StatsOf(b) /\ e.byHeight = d.byHeight /\ e.byHash = d.byHash
  BY <1>1
<1>3. \A c : Holds(d, c) => Holds(e, c)
  BY <1>2 DEF Holds
<1>4. DbIsRight(e)
  BY <1>1, <1>2, <1>3, NilAssumption DEF DbIsRight
<1> QED
  BY <1>2, <1>3, <1>4 DEF e

\* CustomAppend of the block after the one the statistics are of succeeds (the
\* entry of the parent is found) and leaves a right database.
LEMMA AppendRight ==
    ASSUME NEW d, DbIsRight(d), NEW b \in Block, NEW stats,
           stats = IF b = Genesis THEN NoStats ELSE StatsOf(Prev[b]),
           b # Genesis => Holds(d, Prev[b]),
           d.best # Nil => b # Genesis /\ d.best \in Path[Prev[b]]
    PROVE  /\ CanAppend(d, b)
           /\ Appended(stats, b) = StatsOf(b)
           /\ DbIsRight(CustomAppend(d, stats, b))
           /\ Holds(CustomAppend(d, stats, b), b)
           /\ CustomAppend(d, stats, b).best = d.best
           /\ CustomAppend(d, stats, b).byHash = d.byHash
PROOF
<1> DEFINE e == CustomAppend(d, stats, b)
           entry == [block |-> b, stats |-> StatsOf(b)]
           heights == [h \in DOMAIN d.byHeight \cup {Height[b]} |->
                          IF h = Height[b] THEN entry ELSE d.byHeight[h]]
<1>1. Appended(stats, b) = StatsOf(b)
  BY StatsAppended
<1>2. CanAppend(d, b)
  <2>1. CASE b = Genesis
    BY <2>1 DEF CanAppend
  <2>2. CASE b # Genesis
    <3>1. Prev[b] \in Path[Prev[b]]
      BY <2>2, PathEnds, TreeAssumption
    <3> QED
      BY <2>2, <3>1 DEF CanAppend, Known, AtHeight, Holds
  <2> QED
    BY <2>1, <2>2
<1>3. e = [best |-> d.best, muhash |-> d.muhash, byHeight |-> heights, byHash |-> d.byHash]
  <2>1. d = [best |-> d.best, muhash |-> d.muhash, byHeight |-> d.byHeight, byHash |-> d.byHash]
    BY DEF DbIsRight
  <2>3. e = [d EXCEPT !.byHeight = heights]
    BY <1>1 DEF CustomAppend
  <2> HIDE DEF e, heights
  <2> QED
    BY <2>1, <2>3
<1> HIDE DEF e
<1>4. e.best = d.best /\ e.muhash = d.muhash /\ e.byHeight = heights /\ e.byHash = d.byHash
  BY <1>3
<1>5. /\ DOMAIN e.byHeight = DOMAIN d.byHeight \cup {Height[b]}
      /\ e.byHeight[Height[b]] = entry
      /\ \A h \in DOMAIN d.byHeight : h # Height[b] => e.byHeight[h] = d.byHeight[h]
  BY <1>4
<1> HIDE DEF heights
<1>6. b # Genesis => \A a \in Path[Prev[b]] : a \in Block /\ Height[a] # Height[b]
  <2>1. SUFFICES ASSUME b # Genesis, NEW a \in Path[Prev[b]]
                 PROVE  a \in Block /\ Height[a] # Height[b]
    OBVIOUS
  <2>2. Prev[b] \in Block /\ Path[b] = {b} \cup Path[Prev[b]] /\ Height[b] = 1 + Height[Prev[b]]
    BY <2>1, PathDef, HeightDef, TreeAssumption
  <2>3. a \in Block
    BY <2>1, <2>2, PathTransitive
  <2>4. Height[a] \in Nat /\ Height[Prev[b]] \in Nat /\ Height[a] <= Height[Prev[b]]
    BY <2>1, <2>2, <2>3, AncestorIsLess, HeightDef
  <2> QED
    BY <2>2, <2>3, <2>4
<1>7. b # Genesis => Holds(e, Prev[b])
  BY <1>5, <1>6 DEF Holds
<1>8. Holds(e, b)
  <2>1. CASE b = Genesis
    BY <2>1, <1>5, PathDef DEF Holds
  <2>2. CASE b # Genesis
    <3>1. Path[b] = {b} \cup Path[Prev[b]]
      BY <2>2, PathDef
    <3> QED
      BY <3>1, <2>2, <1>7, <1>5 DEF Holds
  <2> QED
    BY <2>1, <2>2
<1>9. e.best # Nil => Holds(e, e.best)
  <2>1. SUFFICES ASSUME e.best # Nil PROVE Holds(e, e.best)
    OBVIOUS
  <2>2. b # Genesis /\ e.best \in Path[Prev[b]] /\ Prev[b] \in Block
    BY <2>1, <1>4, TreeAssumption
  <2>3. Path[e.best] \subseteq Path[Prev[b]]
    BY <2>2, PathTransitive
  <2> QED
    BY <2>2, <2>3, <1>7 DEF Holds
<1>10. \A h \in DOMAIN e.byHeight :
         \E c \in Block : Height[c] = h /\ e.byHeight[h] = [block |-> c, stats |-> StatsOf(c)]
  BY <1>5 DEF DbIsRight
<1>11. DbIsRight(e)
  BY <1>3, <1>4, <1>5, <1>9, <1>10 DEF DbIsRight
<1> QED
  BY <1>1, <1>2, <1>4, <1>8, <1>11 DEF e

\* CustomRewind from a block the database holds to an ancestor never fails its
\* checks of the muhash, and copying the height index to the hash index first
\* keeps every replaced block known.
LEMMA RewindRight ==
    ASSUME NEW d, DbIsRight(d), NEW from \in Block, NEW to \in Path[from], Holds(d, from)
    PROVE  /\ CanRewind(d, StatsOf(from), from, to)
           /\ Reversed(StatsOf(from), from, to) = StatsOf(to)
           /\ DbIsRight(CopyHeightIndexToHashIndex(d, from, to))
           /\ Holds(CopyHeightIndexToHashIndex(d, from, to), to)
           /\ DOMAIN d.byHash \subseteq DOMAIN CopyHeightIndexToHashIndex(d, from, to).byHash
           /\ Path[from] \ Path[to] \subseteq DOMAIN CopyHeightIndexToHashIndex(d, from, to).byHash
PROOF
<1> DEFINE e == CopyHeightIndexToHashIndex(d, from, to)
           copied == {d.byHeight[h].block : h \in Rewinding(from, to)}
           hashes == [b \in DOMAIN d.byHash \cup copied |->
                        IF b \in copied THEN d.byHeight[Height[b]].stats ELSE d.byHash[b]]
<1>1. to \in Block /\ Path[to] \subseteq Path[from] /\ Path[from] \subseteq Block
  BY PathTransitive, PathEnds
<1>2. Height[to] \in Nat /\ Height[from] \in Nat /\ Height[to] <= Height[from]
  BY <1>1, HeightDef, AncestorIsLess
<1>3. \A h \in Rewinding(from, to) : \E a \in Path[from] : Height[a] = h
  <2>1. SUFFICES ASSUME NEW h \in Rewinding(from, to) PROVE \E a \in Path[from] : Height[a] = h
    OBVIOUS
  <2>2. h \in 0..Height[from]
    BY <1>2 DEF Rewinding
  <2> QED
    BY <2>2, AncestorAt
<1>4. \A h \in Rewinding(from, to) :
         h \in DOMAIN d.byHeight /\ d.byHeight[h].block \in Path[from] /\ Height[d.byHeight[h].block] = h
  BY <1>3 DEF Holds
<1>5. \A a \in Path[from] \ Path[to] : Height[a] \in Rewinding(from, to)
  <2>1. SUFFICES ASSUME NEW a \in Path[from], a \notin Path[to] PROVE Height[a] \in Height[to]..Height[from]
    BY DEF Rewinding
  <2>2. to \in Path[a]
    BY <2>1, PathLinear
  <2>3. a \in Block /\ Height[a] \in Nat
    BY <1>1, <2>1, HeightDef
  <2>4. Height[a] <= Height[from]
    BY <2>1, <1>2, <2>3, AncestorIsLess
  <2>5. Height[to] <= Height[a]
    BY <2>2, <1>2, <2>3, AncestorIsLess
  <2> QED
    BY <1>2, <2>3, <2>4, <2>5
<1>6. Path[from] \ Path[to] \subseteq copied
  BY <1>5 DEF Holds
<1>7. \A b \in copied : b \in Path[from] /\ d.byHeight[Height[b]].block = b
                        /\ Height[b] \in DOMAIN d.byHeight
  BY <1>4
<1>8. Reversed(StatsOf(from), from, to) = StatsOf(to)
  BY StatsReversed
<1>9. \A b \in Path[from] : d.byHeight[Height[b]].stats = StatsOf(b)
  BY DEF Holds, DbIsRight
<1>10. CanRewind(d, StatsOf(from), from, to)
  <2>1. SUFFICES ASSUME NEW c \in Path[from] \ Path[to]
                 PROVE  Known(d, Prev[c]) /\ LookUpOne(d, Prev[c]) = Reversed(StatsOf(from), from, Prev[c])
    BY <1>4 DEF CanRewind
  <2>2. c # Genesis
    BY <1>1, PathEnds
  <2>3. Prev[c] \in Path[from]
    BY <2>2, PrevInPath
  <2>4. Reversed(StatsOf(from), from, Prev[c]) = StatsOf(Prev[c])
    BY <2>3, StatsReversed
  <2>5. Known(d, Prev[c]) /\ AtHeight(d, Prev[c])
    BY <2>3 DEF Holds, Known, AtHeight
  <2> QED
    BY <2>3, <2>4, <2>5, <1>9 DEF LookUpOne
<1>11. e = [best |-> d.best, muhash |-> d.muhash, byHeight |-> d.byHeight, byHash |-> hashes]
  <2>1. d = [best |-> d.best, muhash |-> d.muhash, byHeight |-> d.byHeight, byHash |-> d.byHash]
    BY DEF DbIsRight
  <2>3. e = [d EXCEPT !.byHash = hashes]
    BY DEF CopyHeightIndexToHashIndex
  <2> HIDE DEF e, hashes
  <2> QED
    BY <2>1, <2>3
<1> HIDE DEF e
<1>12. e.best = d.best /\ e.muhash = d.muhash /\ e.byHeight = d.byHeight /\ e.byHash = hashes
  BY <1>11
<1>13. /\ DOMAIN e.byHash = DOMAIN d.byHash \cup copied
       /\ \A b \in copied : e.byHash[b] = d.byHeight[Height[b]].stats
       /\ \A b \in DOMAIN d.byHash \ copied : e.byHash[b] = d.byHash[b]
  BY <1>12
<1> HIDE DEF hashes, copied
<1>14. \A c : Holds(d, c) => Holds(e, c)
  BY <1>12 DEF Holds
<1>15. Holds(e, to)
  BY <1>1, <1>14 DEF Holds
<1>16. \A b \in DOMAIN e.byHash : b \in Block /\ e.byHash[b] = StatsOf(b) /\ Height[b] \in DOMAIN e.byHeight
  BY <1>13, <1>7, <1>9, <1>12, <1>1 DEF DbIsRight
<1>17. DbIsRight(e)
  BY <1>11, <1>12, <1>14, <1>16 DEF DbIsRight
<1> QED
  BY <1>6, <1>8, <1>10, <1>13, <1>15, <1>17 DEF e

-----------------------------------------------------------------------------

\* What the types say of the state, in the form the other proofs cite.
LEMMA Typed ==
    ASSUME IInv
    PROVE  /\ \A b \in Block : b # Nil
           /\ activeTip \in Block \cup {Nil} /\ flushedTip \in Block \cup {Nil}
           /\ m_best_block_index \in Block \cup {Nil} /\ pindex \in Block \cup {Nil}
           /\ Len(notices) \in Nat /\ DOMAIN notices = 1..Len(notices)
           /\ \A i \in 1..Len(notices) : notices[i].block \in Block
           /\ caller.left \in Nat /\ caller.left <= Len(notices)
PROOF
<1>1. notices \in Seq([kind : {"connected", "flushed"}, block : Block])
  BY DEF IInv, Queue
<1>2. Len(notices) \in Nat /\ DOMAIN notices = 1..Len(notices)
  BY <1>1, SeqElements
<1>3. \A i \in 1..Len(notices) : notices[i] \in [kind : {"connected", "flushed"}, block : Block]
  BY <1>1, <1>2, SeqElements, Zenon
<1> QED
  BY <1>2, <1>3, NilAssumption DEF IInv, IndexTypeOK

\* An entry that is found by LookUpOne has the statistics of the block asked for.
LEMMA LookUpRight ==
    ASSUME NEW d, DbIsRight(d), NEW b \in Block, Known(d, b)
    PROVE  LookUpOne(d, b) = StatsOf(b)
PROOF
  BY DEF DbIsRight, Known, LookUpOne, AtHeight

\* Every block on the path to a block the database holds is found by LookUpOne.
LEMMA HoldsKnown ==
    ASSUME NEW d, NEW b \in Block, Holds(d, b)
    PROVE  \A a \in Path[b] : Known(d, a)
PROOF
  BY DEF Holds, Known, AtHeight

\* After one batch the database, and what a crash leaves of it, is right.
LEMMA WroteOne ==
    ASSUME NEW e, Write(<<e>>), DbIsRight(e), DbIsRight(durable)
    PROVE  db' = e /\ DbIsRight(db)' /\ DbIsRight(durable)'
PROOF
<1>1. db' = e /\ (durable' = durable \/ durable' = e)
  BY DEF Write
<1>2. DbIsRight(db)'
  BY <1>1
<1>3. DbIsRight(durable)'
  BY <1>1
<1> QED
  BY <1>1, <1>2, <1>3

\* The same after the two batches of a rewind.
LEMMA WroteTwo ==
    ASSUME NEW c, NEW d, Write(<<c, d>>), DbIsRight(c), DbIsRight(d), DbIsRight(durable)
    PROVE  db' = d /\ DbIsRight(db)' /\ DbIsRight(durable)'
PROOF
<1>1. db' = d /\ (durable' = durable \/ durable' = c \/ durable' = d)
  BY DEF Write
<1>2. DbIsRight(db)'
  BY <1>1
<1>3. DbIsRight(durable)'
  BY <1>1
<1> QED
  BY <1>1, <1>2, <1>3

\* Rewind: both states the database goes through are right, the second one
\* commits at the ancestor, and every abandoned block is in the hash index.
LEMMA RewoundRight ==
    ASSUME DbIsRight(db), NEW from \in Block, NEW to \in Path[from], Holds(db, from),
           running = StatsOf(from)
    PROVE  /\ CanRewind(db, running, from, to)
           /\ Reversed(running, from, to) = StatsOf(to)
           /\ \E c, d : /\ RewindStates(from, to) = <<c, d>>
                        /\ DbIsRight(c) /\ DbIsRight(d)
                        /\ d.best = to /\ Holds(d, to)
                        /\ DOMAIN db.byHash \subseteq DOMAIN d.byHash
                        /\ Path[from] \ Path[to] \subseteq DOMAIN d.byHash
PROOF
<1> DEFINE c == CopyHeightIndexToHashIndex(db, from, to)
           d == Commit(c, to, StatsOf(to))
<1>1. /\ CanRewind(db, StatsOf(from), from, to)
      /\ Reversed(StatsOf(from), from, to) = StatsOf(to)
      /\ DbIsRight(c) /\ Holds(c, to)
      /\ DOMAIN db.byHash \subseteq DOMAIN c.byHash
      /\ Path[from] \ Path[to] \subseteq DOMAIN c.byHash
  <2>1. \A x : DbIsRight(x) /\ Holds(x, from) =>
           /\ CanRewind(x, StatsOf(from), from, to)
           /\ Reversed(StatsOf(from), from, to) = StatsOf(to)
           /\ DbIsRight(CopyHeightIndexToHashIndex(x, from, to))
           /\ Holds(CopyHeightIndexToHashIndex(x, from, to), to)
           /\ DOMAIN x.byHash \subseteq DOMAIN CopyHeightIndexToHashIndex(x, from, to).byHash
           /\ Path[from] \ Path[to] \subseteq DOMAIN CopyHeightIndexToHashIndex(x, from, to).byHash
    BY RewindRight
  <2> QED
    BY <2>1, Zenon
<1>2. to \in Block
  BY PathTransitive
<1>3. RewindStates(from, to) = <<c, d>>
  BY <1>1 DEF RewindStates
<1> HIDE DEF c
<1>4. DbIsRight(d) /\ d.best = to /\ d.byHash = c.byHash /\ Holds(d, to)
  BY <1>1, <1>2, CommitRight
<1> HIDE DEF d
<1> QED
  BY <1>1, <1>3, <1>4

\* The invariant holds in a new data directory.
LEMMA IndexInitIInv ==
    ASSUME IndexInit PROVE IInv
PROOF
<1>1. DbIsRight(EmptyDb)
  BY NilAssumption DEF DbIsRight, EmptyDb
<1>2. notices \in Seq([kind : {"connected", "flushed"}, block : Block]) /\ Len(notices) = 0
        /\ DOMAIN notices = {}
  BY SeqEmpty DEF IndexInit
<1>3. IndexTypeOK
  <2>1. caller.tip = Nil /\ caller.left = 0
    BY DEF IndexInit, NoCaller
  <2>2. caller.left \in 0..Len(notices) /\ moves \in 0..MaxMoves /\ restarts \in Nat
    BY <1>2, <2>1, IndexAssumption DEF IndexInit
  <2> QED
    BY <2>1, <2>2, Zenon DEF IndexInit, IndexTypeOK
<1>4. Memory /\ Control
  BY <1>2 DEF IndexInit, Memory, Control, Up, EmptyDb
<1>5. Queue
  BY <1>2 DEF IndexInit, Queue
<1>6. Caller
  BY DEF IndexInit, Caller, NoCaller
<1> QED
  BY <1>1, <1>3, <1>4, <1>5, <1>6 DEF IInv, IndexInit

\* What may be queued.
NoticeSet == [kind : {"connected", "flushed"}, block : Block]

\* Interrupt preserves the invariant.
LEMMA InterruptIInv ==
    ASSUME IInv, Interrupt
    PROVE  IInv'
PROOF
<1>1. /\ mode = "run" /\ mode' = "stopping" /\ activeTip # Nil /\ Up /\ Up'
      /\ UNCHANGED <<activeTip, flushedTip, moves, notices, restarts, m_best_block_index, m_synced, running,
                     syncAt, pindex, db, durable, caller>>
  BY DEF Interrupt, Up, chainVars, memoryVars, diskVars
<1>4. IndexTypeOK'
  BY <1>1 DEF IInv, IndexTypeOK
<1>5. DbIsRight(db)' /\ DbIsRight(durable)'
  BY <1>1 DEF IInv
<1>6. Memory'
  BY <1>1 DEF IInv, Memory, Holds, IndexedUpTo
<1>7. Control'
  BY <1>1 DEF IInv, Control
<1>8. Queue'
  BY <1>1 DEF IInv, Queue, IsConnected, Links, Follows
<1>9. Caller'
  BY <1>1 DEF IInv, Caller, IsConnected, Links
<1> QED
  BY <1>4, <1>5, <1>6, <1>7, <1>8, <1>9 DEF IInv

\* The end of a process, orderly or not, leaves the disks as a later start may
\* find them: the databases are right, nothing is left of the memory.
LEMMA EndsIInv ==
    ASSUME IInv, Ends, flushedTip # Nil, DbIsRight(db)', DbIsRight(durable)'
    PROVE  IInv'
PROOF
<1>1. /\ mode' = "down" /\ activeTip' = flushedTip /\ notices' = <<>>
      /\ m_best_block_index' = Nil /\ m_synced' = FALSE /\ syncAt' = "done" /\ pindex' = Nil
      /\ caller' = NoCaller /\ UNCHANGED <<flushedTip, moves>>
  BY DEF Ends
<1>2. /\ notices' \in Seq([kind : {"connected", "flushed"}, block : Block])
      /\ Len(notices') = 0 /\ DOMAIN notices' = {}
  BY <1>1, SeqEmpty
<1>3. IndexTypeOK'
  <2>1. caller'.tip = Nil /\ caller'.left = 0
    BY <1>1 DEF NoCaller
  <2>2. caller'.left \in 0..Len(notices')
    BY <2>1, <1>2
  <2>3. restarts' \in Nat
    BY DEF IInv, IndexTypeOK, Ends
  <2> QED
    BY <2>1, <2>2, <2>3, <1>1, Zenon DEF IInv, IndexTypeOK
<1>4. Memory' /\ Control'
  BY <1>1 DEF Memory, Control, Up
<1>5. Queue'
  BY <1>1, <1>2 DEF Queue
<1>6. Caller'
  BY <1>1 DEF Caller, NoCaller
<1> QED
  BY <1>3, <1>4, <1>5, <1>6 DEF IInv

\* A crash preserves the invariant: what is left of the index database is right.
LEMMA CrashIInv ==
    ASSUME IInv, Crash
    PROVE  IInv'
PROOF
<1>1. DbIsRight(db)' /\ DbIsRight(durable)'
  BY DEF Crash, IInv
<1> QED
  BY <1>1, EndsIInv DEF Crash

\* Stop preserves the invariant.
LEMMA StopIndexIInv ==
    ASSUME IInv, StopIndex
    PROVE  IInv'
PROOF
<1>1. DbIsRight(db)' /\ DbIsRight(durable)'
  BY DEF StopIndex, IInv
<1>2. flushedTip # Nil
  BY DEF StopIndex, IInv, Control
<1> QED
  BY <1>1, <1>2, EndsIInv DEF StopIndex

\* The removal of an index that was refused at the start preserves the invariant.
LEMMA WipeIInv ==
    ASSUME IInv, Wipe
    PROVE  IInv'
PROOF
<1>1. /\ mode = "refused" /\ mode' = "down" /\ db' = EmptyDb /\ durable' = EmptyDb
      /\ UNCHANGED <<activeTip, flushedTip, moves, notices, restarts, m_best_block_index, m_synced, running,
                     syncAt, pindex, caller>>
  BY DEF Wipe, chainVars, memoryVars
<1>2. activeTip # Nil /\ notices = <<>> /\ caller = NoCaller /\ ~m_synced /\ syncAt = "done"
        /\ activeTip = flushedTip
  BY <1>1 DEF IInv, Control
<1>4. IndexTypeOK'
  BY <1>1 DEF IInv, IndexTypeOK
<1>5. DbIsRight(db)' /\ DbIsRight(durable)'
  BY <1>1, NilAssumption DEF DbIsRight, EmptyDb
<1>6. Memory'
  BY <1>1 DEF Memory, Up
<1>7. Control'
  BY <1>1, <1>2 DEF Control
<1>8. Queue'
  BY <1>1, <1>2 DEF IInv, Queue, IsConnected, Links, Follows
<1>9. Caller'
  BY <1>1, <1>2 DEF Caller, NoCaller
<1> QED
  BY <1>4, <1>5, <1>6, <1>7, <1>8, <1>9 DEF IInv

\* Init and CustomInit preserve the invariant: the statistics read back are those
\* of the block the index starts from, and it is refused only if the committed
\* block has left the chain.
LEMMA StartIInv ==
    ASSUME IInv, Start
    PROVE  IInv'
PROOF
<1>1. /\ mode = "down"
      /\ UNCHANGED <<activeTip, flushedTip, moves, notices, restarts, db, durable, caller>>
  BY DEF Start, chainVars, diskVars
<1>2. notices = <<>> /\ caller = NoCaller /\ ~m_synced /\ syncAt = "done" /\ activeTip = flushedTip
  BY <1>1 DEF IInv, Control
<1>3. activeTip = Nil => db.best = Nil
  BY <1>1, <1>2 DEF IInv, Control
<1>4. /\ db.best \in Block \cup {Nil} /\ activeTip \in Block \cup {Nil}
      /\ \A b \in Block : b # Nil
  BY Typed DEF IInv, DbIsRight
<1>5. DbIsRight(db)' /\ DbIsRight(durable)'
  BY <1>1 DEF IInv
<1>6. DOMAIN notices' = {} /\ Len(notices') = 0 /\ caller'.tip = Nil /\ caller'.left = 0
  BY <1>1, <1>2, SeqEmpty DEF NoCaller
<1>7. Caller'
  BY <1>1, <1>2 DEF Caller, NoCaller
<1>8. StoredBest # Nil =>
         /\ StoredBest \in Block /\ activeTip \in Block /\ db.best \in Block
         /\ StoredBest = FindFork(activeTip, db.best)
         /\ db.muhash = StatsOf(db.best)
         /\ Holds(db, db.best)
  <2>1. SUFFICES ASSUME StoredBest # Nil
                 PROVE  /\ StoredBest \in Block /\ activeTip \in Block /\ db.best \in Block
                        /\ StoredBest = FindFork(activeTip, db.best)
                        /\ db.muhash = StatsOf(db.best) /\ Holds(db, db.best)
    OBVIOUS
  <2>2. db.best # Nil /\ activeTip # Nil /\ StoredBest = FindFork(activeTip, db.best)
    BY <2>1 DEF StoredBest
  <2> QED
    BY <2>2, <1>4, ForkIs DEF IInv, DbIsRight
<1>9. CASE CanInit
  <2>1. /\ mode' = "run" /\ m_best_block_index' = StoredBest /\ m_synced' = (StoredBest = activeTip)
        /\ running' = db.muhash /\ pindex' = StoredBest
        /\ syncAt' = IF StoredBest = activeTip THEN "done" ELSE "next"
    BY <1>9 DEF Start
  <2>2. CASE StoredBest = Nil
    <3>1. db.best = Nil
      BY <2>2, <1>3, <1>4, ForkIs DEF StoredBest
    <3>2. db.muhash = NoStats
      BY <3>1 DEF IInv, DbIsRight
    <3>3. IndexedUpTo' = Nil
      BY <2>1, <2>2 DEF IndexedUpTo
    <3>4. Memory'
      BY <3>1, <3>2, <3>3, <2>1, <1>1 DEF Memory
    <3>5. Control'
      <4>1. activeTip = Nil => m_synced' /\ syncAt' = "done"
        BY <2>1, <2>2, Zenon
      <4>2. (m_synced' <=> syncAt' = "done") /\ syncAt' \notin {"locator", "append"}
        BY <2>1, Zenon
      <4> QED
        BY <4>1, <4>2, <2>1, <2>2, <1>1, <1>2, <1>6 DEF Control, Up
    <3>6. Queue'
      BY <2>1, <2>2, <1>1, <1>6, Zenon DEF IInv, Queue
    <3>7. IndexTypeOK'
      BY <2>1, <2>2, <1>1, <1>6 DEF IInv, IndexTypeOK
    <3> QED
      BY <3>4, <3>5, <3>6, <3>7, <1>5, <1>7 DEF IInv
  <2>3. CASE StoredBest # Nil
    <3>1. StoredBest = db.best
      <4>1. Known(db, StoredBest) /\ LookUpOne(db, StoredBest) = db.muhash
        BY <1>9, <2>3 DEF CanInit
      <4>2. StatsOf(StoredBest) = StatsOf(db.best)
        BY <4>1, <2>3, <1>8, LookUpRight DEF IInv
      <4> QED
        BY <4>2, <2>3, <1>8, StatsInjective
    <3>2. db.best \in Block /\ db.best # Nil /\ db.best \in Path[db.best] /\ activeTip # Nil
      BY <2>3, <1>4, <1>8, PathEnds
    <3>3. IndexedUpTo' = db.best
      BY <2>1, <3>1 DEF IndexedUpTo
    <3>4. Memory'
      BY <3>1, <3>2, <3>3, <2>1, <2>3, <1>1, <1>8 DEF Memory, Holds
    <3>5. Control'
      <4>2. (m_synced' <=> syncAt' = "done") /\ syncAt' \notin {"locator", "append"}
        BY <2>1, Zenon
      <4> QED
        BY <4>2, <3>2, <2>1, <1>1, <1>2, <1>6 DEF Control, Up
    <3>6. Queue'
      BY <3>1, <3>2, <2>1, <1>1, <1>6, Zenon DEF IInv, Queue
    <3>7. IndexTypeOK'
      BY <3>1, <3>2, <2>1, <1>1, <1>6 DEF IInv, IndexTypeOK
    <3> QED
      BY <3>4, <3>5, <3>6, <3>7, <1>5, <1>7 DEF IInv
  <2> QED
    BY <2>2, <2>3
<1>10. CASE ~CanInit
  <2>1. /\ mode' = "refused"
        /\ UNCHANGED <<m_best_block_index, m_synced, running, syncAt, pindex>>
    BY <1>10 DEF Start, memoryVars
  <2>2. StoredBest # Nil /\ ~(Known(db, StoredBest) /\ LookUpOne(db, StoredBest) = db.muhash)
    BY <1>10 DEF CanInit
  <2>3. db.best \notin Path[activeTip]
    <3>1. SUFFICES ASSUME db.best \in Path[activeTip] PROVE FALSE
      OBVIOUS
    <3>2. StoredBest = db.best
      BY <2>2, <1>8, <3>1, ForkOfAncestor
    <3>3. Known(db, db.best)
      BY <2>2, <1>8, PathEnds, HoldsKnown
    <3>4. LookUpOne(db, db.best) = StatsOf(db.best)
      BY <3>3, <2>2, <1>8, LookUpRight DEF IInv
    <3> QED
      BY <2>2, <3>2, <3>3, <3>4, <1>8
  <2>4. Memory'
    BY <2>1 DEF Memory, Up
  <2>5. Control'
    BY <2>1, <2>2, <2>3, <1>1, <1>2, <1>4, <1>8 DEF Control, Up
  <2>6. Queue'
    BY <2>1, <1>1, <1>2, <1>6 DEF IInv, Queue
  <2>7. IndexTypeOK'
    BY <2>1, <1>1 DEF IInv, IndexTypeOK
  <2> QED
    BY <2>4, <2>5, <2>6, <2>7, <1>5, <1>7 DEF IInv
<1> QED
  BY <1>9, <1>10

\* CChain::Next of a block of the active chain is its child on that chain.
LEMMA SuccessorIs ==
    ASSUME activeTip \in Block, NEW b \in Path[activeTip]
    PROVE  /\ SuccessorOf(b) = Nil => b = activeTip
           /\ SuccessorOf(b) # Nil =>
                /\ SuccessorOf(b) \in Block /\ SuccessorOf(b) # Genesis
                /\ SuccessorOf(b) \in Path[activeTip] /\ Prev[SuccessorOf(b)] = b
PROOF
<1> DEFINE next == {c \in Path[activeTip] : PrevOf(c) = b}
<1>1. Path[activeTip] \subseteq Block /\ b \in Block
  BY PathEnds
<1>2. \A c \in next : c \in Block /\ c # Genesis /\ c \in Path[activeTip] /\ Prev[c] = b /\ c # Nil
  BY <1>1, NilAssumption DEF PrevOf
<1>3. SuccessorOf(b) = IF next = {} THEN Nil ELSE CHOOSE c \in next : TRUE
  BY DEF SuccessorOf
<1>4. b # activeTip => next # {}
  BY ChildOnPath DEF PrevOf
<1> HIDE DEF next
<1>5. CASE next = {}
  BY <1>3, <1>4, <1>5
<1>6. CASE next # {}
  <2>1. SuccessorOf(b) \in next
    BY <1>3, <1>6
  <2> QED
    BY <2>1, <1>2
<1> QED
  BY <1>5, <1>6

\* NextSyncBlock returns the block after the last common ancestor of its
\* argument and the active chain, and Nil only for the active tip.
LEMMA NextSyncBlockIs ==
    ASSUME activeTip \in Block, pindex \in Block \cup {Nil}
    PROVE  /\ pindex = Nil => NextSyncBlock(pindex) = Genesis
           /\ pindex # Nil /\ NextSyncBlock(pindex) = Nil => activeTip \in Path[pindex]
           /\ pindex # Nil /\ NextSyncBlock(pindex) # Nil =>
                /\ NextSyncBlock(pindex) \in Block /\ NextSyncBlock(pindex) # Genesis
                /\ Prev[NextSyncBlock(pindex)] \in Path[pindex]
PROOF
<1>1. CASE pindex = Nil
  BY <1>1 DEF NextSyncBlock
<1>2. CASE pindex # Nil
  <2>1. pindex \in Block /\ NextSyncBlock(pindex) = SuccessorOf(FindFork(activeTip, pindex))
    BY <1>2 DEF NextSyncBlock
  <2>2. FindFork(activeTip, pindex) \in Path[activeTip] /\ FindFork(activeTip, pindex) \in Path[pindex]
    BY <2>1, ForkIs
  <2>3. \A f \in Path[activeTip] :
          /\ SuccessorOf(f) = Nil => f = activeTip
          /\ SuccessorOf(f) # Nil =>
                /\ SuccessorOf(f) \in Block /\ SuccessorOf(f) # Genesis /\ Prev[SuccessorOf(f)] = f
    BY SuccessorIs
  <2> QED
    BY <1>2, <2>1, <2>2, <2>3
<1> QED
  BY <1>1, <1>2

\* While the sync thread runs the index is not synced and nobody waits on it.
LEMMA Syncing ==
    ASSUME IInv, Up, syncAt # "done"
    PROVE  /\ ~m_synced /\ caller.tip = Nil /\ flushedTip # Nil /\ activeTip \in Block
           /\ activeTip # Nil
PROOF
  BY Typed DEF IInv, Control, Caller

\* A step of the sync thread before it is synced keeps the queue conditions.
LEMMA SyncingQueue ==
    ASSUME IInv, Up, syncAt # "done", ~m_synced', UNCHANGED <<notices, activeTip, caller>>
    PROVE  Queue' /\ Caller'
PROOF
<1>1. ~m_synced /\ caller.tip = Nil
  BY Syncing
<1>2. \A i : IsConnected(i)' = IsConnected(i)
  BY DEF IsConnected
<1>3. \A i, j : Follows(j, i)' = Follows(j, i)
  BY <1>2 DEF Follows
<1>4. Queue'
  BY <1>1, <1>2, <1>3, Zenon DEF IInv, Queue
<1>5. Caller'
  BY <1>1 DEF IInv, Caller
<1> QED
  BY <1>4, <1>5

\* ThreadSync preserves the invariant when it finds no further block: m_synced is
\* set with the last block it appended.
LEMMA SyncEndsIInv ==
    ASSUME IInv, Up, syncAt = "next", SyncEnds
    PROVE  IInv'
PROOF
<1>1. /\ Interrupted \/ NextSyncBlock(pindex) = Nil
      /\ m_best_block_index' = pindex /\ m_synced' = ~Interrupted /\ syncAt' = "done"
      /\ Write(<<Commit(db, pindex, running)>>)
      /\ UNCHANGED <<running, pindex, activeTip, flushedTip, moves, restarts, mode, notices, caller>>
  BY DEF SyncEnds
<1>2. ~m_synced /\ caller.tip = Nil /\ flushedTip # Nil /\ activeTip \in Block /\ activeTip # Nil
  BY Syncing
<1>3. pindex \in Block \cup {Nil} /\ \A b \in Block : b # Nil
  BY Typed
<1>4. IndexedUpTo = pindex /\ IndexedUpTo' = pindex
  BY <1>1 DEF IndexedUpTo
<1>5. /\ running = IF pindex = Nil THEN NoStats ELSE StatsOf(pindex)
      /\ pindex # Nil => Holds(db, pindex)
      /\ db.best # Nil => pindex # Nil /\ db.best \in Path[pindex]
  BY <1>4 DEF IInv, Memory
<1>6. /\ DbIsRight(Commit(db, pindex, running))
      /\ Commit(db, pindex, running).best = pindex
      /\ pindex # Nil => Holds(Commit(db, pindex, running), pindex)
  <2>1. CASE pindex = Nil
    BY <2>1, <1>5 DEF Commit, IInv
  <2>2. CASE pindex # Nil
    <3>1. pindex \in Block /\ Holds(db, pindex) /\ running = StatsOf(pindex)
      BY <2>2, <1>3, <1>5
    <3> QED
      BY <3>1, CommitRight DEF IInv
  <2> QED
    BY <2>1, <2>2
<1>7. db' = Commit(db, pindex, running) /\ DbIsRight(db)' /\ DbIsRight(durable)'
  BY <1>1, <1>6, WroteOne DEF IInv
<1>8. Memory'
  <2>1. pindex # Nil => pindex \in Path[pindex]
    BY <1>3, PathEnds
  <2> QED
    BY <2>1, <1>1, <1>4, <1>5, <1>6, <1>7 DEF Memory, Holds
<1>9. Control'
  <2>1. m_synced' = (mode' = "run")
    BY <1>1 DEF Interrupted
  <2> QED
    BY <2>1, <1>1, <1>2, Zenon DEF Control, Up, IInv
<1>10. Queue' /\ Caller'
  <2>1. CASE ~m_synced'
    BY <2>1, <1>1, SyncingQueue
  <2>2. CASE m_synced'
    <3>1. pindex # Nil /\ activeTip \in Path[pindex]
      BY <2>2, <1>1, <1>2, <1>3, NextSyncBlockIs, TreeAssumption, Zenon
    <3>2. \A i : IsConnected(i)' = IsConnected(i)
      BY <1>1 DEF IsConnected
    <3>3. \A i, j : Follows(j, i)' = Follows(j, i)
      BY <3>2 DEF Follows
    <3>4. Queue'
      BY <3>1, <3>2, <3>3, <1>1, <1>2 DEF IInv, Queue
    <3>5. Caller'
      BY <1>1, <1>2 DEF IInv, Caller
    <3> QED
      BY <3>4, <3>5
  <2> QED
    BY <2>1, <2>2
<1>11. IndexTypeOK'
  BY <1>1 DEF IInv, IndexTypeOK
<1> QED
  BY <1>7, <1>8, <1>9, <1>10, <1>11 DEF IInv

\* ThreadSync preserves the invariant when the next block follows the last.
LEMMA SyncGoesOnIInv ==
    ASSUME IInv, Up, syncAt = "next", SyncGoesOn
    PROVE  IInv'
PROOF
<1>1. /\ NextSyncBlock(pindex) # Nil /\ PrevOf(NextSyncBlock(pindex)) = pindex
      /\ pindex' = NextSyncBlock(pindex)
      /\ syncAt' = "locator"
      /\ UNCHANGED <<m_best_block_index, m_synced, running, db, durable,
                   activeTip, flushedTip, moves, restarts, mode, notices, caller>>
  BY DEF SyncGoesOn, diskVars
<1>2. ~m_synced /\ caller.tip = Nil /\ flushedTip # Nil /\ activeTip \in Block /\ activeTip # Nil
  BY Syncing
<1>3. pindex \in Block \cup {Nil} /\ \A b \in Block : b # Nil
  BY Typed
<1>4. IndexedUpTo = pindex /\ IndexedUpTo' = pindex
  BY <1>1 DEF IndexedUpTo, PrevOf
<1>5. pindex' \in Block /\ pindex' # Nil
  BY <1>1, <1>2, <1>3, NextSyncBlockIs, TreeAssumption
<1>6. DbIsRight(db)' /\ DbIsRight(durable)'
  BY <1>1 DEF IInv
<1>7. Memory'
  BY <1>1, <1>4 DEF IInv, Memory, Up, Holds
<1>8. Control'
  BY <1>1, <1>2, <1>5 DEF IInv, Control, Up
<1>9. Queue' /\ Caller'
  BY <1>1, <1>2, SyncingQueue
<1>10. IndexTypeOK'
  BY <1>1, <1>5 DEF IInv, IndexTypeOK
<1> QED
  BY <1>6, <1>7, <1>8, <1>9, <1>10 DEF IInv

\* The periodic commit of ThreadSync preserves the invariant.
LEMMA SyncLocatorIInv ==
    ASSUME IInv, SyncLocator
    PROVE  IInv'
PROOF
<1> DEFINE p == PrevOf(pindex)
<1>1. /\ Up /\ syncAt = "locator" /\ syncAt' = "append"
      /\ \/ UNCHANGED <<m_best_block_index, db, durable>>
         \/ m_best_block_index' = p /\ Write(<<Commit(db, p, running)>>)
      /\ UNCHANGED <<m_synced, running, pindex, activeTip, flushedTip, moves, notices, restarts, mode, caller>>
  BY DEF SyncLocator, diskVars, chainVars
<1>2. ~m_synced /\ caller.tip = Nil /\ flushedTip # Nil /\ activeTip \in Block /\ activeTip # Nil
  BY <1>1, Syncing
<1>3. pindex \in Block /\ pindex # Nil /\ \A b \in Block : b # Nil
  BY <1>1, Typed DEF IInv, Control
<1>4. p \in Block \cup {Nil}
  BY <1>3, TreeAssumption DEF PrevOf
<1>5. IndexedUpTo = p /\ IndexedUpTo' = p
  BY <1>1 DEF IndexedUpTo, PrevOf
<1>6. /\ running = IF p = Nil THEN NoStats ELSE StatsOf(p)
      /\ p # Nil => Holds(db, p)
      /\ db.best # Nil => p # Nil /\ db.best \in Path[p]
  BY <1>1, <1>5, Zenon DEF IInv, Memory
<1>7. /\ DbIsRight(Commit(db, p, running))
      /\ Commit(db, p, running).best = p
      /\ p # Nil => Holds(Commit(db, p, running), p)
  <2>1. CASE p = Nil
    BY <2>1, <1>6 DEF Commit, IInv
  <2>2. CASE p # Nil
    <3>1. p \in Block /\ Holds(db, p) /\ running = StatsOf(p)
      BY <2>2, <1>4, <1>6
    <3> QED
      BY <3>1, CommitRight DEF IInv
  <2> QED
    BY <2>1, <2>2
<1>8. /\ DbIsRight(db)' /\ DbIsRight(durable)'
      /\ m_best_block_index' \in Block \cup {Nil}
      /\ p # Nil => Holds(db', p)
      /\ db'.best # Nil => p # Nil /\ db'.best \in Path[p]
  <2>1. CASE UNCHANGED <<m_best_block_index, db, durable>>
    BY <2>1, <1>6, Typed DEF IInv
  <2>2. CASE m_best_block_index' = p /\ Write(<<Commit(db, p, running)>>)
    <3>1. db' = Commit(db, p, running) /\ DbIsRight(db)' /\ DbIsRight(durable)'
      BY <2>2, <1>7, WroteOne DEF IInv
    <3>2. p # Nil => p \in Path[p]
      BY <1>4, PathEnds
    <3> QED
      BY <3>1, <3>2, <2>2, <1>4, <1>7
  <2> QED
    BY <1>1, <2>1, <2>2
<1> HIDE DEF p
<1>9. Memory'
  BY <1>1, <1>5, <1>6, <1>8 DEF Memory, Holds
<1>10. Control'
  BY <1>1, <1>2, <1>3 DEF IInv, Control, Up
<1>11. Queue' /\ Caller'
  BY <1>1, <1>2, SyncingQueue
<1>12. IndexTypeOK'
  BY <1>1, <1>8, Zenon DEF IInv, IndexTypeOK
<1> QED
  BY <1>8, <1>9, <1>10, <1>11, <1>12, Zenon DEF IInv

\* WriteBlock in ThreadSync preserves the invariant.
LEMMA SyncAppendIInv ==
    ASSUME IInv, SyncAppend
    PROVE  IInv'
PROOF
<1> DEFINE p == PrevOf(pindex)
           e == CustomAppend(db, running, pindex)
<1>1. /\ Up /\ syncAt = "append"
      /\ UNCHANGED <<activeTip, flushedTip, moves, notices, restarts, caller>>
  BY DEF SyncAppend, chainVars
<1>2. ~m_synced /\ caller.tip = Nil /\ flushedTip # Nil /\ activeTip \in Block /\ activeTip # Nil
  BY <1>1, Syncing
<1>3. pindex \in Block /\ pindex # Nil /\ \A b \in Block : b # Nil
  BY <1>1, Typed DEF IInv, Control
<1>4. IndexedUpTo = p
  BY <1>1 DEF IndexedUpTo
<1>5. /\ running = IF p = Nil THEN NoStats ELSE StatsOf(p)
      /\ p # Nil => Holds(db, p)
      /\ db.best # Nil => p # Nil /\ db.best \in Path[p]
  BY <1>1, <1>4 DEF IInv, Memory
<1>6. (p = Nil) = (pindex = Genesis) /\ (pindex # Genesis => p = Prev[pindex] /\ p \in Block)
  BY <1>3, TreeAssumption, NilAssumption DEF PrevOf
<1>7. /\ CanAppend(db, pindex) /\ Appended(running, pindex) = StatsOf(pindex)
      /\ DbIsRight(e) /\ Holds(e, pindex) /\ e.best = db.best
  <2>1. running = IF pindex = Genesis THEN NoStats ELSE StatsOf(Prev[pindex])
    BY <1>5, <1>6, Zenon
  <2>2. pindex # Genesis => Holds(db, Prev[pindex])
    BY <1>5, <1>6
  <2>3. db.best # Nil => pindex # Genesis /\ db.best \in Path[Prev[pindex]]
    BY <1>5, <1>6
  <2> QED
    BY <2>1, <2>2, <2>3, <1>3, AppendRight, Zenon DEF IInv
<1>8. /\ running' = StatsOf(pindex) /\ Write(<<e>>) /\ syncAt' = "next"
      /\ UNCHANGED <<m_best_block_index, m_synced, pindex, mode>>
  BY <1>7 DEF SyncAppend
<1>9. db' = e /\ DbIsRight(db)' /\ DbIsRight(durable)'
  BY <1>7, <1>8, WroteOne DEF IInv
<1> HIDE DEF p, e
<1>10. Memory'
  <2>1. IndexedUpTo' = pindex
    BY <1>8 DEF IndexedUpTo
  <2>2. db.best # Nil => db.best \in Path[pindex]
    <3>1. pindex # Genesis => Path[pindex] = {pindex} \cup Path[Prev[pindex]]
      BY <1>3, PathDef
    <3> QED
      BY <3>1, <1>5, <1>6
  <2> QED
    BY <2>1, <2>2, <1>3, <1>7, <1>8, <1>9 DEF Memory, Holds
<1>11. Control'
  BY <1>1, <1>2, <1>3, <1>8 DEF IInv, Control, Up
<1>12. Queue' /\ Caller'
  BY <1>1, <1>2, <1>8, SyncingQueue
<1>13. IndexTypeOK'
  BY <1>1, <1>8 DEF IInv, IndexTypeOK
<1> QED
  BY <1>9, <1>10, <1>11, <1>12, <1>13 DEF IInv

\* The rewind of ThreadSync, when the chain moved away from the block it had
\* reached, preserves the invariant.
LEMMA SyncRewindsIInv ==
    ASSUME IInv, Up, syncAt = "next", SyncRewinds
    PROVE  IInv'
PROOF
<1> DEFINE next == NextSyncBlock(pindex)
           fork == PrevOf(next)
<1>1. next # Nil /\ fork # pindex
  BY DEF SyncRewinds
<1>2. ~m_synced /\ caller.tip = Nil /\ flushedTip # Nil /\ activeTip \in Block /\ activeTip # Nil
  BY Syncing
<1>3. pindex \in Block \cup {Nil} /\ \A b \in Block : b # Nil
  BY Typed
<1>4. pindex # Nil
  BY <1>1, <1>2, <1>3, NextSyncBlockIs DEF PrevOf
<1>5. /\ pindex \in Block /\ next \in Block /\ next # Genesis
      /\ fork = Prev[next] /\ fork \in Path[pindex] /\ fork \in Block
  BY <1>1, <1>2, <1>3, <1>4, NextSyncBlockIs, TreeAssumption, Zenon DEF PrevOf
<1>6. IndexedUpTo = pindex
  BY DEF IndexedUpTo
<1>7. running = StatsOf(pindex) /\ Holds(db, pindex)
  BY <1>4, <1>6 DEF IInv, Memory
<1>8. CASE m_best_block_index # pindex
  <2>1. Ends /\ UNCHANGED diskVars
    BY <1>8 DEF SyncRewinds
  <2>2. DbIsRight(db)' /\ DbIsRight(durable)'
    BY <2>1 DEF diskVars, IInv
  <2> QED
    BY <2>1, <2>2, <1>2, EndsIInv
<1>9. CASE m_best_block_index = pindex
  <2>1. /\ CanRewind(db, running, pindex, fork)
        /\ Reversed(running, pindex, fork) = StatsOf(fork)
        /\ \E c, d : /\ RewindStates(pindex, fork) = <<c, d>>
                     /\ DbIsRight(c) /\ DbIsRight(d)
                     /\ d.best = fork /\ Holds(d, fork)
                     /\ DOMAIN db.byHash \subseteq DOMAIN d.byHash
                     /\ Path[pindex] \ Path[fork] \subseteq DOMAIN d.byHash
    BY <1>5, <1>7, RewoundRight, Zenon DEF IInv
  <2>2. /\ m_best_block_index' = fork /\ running' = Reversed(running, pindex, fork)
        /\ Write(RewindStates(pindex, fork)) /\ pindex' = next /\ syncAt' = "locator"
        /\ UNCHANGED <<m_synced, mode, activeTip, flushedTip, moves, restarts, notices, caller>>
    BY <1>9, <2>1, Zenon DEF SyncRewinds
  <2>3. PICK c, d : /\ RewindStates(pindex, fork) = <<c, d>>
                    /\ DbIsRight(c) /\ DbIsRight(d) /\ d.best = fork /\ Holds(d, fork)
    BY <2>1, Zenon
  <2>4. Write(<<c, d>>)
    BY <2>2, <2>3
  <2>5. db' = d /\ DbIsRight(db)' /\ DbIsRight(durable)'
    BY <2>3, <2>4, WroteTwo DEF IInv
  <2>6. IndexedUpTo' = fork
    BY <2>2 DEF IndexedUpTo, PrevOf
  <2> HIDE DEF next, fork
  <2>7. Memory'
    <3>1. fork \in Path[fork] /\ fork # Nil
      BY <1>3, <1>5, PathEnds
    <3> QED
      BY <3>1, <2>1, <2>2, <2>3, <2>5, <2>6, Zenon DEF Memory, Holds
  <2>8. Control'
    BY <2>2, <1>2, <1>3, <1>5 DEF IInv, Control, Up
  <2>9. Queue' /\ Caller'
    BY <2>2, <1>2, SyncingQueue
  <2>10. IndexTypeOK'
    BY <2>2, <1>5 DEF IInv, IndexTypeOK
  <2> QED
    BY <2>5, <2>7, <2>8, <2>9, <2>10 DEF IInv
<1> QED
  BY <1>8, <1>9
====
