---- MODULE IndexSync_proof ----
(***************************************************************************)
(* IndexIsRight of IndexSync for every tree of blocks: the moves of the    *)
(* chain and the callbacks preserve the invariant of IndexSync_inductive,  *)
(* and the theorem.                                                        *)
(***************************************************************************)
EXTENDS IndexSync_inductive

\* A notification is added at the end of the queue.
LEMMA NoticeAppended ==
    ASSUME IInv, NEW k \in {"connected", "flushed"}, NEW b \in Block, Notice(k, b)
    PROVE  /\ notices' \in Seq(NoticeSet)
           /\ Len(notices') = Len(notices) + 1
           /\ DOMAIN notices' = 1..(Len(notices) + 1)
           /\ \A i \in 1..Len(notices) : notices'[i] = notices[i]
           /\ notices'[Len(notices) + 1] = [kind |-> k, block |-> b]
PROOF
<1>1. notices \in Seq(NoticeSet)
  BY DEF IInv, Queue, NoticeSet
<1>2. [kind |-> k, block |-> b] \in NoticeSet
  BY DEF NoticeSet
<1>3. notices' = Append(notices, [kind |-> k, block |-> b])
  BY DEF Notice
<1>4. notices' \in Seq(NoticeSet) /\ Len(notices') = Len(notices) + 1
  BY <1>1, <1>2, <1>3, SeqAppended
<1> QED
  BY <1>1, <1>2, <1>3, <1>4, SeqAppended, SeqElements

\* Connecting a block, and queueing its notification, preserves the invariant.
LEMMA ConnectTipIInv ==
    ASSUME IInv, NEW b \in Block, ConnectTip(b)
    PROVE  IInv'
PROOF
<1>0. PICK n \in Nat : n = Len(notices)
  BY Typed, Zenon
<1>1. /\ notices' \in Seq(NoticeSet)
      /\ Len(notices') = n + 1
      /\ DOMAIN notices' = 1..(n + 1)
      /\ \A i \in 1..n : notices'[i] = notices[i]
      /\ notices'[n + 1] = [kind |-> "connected", block |-> b]
  BY <1>0, NoticeAppended DEF ConnectTip
<1>2. n \in Nat /\ DOMAIN notices = 1..n /\ b # Nil /\ activeTip \in Block \cup {Nil}
  BY <1>0, Typed
<1>3. /\ activeTip' = b /\ PrevOf(b) = activeTip /\ Up
      /\ UNCHANGED <<flushedTip, restarts, mode, memoryVars, diskVars, caller>>
  BY DEF ConnectTip, Move, Up
<1>4. /\ (b = Genesis) = (activeTip = Nil)
      /\ b # Genesis => Prev[b] = activeTip
      /\ b \in Path[b]
  BY <1>3, TreeAssumption, NilAssumption, PathEnds DEF PrevOf
<1>5. \A i \in 1..n : IsConnected(i)' = IsConnected(i)
  BY <1>1 DEF IsConnected
<1>6. IsConnected(n + 1)' /\ notices'[n + 1].block = b
  BY <1>1 DEF IsConnected
<1>7. activeTip = Nil => flushedTip = Nil /\ notices = <<>> /\ m_best_block_index = Nil /\ m_synced
  BY <1>3 DEF IInv, Control
<1>8. UNCHANGED <<m_best_block_index, m_synced, running, syncAt, pindex, db, durable, caller,
                  flushedTip, restarts, mode>>
  BY <1>3 DEF memoryVars, diskVars
<1>10. IndexTypeOK'
  <2>1. moves' \in 0..MaxMoves
    BY IndexAssumption DEF ConnectTip, Move, IInv, IndexTypeOK
  <2>2. caller'.left \in 0..Len(notices')
    BY <1>1, <1>2, <1>8 DEF IInv, IndexTypeOK
  <2> QED
    BY <2>1, <2>2, <1>3, <1>8 DEF IInv, IndexTypeOK
<1>11. DbIsRight(db)' /\ DbIsRight(durable)'
  BY <1>8 DEF IInv
<1>12. Memory'
  BY <1>8 DEF IInv, Memory, Up, Holds, IndexedUpTo
<1>13. Control'
  <2>1. mode' \notin {"down", "refused"}
    BY <1>3, <1>8 DEF Up
  <2>2. flushedTip' = Nil => \A i \in DOMAIN notices' : notices'[i].kind = "connected"
    BY <1>1, <1>2, <1>8 DEF IInv, Control
  <2>3. activeTip' # Nil
    BY <1>2, <1>3
  <2> QED
    BY <1>8, <2>1, <2>2, <2>3 DEF IInv, Control, Up
<1>14. Queue'
  <2>1. \A i, j \in 1..(n + 1) : Follows(j, i)' =>
           notices'[j].block # Genesis /\ Prev[notices'[j].block] \in Path[notices'[i].block]
    <3>1. SUFFICES ASSUME NEW i \in 1..(n + 1), NEW j \in 1..(n + 1), Follows(j, i)'
                   PROVE  notices'[j].block # Genesis /\ Prev[notices'[j].block] \in Path[notices'[i].block]
      OBVIOUS
    <3>2. i < j /\ IsConnected(i)' /\ IsConnected(j)' /\ \A k \in (i + 1)..(j - 1) : ~IsConnected(k)'
      BY <3>1 DEF Follows
    <3>3. CASE j = n + 1
      <4>1. i \in 1..n /\ IsConnected(i) /\ \A k \in (i + 1)..n : ~IsConnected(k)
        BY <3>2, <3>3, <1>2, <1>5
      <4>2. activeTip \in Path[notices[i].block]
        BY <4>1, <1>2 DEF IInv, Queue
      <4>3. activeTip # Nil
        BY <4>1, <1>2, <1>7
      <4> QED
        BY <4>1, <4>2, <4>3, <3>3, <1>1, <1>4, <1>6
    <3>4. CASE j # n + 1
      <4>1. i \in 1..n /\ j \in 1..n /\ Follows(j, i)
        BY <3>2, <3>4, <1>2, <1>5 DEF Follows
      <4> QED
        BY <4>1, <1>1, <1>2 DEF IInv, Queue
    <3> QED
      BY <3>3, <3>4
  <2>2. \A i \in 1..(n + 1) : IsConnected(i)' /\ (\A k \in (i + 1)..Len(notices') : ~IsConnected(k)') =>
           activeTip' \in Path[notices'[i].block]
    <3>1. SUFFICES ASSUME NEW i \in 1..(n + 1), \A k \in (i + 1)..(n + 1) : ~IsConnected(k)'
                   PROVE  i = n + 1
      BY <1>1, <1>3, <1>4, <1>6
    <3> QED
      BY <3>1, <1>2, <1>6
  <2>3. \A i \in 1..(n + 1) : IsConnected(i)' /\ notices'[i].block = Genesis =>
           i = 1 /\ m_synced /\ m_best_block_index = Nil
    <3>1. SUFFICES ASSUME NEW i \in 1..(n + 1), IsConnected(i)', notices'[i].block = Genesis
                   PROVE  i = 1 /\ m_synced /\ m_best_block_index = Nil
      OBVIOUS
    <3>2. CASE i = n + 1
      <4>1. activeTip = Nil
        BY <3>1, <3>2, <1>6, <1>4
      <4>2. n = 0
        BY <4>1, <1>0, <1>7, SeqEmpty
      <4> QED
        BY <3>2, <4>1, <4>2, <1>7
    <3>3. CASE i # n + 1
      <4>1. i \in 1..n
        BY <3>3, <1>2
      <4> QED
        BY <3>1, <4>1, <1>1, <1>2, <1>5 DEF IInv, Queue
    <3> QED
      BY <3>2, <3>3
  <2>4. m_synced /\ m_best_block_index = Nil =>
           notices' # <<>> /\ IsConnected(1)' /\ notices'[1].block = Genesis
    <3>1. SUFFICES ASSUME m_synced, m_best_block_index = Nil
                   PROVE  notices' # <<>> /\ IsConnected(1)' /\ notices'[1].block = Genesis
      OBVIOUS
    <3>2. CASE activeTip = Nil
      <4>1. n = 0
        BY <3>2, <1>0, <1>7, SeqEmpty
      <4>2. IsConnected(1)' /\ notices'[1].block = Genesis /\ Len(notices') # 0
        BY <3>2, <4>1, <1>1, <1>4, <1>6
      <4> QED
        BY <4>2, SeqEmpty
    <3>3. CASE activeTip # Nil
      <4>1. notices # <<>> /\ IsConnected(1) /\ notices[1].block = Genesis
        BY <3>1, <3>3 DEF IInv, Queue
      <4>2. n # 0
        BY <4>1, <1>0, SeqEmpty DEF IInv, Queue
      <4>3. 1 \in 1..n
        BY <4>2, <1>2
      <4> QED
        BY <4>1, <4>3, <1>1, <1>2, <1>5, SeqEmpty
    <3> QED
      BY <3>2, <3>3
  <2>5. m_synced /\ m_best_block_index # Nil =>
           \E j \in 1..(n + 1) : IsConnected(j)' /\ Links(j)'
    <3>1. SUFFICES ASSUME m_synced, m_best_block_index # Nil
                   PROVE  \E j \in 1..(n + 1) : IsConnected(j)' /\ Links(j)'
      OBVIOUS
    <3>2. CASE activeTip \in Path[m_best_block_index]
      <4>1. Links(n + 1)'
        BY <3>1, <3>2, <1>4, <1>6, <1>7, <1>8 DEF Links
      <4> QED
        BY <4>1, <1>2, <1>6
    <3>3. CASE \E j \in DOMAIN notices : IsConnected(j) /\ Links(j)
      <4>1. PICK j \in 1..n : IsConnected(j) /\ Links(j)
        BY <3>3, <1>2
      <4>2. IsConnected(j)' /\ Links(j)'
        BY <4>1, <1>1, <1>5, <1>8 DEF Links
      <4> QED
        BY <4>2, <1>2
    <3> QED
      BY <3>1, <3>2, <3>3 DEF IInv, Queue
  <2>6. \A i, k \in 1..(n + 1) : i < k /\ IsConnected(i)' /\ IsConnected(k)' =>
           \E j \in (i + 1)..k : Follows(j, i)'
    <3>1. SUFFICES ASSUME NEW i \in 1..(n + 1), NEW k \in 1..(n + 1), i < k, IsConnected(i)', IsConnected(k)'
                   PROVE  \E j \in (i + 1)..k : Follows(j, i)'
      OBVIOUS
    <3>2. i \in 1..n /\ IsConnected(i)
      BY <3>1, <1>2, <1>5
    <3>3. CASE \E x \in (i + 1)..n : x <= k /\ IsConnected(x)
      <4>1. PICK x \in (i + 1)..n : x <= k /\ IsConnected(x)
        BY <3>3
      <4>2. PICK j \in (i + 1)..x : Follows(j, i)
        <5>1. \A y, z \in DOMAIN notices : y < z /\ IsConnected(y) /\ IsConnected(z) =>
                \E w \in (y + 1)..z : Follows(w, y)
          BY DEF IInv, Queue
        <5>2. i \in DOMAIN notices /\ x \in DOMAIN notices /\ i < x
          BY <4>1, <3>2, <1>2
        <5> QED
          BY <5>1, <5>2, <4>1, <3>2
      <4>3. j \in (i + 1)..k /\ j \in 1..n /\ \A y \in (i + 1)..(j - 1) : y \in 1..n
        BY <4>1, <4>2, <3>1, <1>2
      <4>4. Follows(j, i)'
        BY <4>2, <4>3, <3>2, <1>5 DEF Follows
      <4> QED
        BY <4>3, <4>4
    <3>4. CASE \A x \in (i + 1)..n : x <= k => ~IsConnected(x)
      <4>1. k = n + 1
        BY <3>1, <3>4, <1>2, <1>5
      <4>2. \A x \in (i + 1)..(k - 1) : x \in 1..n /\ ~IsConnected(x)
        BY <4>1, <3>2, <3>4, <1>2
      <4>3. Follows(k, i)'
        BY <4>2, <3>1, <1>5 DEF Follows
      <4> QED
        BY <4>3, <3>1
    <3> QED
      BY <3>3, <3>4
  <2> QED
    BY <2>1, <2>2, <2>3, <2>4, <2>5, <2>6, <1>1, <1>8 DEF Queue, NoticeSet
<1>15. Caller'
  <2>1. \A j \in 1..caller.left : j \in 1..n /\ IsConnected(j)' = IsConnected(j) /\ notices'[j] = notices[j]
    BY <1>0, <1>1, <1>2, <1>5, Typed
  <2>2. \A j \in 1..caller.left : Links(j)' = Links(j)
    BY <2>1, <1>8 DEF Links
  <2>3. \A i \in 1..caller.left : \A k \in (i + 1)..caller.left : k \in 1..caller.left
    BY Typed
  <2> QED
    BY <2>1, <2>2, <2>3, <1>8 DEF IInv, Caller, Up
<1> QED
  BY <1>10, <1>11, <1>12, <1>13, <1>14, <1>15 DEF IInv

\* Disconnecting the tip preserves the invariant: the index is not told and
\* still finds an ancestor of every later block in what it holds.
LEMMA DisconnectTipIInv ==
    ASSUME IInv, DisconnectTip
    PROVE  IInv'
PROOF
<1>1. /\ activeTip' = Prev[activeTip] /\ activeTip \in Block /\ activeTip # Genesis /\ Up
      /\ UNCHANGED <<flushedTip, notices, restarts, mode, m_best_block_index, m_synced, running,
                     syncAt, pindex, db, durable, caller>>
  BY Typed DEF DisconnectTip, Move, Up, memoryVars, diskVars
<1>2. activeTip' \in Block /\ activeTip # Nil /\ activeTip' # Nil
  BY <1>1, TreeAssumption, NilAssumption
<1>3. \A b \in Block : activeTip \in Path[b] => activeTip' \in Path[b]
  BY <1>1, PrevInPath
<1>4. IndexTypeOK'
  <2>1. moves' \in 0..MaxMoves
    BY IndexAssumption DEF DisconnectTip, Move, IInv, IndexTypeOK
  <2> QED
    BY <2>1, <1>1, <1>2 DEF IInv, IndexTypeOK
<1>5. DbIsRight(db)' /\ DbIsRight(durable)'
  BY <1>1 DEF IInv
<1>6. Memory'
  BY <1>1 DEF IInv, Memory, Up, Holds, IndexedUpTo
<1>7. Control'
  BY <1>1, <1>2 DEF IInv, Control, Up
<1>8. Queue'
  <2>1. \A i : IsConnected(i)' = IsConnected(i) /\ Links(i)' = Links(i)
    BY <1>1 DEF IsConnected, Links
  <2>2. \A i, j : Follows(j, i)' = Follows(j, i)
    BY <2>1 DEF Follows
  <2>3. \A i \in DOMAIN notices : notices[i].block \in Block
    BY Typed
  <2>4. m_best_block_index # Nil => m_best_block_index \in Block
    BY Typed
  <2> QED
    BY <2>1, <2>2, <2>3, <2>4, <1>1, <1>2, <1>3 DEF IInv, Queue
<1>9. Caller'
  BY <1>1 DEF IInv, Caller, Up, IsConnected, Links
<1> QED
  BY <1>4, <1>5, <1>6, <1>7, <1>8, <1>9 DEF IInv

\* A queued ChainStateFlushed preserves the conditions on the queue.
LEMMA FlushNoticed ==
    ASSUME IInv, Notice("flushed", activeTip), activeTip # Nil, Up, Up',
           UNCHANGED <<activeTip, m_best_block_index, m_synced, db, caller>>
    PROVE  Queue' /\ Caller' /\ Len(notices') = Len(notices) + 1 /\ Len(notices) \in Nat
PROOF
<1>0. PICK n \in Nat : n = Len(notices)
  BY Typed, Zenon
<1>2. n \in Nat /\ DOMAIN notices = 1..n /\ activeTip \in Block
  BY <1>0, Typed
<1>1. /\ notices' \in Seq(NoticeSet)
      /\ Len(notices') = n + 1
      /\ DOMAIN notices' = 1..(n + 1)
      /\ \A i \in 1..n : notices'[i] = notices[i]
      /\ notices'[n + 1] = [kind |-> "flushed", block |-> activeTip]
  BY <1>0, <1>2, NoticeAppended
<1>3. \A i \in 1..n : IsConnected(i)' = IsConnected(i) /\ Links(i)' = Links(i)
  BY <1>1 DEF IsConnected, Links
<1>4. ~IsConnected(n + 1)'
  BY <1>1 DEF IsConnected
<1>5. \A i \in 1..(n + 1) : IsConnected(i)' => i \in 1..n
  BY <1>2, <1>4
<1>6. Queue'
  <2>1. \A i, j \in 1..(n + 1) : Follows(j, i)' => i \in 1..n /\ j \in 1..n /\ Follows(j, i)
    <3>1. SUFFICES ASSUME NEW i \in 1..(n + 1), NEW j \in 1..(n + 1), Follows(j, i)'
                   PROVE  i \in 1..n /\ j \in 1..n /\ Follows(j, i)
      OBVIOUS
    <3>2. i \in 1..n /\ j \in 1..n
      BY <3>1, <1>5 DEF Follows
    <3>3. \A k \in (i + 1)..(j - 1) : k \in 1..n
      BY <3>2, <1>2
    <3> QED
      BY <3>1, <3>2, <3>3, <1>3 DEF Follows
  <2>2. \A i \in 1..(n + 1) : IsConnected(i)' /\ (\A k \in (i + 1)..(n + 1) : ~IsConnected(k)') =>
           i \in 1..n /\ IsConnected(i) /\ \A k \in (i + 1)..n : ~IsConnected(k)
    BY <1>2, <1>3, <1>5
  <2>3. notices # <<>> => notices' # <<>> /\ 1 \in 1..n
    <3>1. notices # <<>> => n # 0
      BY <1>0, SeqEmpty DEF IInv, Queue
    <3>2. notices' # <<>>
      BY <1>1, <1>2, SeqEmpty
    <3> QED
      BY <3>1, <3>2, <1>2
  <2>4. notices' \in Seq([kind : {"connected", "flushed"}, block : Block])
    BY <1>1 DEF NoticeSet
  <2>5. \A i, j \in DOMAIN notices' : Follows(j, i)' =>
          notices'[j].block # Genesis /\ Prev[notices'[j].block] \in Path[notices'[i].block]
    BY <2>1, <1>1, <1>2 DEF IInv, Queue
  <2>6. \A i \in DOMAIN notices' :
         IsConnected(i)' /\ (\A k \in (i+1)..Len(notices') : ~IsConnected(k)') =>
           activeTip' \in Path[notices'[i].block]
    BY <2>2, <1>0, <1>1, <1>2 DEF IInv, Queue
  <2>7. \A i \in DOMAIN notices' : IsConnected(i)' /\ notices'[i].block = Genesis =>
         i = 1 /\ m_synced /\ m_best_block_index = Nil
    BY <1>1, <1>2, <1>3, <1>5 DEF IInv, Queue
  <2>8. m_synced /\ m_best_block_index = Nil =>
           notices' # <<>> /\ IsConnected(1)' /\ notices'[1].block = Genesis
    BY <2>3, <1>1, <1>3 DEF IInv, Queue
  <2>9. m_synced /\ m_best_block_index # Nil =>
         activeTip \in Path[m_best_block_index] \/ \E j \in 1..n : IsConnected(j) /\ Links(j)
    BY <1>2 DEF IInv, Queue
  <2>10. m_synced /\ m_best_block_index # Nil =>
         activeTip \in Path[m_best_block_index] \/ \E j \in DOMAIN notices' : IsConnected(j)' /\ Links(j)'
    BY <2>9, <1>1, <1>2, <1>3
  <2>11. \A i, j \in 1..n : Follows(j, i) => Follows(j, i)'
    <3>1. \A i, j \in 1..n : \A k \in (i + 1)..(j - 1) : k \in 1..n
      BY <1>2
    <3> QED
      BY <3>1, <1>3 DEF Follows
  <2>12. \A i, k \in DOMAIN notices' : i < k /\ IsConnected(i)' /\ IsConnected(k)' =>
           \E j \in (i + 1)..k : Follows(j, i)'
    <3>1. SUFFICES ASSUME NEW i \in 1..n, NEW k \in 1..n, i < k, IsConnected(i), IsConnected(k)
                   PROVE  \E j \in (i + 1)..k : Follows(j, i)'
      BY <1>1, <1>3, <1>5
    <3>2. PICK j \in (i + 1)..k : Follows(j, i)
      BY <3>1, <1>2 DEF IInv, Queue
    <3>3. j \in 1..n
      BY <3>2, <1>2
    <3> QED
      BY <3>2, <3>3, <2>11
  <2> QED
    BY <2>4, <2>5, <2>6, <2>7, <2>8, <2>10, <2>12 DEF Queue
<1>7. Caller'
  <2>1. \A j \in 1..caller.left : j \in 1..n /\ IsConnected(j)' = IsConnected(j) /\ notices'[j] = notices[j]
    BY <1>0, <1>1, <1>2, <1>3, Typed
  <2>2. \A j \in 1..caller.left : Links(j)' = Links(j)
    BY <2>1, <1>3
  <2>3. \A i \in 1..caller.left : \A k \in (i + 1)..caller.left : k \in 1..caller.left
    BY Typed
  <2> QED
    BY <2>1, <2>2, <2>3 DEF IInv, Caller
<1> QED
  BY <1>0, <1>1, <1>6, <1>7

\* FlushStateToDisk preserves the invariant.
LEMMA FlushStateToDiskIInv ==
    ASSUME IInv, FlushStateToDisk
    PROVE  IInv'
PROOF
<1>1. /\ activeTip # Nil /\ flushedTip' = activeTip /\ Up /\ Up'
      /\ UNCHANGED <<activeTip, restarts, mode, m_best_block_index, m_synced, running,
                     syncAt, pindex, db, durable, caller>>
  BY DEF FlushStateToDisk, Move, Up, memoryVars, diskVars
<1>2. Queue' /\ Caller' /\ Len(notices') = Len(notices) + 1 /\ Len(notices) \in Nat
  BY <1>1, FlushNoticed DEF FlushStateToDisk
<1>4. IndexTypeOK'
  <2>1. moves' \in 0..MaxMoves
    BY IndexAssumption DEF FlushStateToDisk, Move, IInv, IndexTypeOK
  <2>2. caller'.left \in 0..Len(notices')
    BY <1>1, <1>2 DEF IInv, IndexTypeOK
  <2> QED
    BY <2>1, <2>2, <1>1 DEF IInv, IndexTypeOK
<1>5. DbIsRight(db)' /\ DbIsRight(durable)'
  BY <1>1 DEF IInv
<1>6. Memory'
  BY <1>1 DEF IInv, Memory, Up, Holds, IndexedUpTo
<1>7. Control'
  BY <1>1 DEF IInv, Control, Up
<1> QED
  BY <1>2, <1>4, <1>5, <1>6, <1>7 DEF IInv

\* The flush at shutdown preserves the invariant.
LEMMA ForceFlushStateToDiskIInv ==
    ASSUME IInv, ForceFlushStateToDisk
    PROVE  IInv'
PROOF
<1>1. /\ mode = "stopping" /\ mode' = "flushed" /\ flushedTip' = activeTip /\ Up /\ Up'
      /\ UNCHANGED <<activeTip, moves, restarts, m_best_block_index, m_synced, running,
                     syncAt, pindex, db, durable, caller>>
  BY DEF ForceFlushStateToDisk, Up, memoryVars, diskVars
<1>2. activeTip # Nil
  BY <1>1 DEF IInv, Control
<1>3. Queue' /\ Caller' /\ Len(notices') = Len(notices) + 1 /\ Len(notices) \in Nat
  BY <1>1, <1>2, FlushNoticed DEF ForceFlushStateToDisk
<1>4. IndexTypeOK'
  <2>2. caller'.left \in 0..Len(notices')
    BY <1>1, <1>3 DEF IInv, IndexTypeOK
  <2> QED
    BY <2>2, <1>1 DEF IInv, IndexTypeOK
<1>5. DbIsRight(db)' /\ DbIsRight(durable)'
  BY <1>1 DEF IInv
<1>6. Memory'
  BY <1>1 DEF IInv, Memory, Up, Holds, IndexedUpTo
<1>7. Control'
  BY <1>1, <1>2 DEF IInv, Control, Up
<1> QED
  BY <1>3, <1>4, <1>5, <1>6, <1>7 DEF IInv

\* The same after a rewind and an append, the three batches of a reorganisation
\* in BlockConnected.
LEMMA WroteThree ==
    ASSUME NEW c, NEW d, NEW e, Write(Append(<<c, d>>, e)),
           DbIsRight(c), DbIsRight(d), DbIsRight(e), DbIsRight(durable)
    PROVE  db' = e /\ DbIsRight(db)' /\ DbIsRight(durable)'
PROOF
<1> DEFINE s == Append(<<c, d>>, e)
<1>1. /\ <<c, d>> \in Seq({c, d, e}) /\ e \in {c, d, e} /\ Len(<<c, d>>) = 2
      /\ <<c, d>>[1] = c /\ <<c, d>>[2] = d
  OBVIOUS
<1>2. /\ s \in Seq({c, d, e}) /\ Len(s) = 3
      /\ s[1] = c /\ s[2] = d /\ s[3] = e
  BY <1>1, SeqAppended
<1>3. DOMAIN s = 1..3 /\ \A i \in 1..3 : s[i] \in {c, d, e}
  BY <1>2, SeqElements
<1> HIDE DEF s
<1>4. Write(s)
  BY DEF s
<1>5. db' = e /\ durable' \in {durable, c, d, e}
  BY <1>2, <1>3, <1>4 DEF Write
<1>6. DbIsRight(durable')
  BY <1>5
<1> QED
  BY <1>5, <1>6

\* BlockUntilSyncedToCurrentChain preserves the invariant: the tip its caller
\* read is indexed, or a notification before the ones it waits for leads to it.
LEMMA BlockUntilSyncedIInv ==
    ASSUME IInv, BlockUntilSyncedToCurrentChain
    PROVE  IInv'
PROOF
<1>1. /\ mode = "run" /\ m_synced /\ m_best_block_index # Nil
      /\ caller' = [tip |-> activeTip,
                    left |-> IF activeTip \in Path[m_best_block_index] THEN 0 ELSE Len(notices)]
      /\ UNCHANGED <<activeTip, flushedTip, moves, notices, restarts, mode, m_best_block_index, m_synced,
                     running, syncAt, pindex, db, durable>>
  BY DEF BlockUntilSyncedToCurrentChain, chainVars, memoryVars, diskVars
<1>2. activeTip # Nil /\ activeTip \in Block /\ Len(notices) \in Nat /\ DOMAIN notices = 1..Len(notices)
  BY <1>1, Typed DEF IInv, Control, Up
<1>3. caller'.tip = activeTip /\ caller'.left \in 0..Len(notices)
  BY <1>1, <1>2
<1>4. IndexTypeOK'
  BY <1>1, <1>2, <1>3 DEF IInv, IndexTypeOK
<1>5. DbIsRight(db)' /\ DbIsRight(durable)'
  BY <1>1 DEF IInv
<1>6. Memory' /\ Control'
  BY <1>1 DEF IInv, Memory, Control, Up, Holds, IndexedUpTo
<1>7. \A i : IsConnected(i)' = IsConnected(i) /\ Links(i)' = Links(i)
  BY <1>1 DEF IsConnected, Links
<1>8. Queue'
  <2>1. \A i, j : Follows(j, i)' = Follows(j, i)
    BY <1>7 DEF Follows
  <2> QED
    BY <1>1, <1>7, <2>1 DEF IInv, Queue
<1>9. Caller'
  <2>1. caller' = [tip |-> caller'.tip, left |-> caller'.left]
    BY <1>1
  <2>2. CASE activeTip \in Path[m_best_block_index]
    BY <2>1, <2>2, <1>1, <1>2, <1>3 DEF Caller, Up
  <2>3. CASE activeTip \notin Path[m_best_block_index]
    <3>1. caller'.left = Len(notices)
      BY <2>3, <1>1
    <3>2. \E j \in 1..Len(notices) : IsConnected(j) /\ Links(j)
      BY <2>3, <1>1, <1>2 DEF IInv, Queue
    <3>3. \A i \in 1..Len(notices) :
            IsConnected(i) /\ (\A k \in (i+1)..Len(notices) : ~IsConnected(k)) =>
              activeTip \in Path[notices[i].block]
      BY <1>2 DEF IInv, Queue
    <3> QED
      BY <2>1, <3>1, <3>2, <3>3, <1>1, <1>2, <1>3, <1>7 DEF Caller, Up
  <2> QED
    BY <2>2, <2>3
<1> QED
  BY <1>4, <1>5, <1>6, <1>8, <1>9 DEF IInv

\* What the delivery of a notification does to the queue and to the waiting caller.
LEMMA Delivered ==
    ASSUME IInv, NEW kind \in {"connected", "flushed"}, Deliver(kind)
    PROVE  /\ notices' \in Seq(NoticeSet)
           /\ Len(notices) \in Nat \ {0} /\ Len(notices') = Len(notices) - 1
           /\ DOMAIN notices = 1..Len(notices) /\ DOMAIN notices' = 1..(Len(notices) - 1)
           /\ \A i \in 1..(Len(notices) - 1) : notices'[i] = notices[i + 1]
           /\ Head(notices) = notices[1]
           /\ caller'.tip = caller.tip
           /\ caller'.left = IF caller.left = 0 THEN 0 ELSE caller.left - 1
           /\ caller' = [tip |-> caller'.tip, left |-> caller'.left]
PROOF
<1>1. notices \in Seq(NoticeSet) /\ notices # <<>> /\ notices' = Tail(notices)
  BY DEF IInv, Queue, NoticeSet, Deliver
<1>2. notices' \in Seq(NoticeSet) /\ Len(notices') = Len(notices) - 1
  BY <1>1, SeqTaken
<1>3. Len(notices) \in Nat \ {0} /\ DOMAIN notices = 1..Len(notices)
  BY <1>1, SeqEmpty, SeqElements
<1>4. \A i \in 1..(Len(notices) - 1) : notices'[i] = notices[i + 1]
  BY <1>1, <1>2, <1>3, SeqTaken
<1>5. DOMAIN notices' = 1..(Len(notices) - 1)
  BY <1>2, SeqElements
<1>6. Head(notices) = notices[1]
  BY <1>1
<1>7. caller = [tip |-> caller.tip, left |-> caller.left]
  BY DEF IInv, Caller
<1>8. caller' = [caller EXCEPT !.left = IF caller.left = 0 THEN 0 ELSE caller.left - 1]
  BY DEF Deliver
<1>9. caller' = [tip |-> caller.tip, left |-> IF caller.left = 0 THEN 0 ELSE caller.left - 1]
  BY <1>7, <1>8
<1> QED
  BY <1>2, <1>3, <1>4, <1>5, <1>6, <1>9

\* The conditions between notifications survive the delivery of the first.
LEMMA DeliveredQueue ==
    ASSUME IInv, NEW kind \in {"connected", "flushed"}, Deliver(kind), NEW n \in Nat, n = Len(notices)
    PROVE  /\ \A i \in 1..(n - 1) : IsConnected(i)' = IsConnected(i + 1)
           /\ \A i, k \in DOMAIN notices' : i < k /\ IsConnected(i)' /\ IsConnected(k)' =>
                \E j \in (i + 1)..k : Follows(j, i)'
           /\ \A i, j \in DOMAIN notices' : Follows(j, i)' =>
                notices'[j].block # Genesis /\ Prev[notices'[j].block] \in Path[notices'[i].block]
           /\ \A i \in DOMAIN notices' :
                IsConnected(i)' /\ (\A k \in (i+1)..Len(notices') : ~IsConnected(k)') =>
                  activeTip' \in Path[notices'[i].block]
           /\ \A i \in DOMAIN notices' : IsConnected(i)' => notices'[i].block # Genesis
PROOF
<1>1. /\ Len(notices') = n - 1 /\ n # 0
      /\ DOMAIN notices = 1..n /\ DOMAIN notices' = 1..(n - 1)
      /\ \A i \in 1..(n - 1) : notices'[i] = notices[i + 1]
  BY Delivered
<1>2. activeTip' = activeTip
  BY DEF Deliver, chainVars
<1>3. \A i \in 1..(n - 1) : IsConnected(i)' = IsConnected(i + 1) /\ i + 1 \in 1..n
  BY <1>1 DEF IsConnected
<1>4. \A i, j \in 1..(n - 1) : Follows(j, i)' => Follows(j + 1, i + 1)
  <2>1. SUFFICES ASSUME NEW i \in 1..(n - 1), NEW j \in 1..(n - 1), Follows(j, i)'
                 PROVE  Follows(j + 1, i + 1)
    OBVIOUS
  <2>2. i < j /\ IsConnected(i + 1) /\ IsConnected(j + 1) /\ \A k \in (i + 1)..(j - 1) : ~IsConnected(k)'
    BY <2>1, <1>3 DEF Follows
  <2>3. \A k \in (i + 2)..j : k - 1 \in (i + 1)..(j - 1) /\ k - 1 \in 1..(n - 1) /\ (k - 1) + 1 = k
    OBVIOUS
  <2>4. \A k \in (i + 2)..j : ~IsConnected(k)
    BY <2>2, <2>3, <1>3, Zenon
  <2>5. ((i + 1) + 1)..((j + 1) - 1) = (i + 2)..j
    OBVIOUS
  <2> QED
    BY <2>2, <2>4, <2>5 DEF Follows
<1>5. \A i \in 1..(n - 1) : IsConnected(i)' /\ (\A k \in (i + 1)..(n - 1) : ~IsConnected(k)') =>
         IsConnected(i + 1) /\ \A k \in ((i + 1) + 1)..n : ~IsConnected(k)
  <2>1. SUFFICES ASSUME NEW i \in 1..(n - 1), \A k \in (i + 1)..(n - 1) : ~IsConnected(k)',
                        NEW k \in ((i + 1) + 1)..n
                 PROVE  ~IsConnected(k)
    BY <1>3
  <2>2. k - 1 \in (i + 1)..(n - 1) /\ k - 1 \in 1..(n - 1) /\ (k - 1) + 1 = k
    BY <2>1
  <2> QED
    BY <2>1, <2>2, <1>3, Zenon
<1>6. \A i, j \in DOMAIN notices' : Follows(j, i)' =>
         notices'[j].block # Genesis /\ Prev[notices'[j].block] \in Path[notices'[i].block]
  <2>1. SUFFICES ASSUME NEW i \in 1..(n - 1), NEW j \in 1..(n - 1), Follows(j, i)'
                 PROVE  notices'[j].block # Genesis /\ Prev[notices'[j].block] \in Path[notices'[i].block]
    BY <1>1
  <2>2. i + 1 \in DOMAIN notices /\ j + 1 \in DOMAIN notices /\ Follows(j + 1, i + 1)
    BY <2>1, <1>1, <1>3, <1>4
  <2>3. \A x, y \in DOMAIN notices : Follows(y, x) =>
          notices[y].block # Genesis /\ Prev[notices[y].block] \in Path[notices[x].block]
    BY DEF IInv, Queue
  <2> QED
    BY <2>2, <2>3, <1>1
<1>7. \A i \in DOMAIN notices' :
         IsConnected(i)' /\ (\A k \in (i+1)..Len(notices') : ~IsConnected(k)') =>
           activeTip' \in Path[notices'[i].block]
  BY <1>1, <1>2, <1>3, <1>5, Zenon DEF IInv, Queue
<1>8. \A i \in DOMAIN notices' : IsConnected(i)' => notices'[i].block # Genesis
  <2>1. \A i \in 1..(n - 1) : i + 1 # 1
    OBVIOUS
  <2> QED
    BY <2>1, <1>1, <1>3, Zenon DEF IInv, Queue
<1>9. \A i, k \in DOMAIN notices' : i < k /\ IsConnected(i)' /\ IsConnected(k)' =>
         \E j \in (i + 1)..k : Follows(j, i)'
  <2>1. SUFFICES ASSUME NEW i \in 1..(n - 1), NEW k \in 1..(n - 1), i < k, IsConnected(i)', IsConnected(k)'
                 PROVE  \E j \in (i + 1)..k : Follows(j, i)'
    BY <1>1, Zenon
  <2>2. i + 1 \in 1..n /\ k + 1 \in 1..n /\ IsConnected(i + 1) /\ IsConnected(k + 1) /\ i + 1 < k + 1
    BY <2>1, <1>3
  <2>3. PICK j \in ((i + 1) + 1)..(k + 1) : Follows(j, i + 1)
    BY <2>2, <1>1, Zenon DEF IInv, Queue
  <2>4. j - 1 \in (i + 1)..k /\ j - 1 \in 1..(n - 1) /\ (j - 1) + 1 = j
    BY <2>1, <2>3
  <2>5. \A x \in (i + 1)..((j - 1) - 1) : x \in 1..(n - 1) /\ x + 1 \in ((i + 1) + 1)..(j - 1)
    BY <2>1, <2>3
  <2>6. Follows(j - 1, i)'
    BY <2>1, <2>3, <2>4, <2>5, <1>3 DEF Follows
  <2> QED
    BY <2>4, <2>6
<1> QED
  BY <1>3, <1>6, <1>7, <1>8, <1>9

\* A delivered notification that the index rightly ignores keeps the conditions
\* on the queue and on the caller.
LEMMA SkippedQueue ==
    ASSUME IInv, NEW kind \in {"connected", "flushed"}, Deliver(kind), Up,
           UNCHANGED <<mode, m_best_block_index, m_synced>>,
           db'.byHash = db.byHash,
           m_synced => m_best_block_index # Nil /\ ~(IsConnected(1) /\ Links(1))
    PROVE  Queue' /\ Caller' /\ caller'.left \in 0..Len(notices') /\ caller'.tip = caller.tip
PROOF
<1>0. PICK n \in Nat : n = Len(notices)
  BY Typed, Zenon
<1>1. /\ notices' \in Seq(NoticeSet) /\ Len(notices') = n - 1 /\ n # 0
      /\ DOMAIN notices = 1..n /\ DOMAIN notices' = 1..(n - 1)
      /\ \A i \in 1..(n - 1) : notices'[i] = notices[i + 1]
      /\ caller'.tip = caller.tip
      /\ caller'.left = IF caller.left = 0 THEN 0 ELSE caller.left - 1
      /\ caller' = [tip |-> caller'.tip, left |-> caller'.left]
  BY <1>0, Delivered
<1>2. /\ \A i \in 1..(n - 1) : IsConnected(i)' = IsConnected(i + 1)
      /\ \A i, k \in DOMAIN notices' : i < k /\ IsConnected(i)' /\ IsConnected(k)' =>
           \E j \in (i + 1)..k : Follows(j, i)'
      /\ \A i, j \in DOMAIN notices' : Follows(j, i)' =>
           notices'[j].block # Genesis /\ Prev[notices'[j].block] \in Path[notices'[i].block]
      /\ \A i \in DOMAIN notices' :
           IsConnected(i)' /\ (\A k \in (i+1)..Len(notices') : ~IsConnected(k)') =>
             activeTip' \in Path[notices'[i].block]
      /\ \A i \in DOMAIN notices' : IsConnected(i)' => notices'[i].block # Genesis
  BY <1>0, DeliveredQueue, Zenon
<1>3. activeTip' = activeTip
  BY DEF Deliver, chainVars
<1>4. \A i \in 1..(n - 1) : Links(i)' = Links(i + 1)
  BY <1>1 DEF Links
<1>5. \A j \in 2..n : IsConnected(j) /\ Links(j) =>
         j - 1 \in 1..(n - 1) /\ IsConnected(j - 1)' /\ Links(j - 1)'
  <2>1. SUFFICES ASSUME NEW j \in 2..n, IsConnected(j), Links(j)
                 PROVE  j - 1 \in 1..(n - 1) /\ IsConnected(j - 1)' /\ Links(j - 1)'
    OBVIOUS
  <2>2. j - 1 \in 1..(n - 1) /\ (j - 1) + 1 = j
    OBVIOUS
  <2> QED
    BY <2>1, <2>2, <1>2, <1>4
<1>6. Queue'
  <2>1. m_synced => activeTip \in Path[m_best_block_index] \/ \E j \in 1..(n - 1) : IsConnected(j)' /\ Links(j)'
    <3>1. SUFFICES ASSUME m_synced, NEW j \in 1..n, IsConnected(j), Links(j)
                   PROVE  \E i \in 1..(n - 1) : IsConnected(i)' /\ Links(i)'
      BY <1>1 DEF IInv, Queue
    <3>2. j # 1
      BY <3>1
    <3>3. j \in 2..n
      BY <3>2
    <3> QED
      BY <3>1, <3>3, <1>5
  <2> QED
    BY <2>1, <1>1, <1>2, <1>3 DEF Queue, NoticeSet
<1>7. PICK l \in Nat : l = caller.left /\ l <= n
  BY <1>0, Typed
<1>8. caller'.left \in 0..(n - 1)
  BY <1>1, <1>7
<1>9. Caller'
  <2>1. CASE caller.tip = Nil
    BY <2>1, <1>1, <1>7 DEF IInv, Caller
  <2>2. CASE caller.tip # Nil
    <3>1. Up' /\ m_synced' /\ m_best_block_index' # Nil
      BY <2>2 DEF IInv, Caller, Up
    <3>2. CASE caller.tip \in Path[m_best_block_index] \/ caller.tip \in DOMAIN db.byHash
      BY <2>2, <3>1, <3>2, <1>1 DEF Caller
    <3>3. CASE /\ \E j \in 1..caller.left : IsConnected(j) /\ Links(j)
               /\ \A i \in 1..caller.left :
                    IsConnected(i) /\ (\A k \in (i+1)..caller.left : ~IsConnected(k)) =>
                      caller.tip \in Path[notices[i].block]
      <4>1. PICK j \in 1..l : IsConnected(j) /\ Links(j)
        BY <3>3, <1>7
      <4>2. j # 1
        BY <4>1, <3>1
      <4>3. j \in 2..n /\ j - 1 \in 1..(l - 1) /\ caller'.left = l - 1
        BY <4>1, <4>2, <1>1, <1>7
      <4>4. IsConnected(j - 1)' /\ Links(j - 1)'
        BY <4>1, <4>3, <1>5
      <4>5. \A i \in 1..(l - 1) :
               IsConnected(i)' /\ (\A k \in (i+1)..(l - 1) : ~IsConnected(k)') =>
                  caller.tip \in Path[notices'[i].block]
        <5>1. SUFFICES ASSUME NEW i \in 1..(l - 1), IsConnected(i)', \A k \in (i+1)..(l - 1) : ~IsConnected(k)'
                       PROVE  caller.tip \in Path[notices'[i].block]
          OBVIOUS
        <5>2. i \in 1..(n - 1) /\ i + 1 \in 1..l /\ IsConnected(i + 1) /\ notices'[i] = notices[i + 1]
          BY <5>1, <1>1, <1>2, <1>7
        <5>3. \A k \in ((i + 1) + 1)..l : ~IsConnected(k)
          <6>1. SUFFICES ASSUME NEW k \in ((i + 1) + 1)..l PROVE ~IsConnected(k)
            OBVIOUS
          <6>2. k - 1 \in (i + 1)..(l - 1) /\ k - 1 \in 1..(n - 1) /\ (k - 1) + 1 = k
            BY <1>7
          <6> QED
            BY <5>1, <6>2, <1>2
        <5> QED
          BY <5>2, <5>3, <3>3, <1>7
      <4> QED
        BY <2>2, <3>1, <4>3, <4>4, <4>5, <1>1 DEF Caller
    <3> QED
      BY <2>2, <3>2, <3>3 DEF IInv, Caller
  <2> QED
    BY <2>1, <2>2
<1> QED
  BY <1>1, <1>6, <1>8, <1>9

\* A connected block that becomes the best block of the index does too.
LEMMA TakenQueue ==
    ASSUME IInv, Deliver("connected"), Up, m_synced,
           NEW b \in Block, b = notices[1].block, m_best_block_index' = b,
           UNCHANGED <<mode, m_synced>>,
           m_best_block_index # Nil =>
               Path[m_best_block_index] \cup DOMAIN db.byHash \subseteq Path[b] \cup DOMAIN db'.byHash
    PROVE  Queue' /\ Caller' /\ caller'.left \in 0..Len(notices') /\ caller'.tip = caller.tip
PROOF
<1>0. PICK n \in Nat : n = Len(notices)
  BY Typed
<1>1. /\ notices' \in Seq(NoticeSet) /\ Len(notices') = n - 1 /\ n # 0
      /\ DOMAIN notices = 1..n /\ DOMAIN notices' = 1..(n - 1)
      /\ \A i \in 1..(n - 1) : notices'[i] = notices[i + 1]
      /\ Head(notices) = notices[1]
      /\ caller'.tip = caller.tip
      /\ caller'.left = IF caller.left = 0 THEN 0 ELSE caller.left - 1
      /\ caller' = [tip |-> caller'.tip, left |-> caller'.left]
  BY <1>0, Delivered
<1>2. /\ \A i \in 1..(n - 1) : IsConnected(i)' = IsConnected(i + 1)
      /\ \A i, k \in DOMAIN notices' : i < k /\ IsConnected(i)' /\ IsConnected(k)' =>
           \E j \in (i + 1)..k : Follows(j, i)'
      /\ \A i, j \in DOMAIN notices' : Follows(j, i)' =>
           notices'[j].block # Genesis /\ Prev[notices'[j].block] \in Path[notices'[i].block]
      /\ \A i \in DOMAIN notices' :
           IsConnected(i)' /\ (\A k \in (i+1)..Len(notices') : ~IsConnected(k)') =>
             activeTip' \in Path[notices'[i].block]
      /\ \A i \in DOMAIN notices' : IsConnected(i)' => notices'[i].block # Genesis
  BY <1>0, DeliveredQueue, Zenon
<1>3. activeTip' = activeTip /\ IsConnected(1) /\ b # Nil
  BY <1>1, NilAssumption DEF Deliver, chainVars, IsConnected
<1>4. ASSUME NEW m \in 1..n
      PROVE  \/ \A k \in 2..m : ~IsConnected(k)
             \/ \E j \in 1..(m - 1) : j \in 1..(n - 1) /\ IsConnected(j)' /\ Links(j)'
  <2>1. SUFFICES ASSUME NEW k0 \in 2..m, IsConnected(k0)
                 PROVE  \E j \in 1..(m - 1) : j \in 1..(n - 1) /\ IsConnected(j)' /\ Links(j)'
    OBVIOUS
  <2>2. k0 \in 1..n /\ 1 \in 1..n /\ 1 < k0
    BY <2>1
  <2>3. PICK k \in 2..k0 : Follows(k, 1)
    BY <2>1, <2>2, <1>1, <1>3 DEF IInv, Queue
  <2>4. k \in 2..m /\ IsConnected(k)
    BY <2>1, <2>3 DEF Follows
  <2>5. Follows(k, 1)
    BY <2>3
  <2>6. notices[k].block # Genesis /\ Prev[notices[k].block] \in Path[b]
    <3>1. k \in DOMAIN notices /\ 1 \in DOMAIN notices
      BY <2>4, <1>1
    <3>2. \A i, j \in DOMAIN notices : Follows(j, i) =>
            notices[j].block # Genesis /\ Prev[notices[j].block] \in Path[notices[i].block]
      BY DEF IInv, Queue
    <3> QED
      BY <3>1, <3>2, <2>5
  <2>7. k - 1 \in 1..(m - 1) /\ k - 1 \in 1..(n - 1) /\ (k - 1) + 1 = k
    BY <2>4
  <2>8. IsConnected(k - 1)' /\ notices'[k - 1] = notices[k]
    BY <2>4, <2>7, <1>1, <1>2
  <2>9. Links(k - 1)'
    BY <2>6, <2>8 DEF Links
  <2> QED
    BY <2>7, <2>8, <2>9
<1>5. Queue'
  <2>1. activeTip \in Path[b] \/ \E j \in 1..(n - 1) : IsConnected(j)' /\ Links(j)'
    <3>1. n \in 1..n
      BY <1>1
    <3>2. (\A k \in 2..n : ~IsConnected(k)) => activeTip \in Path[b]
      BY <1>0, <1>1, <1>3 DEF IInv, Queue
    <3> QED
      BY <3>1, <3>2, <1>4
  <2> QED
    BY <2>1, <1>1, <1>2, <1>3 DEF Queue, NoticeSet
<1>7. PICK l \in Nat : l = caller.left /\ l <= n
  BY <1>0, Typed
<1>8. caller'.left \in 0..(n - 1)
  BY <1>1, <1>7
<1>9. Caller'
  <2>1. CASE caller.tip = Nil
    BY <2>1, <1>1, <1>7 DEF IInv, Caller
  <2>2. CASE caller.tip # Nil
    <3>1. Up' /\ m_synced' /\ m_best_block_index' # Nil /\ m_best_block_index # Nil
      BY <2>2, <1>3 DEF IInv, Caller, Up
    <3>2. CASE caller.tip \in Path[m_best_block_index] \/ caller.tip \in DOMAIN db.byHash
      <4>1. caller'.tip \in Path[m_best_block_index'] \/ caller'.tip \in DOMAIN db'.byHash
        BY <3>1, <3>2, <1>1
      <4> QED
        BY <2>2, <3>1, <4>1, <1>1 DEF Caller
    <3>3. CASE /\ \E j \in 1..caller.left : IsConnected(j) /\ Links(j)
               /\ \A i \in 1..caller.left :
                    IsConnected(i) /\ (\A k \in (i+1)..caller.left : ~IsConnected(k)) =>
                      caller.tip \in Path[notices[i].block]
      <4>1. l \in 1..n /\ caller'.left = l - 1 /\ 1 \in 1..l
        BY <3>3, <1>1, <1>7
      <4>2. CASE \A k \in 2..l : ~IsConnected(k)
        <5>1. caller.tip \in Path[b]
          BY <4>1, <4>2, <3>3, <1>3, <1>7
        <5> QED
          BY <2>2, <3>1, <5>1, <1>1 DEF Caller
      <4>3. CASE \E j \in 1..(l - 1) : j \in 1..(n - 1) /\ IsConnected(j)' /\ Links(j)'
        <5>5. \A i \in 1..(l - 1) :
               IsConnected(i)' /\ (\A k \in (i+1)..(l - 1) : ~IsConnected(k)') =>
                  caller.tip \in Path[notices'[i].block]
          <6>1. SUFFICES ASSUME NEW i \in 1..(l - 1), IsConnected(i)', \A k \in (i+1)..(l - 1) : ~IsConnected(k)'
                         PROVE  caller.tip \in Path[notices'[i].block]
            OBVIOUS
          <6>2. i \in 1..(n - 1) /\ i + 1 \in 1..l /\ IsConnected(i + 1) /\ notices'[i] = notices[i + 1]
            BY <6>1, <1>1, <1>2, <1>7
          <6>3. \A k \in ((i + 1) + 1)..l : ~IsConnected(k)
            <7>1. SUFFICES ASSUME NEW k \in ((i + 1) + 1)..l PROVE ~IsConnected(k)
              OBVIOUS
            <7>2. k - 1 \in (i + 1)..(l - 1) /\ k - 1 \in 1..(n - 1) /\ (k - 1) + 1 = k
              BY <1>7
            <7> QED
              BY <6>1, <7>2, <1>2
          <6> QED
            BY <6>2, <6>3, <3>3, <1>7
        <5> QED
          BY <2>2, <3>1, <4>1, <4>3, <5>5, <1>1 DEF Caller
      <4> QED
        BY <4>1, <4>2, <4>3, <1>4
    <3> QED
      BY <2>2, <3>2, <3>3, Zenon DEF IInv, Caller
  <2> QED
    BY <2>1, <2>2
<1> QED
  BY <1>1, <1>5, <1>8, <1>9

\* A delivery keeps the conditions on modes and on the stages of the sync.
LEMMA DeliveredControl ==
    ASSUME IInv, NEW kind \in {"connected", "flushed"}, Deliver(kind), UNCHANGED <<mode, m_synced>>
    PROVE  Control' /\ activeTip # Nil
PROOF
<1>1. /\ UNCHANGED <<activeTip, flushedTip, moves, restarts, syncAt, pindex>> /\ notices # <<>> /\ Up
  BY DEF Deliver, chainVars
<1>2. activeTip # Nil
  BY <1>1 DEF IInv, Control
<1>3. flushedTip = Nil => \A i \in DOMAIN notices' : notices'[i].kind = "connected"
  <2>1. SUFFICES ASSUME flushedTip = Nil, NEW i \in DOMAIN notices' PROVE notices'[i].kind = "connected"
    OBVIOUS
  <2>2. i + 1 \in DOMAIN notices /\ notices'[i] = notices[i + 1]
    BY Delivered
  <2> QED
    BY <2>1, <2>2 DEF IInv, Control
<1>4. mode \notin {"down", "refused"}
  BY <1>1 DEF Up
<1> QED
  BY <1>1, <1>2, <1>3, <1>4, Zenon DEF IInv, Control, Up

\* A callback that returns early preserves the invariant.
LEMMA SkippedIInv ==
    ASSUME IInv, NEW kind \in {"connected", "flushed"}, Deliver(kind), Ignored,
           m_synced => m_best_block_index # Nil /\ ~(IsConnected(1) /\ Links(1))
    PROVE  IInv'
PROOF
<1>1. /\ UNCHANGED <<activeTip, flushedTip, moves, restarts, syncAt, pindex,
                     mode, m_best_block_index, m_synced, running, db, durable>>
      /\ Up
  BY DEF Deliver, Ignored, chainVars, diskVars
<1>2. Queue' /\ Caller' /\ caller'.left \in 0..Len(notices') /\ caller'.tip = caller.tip
  BY <1>1, SkippedQueue
<1>3. Control'
  BY <1>1, DeliveredControl
<1>4. IndexTypeOK'
  BY <1>1, <1>2 DEF IInv, IndexTypeOK
<1>5. DbIsRight(db)' /\ DbIsRight(durable)'
  BY <1>1 DEF IInv
<1>6. Memory'
  BY <1>1 DEF IInv, Memory, Up, Holds, IndexedUpTo
<1> QED
  BY <1>2, <1>3, <1>4, <1>5, <1>6 DEF IInv

\* A callback that indexes its block preserves the invariant.
LEMMA TakenIInv ==
    ASSUME IInv, Deliver("connected"), m_synced,
           NEW b \in Block, b = notices[1].block, m_best_block_index' = b,
           UNCHANGED <<mode, m_synced>>,
           m_best_block_index # Nil =>
               Path[m_best_block_index] \cup DOMAIN db.byHash \subseteq Path[b] \cup DOMAIN db'.byHash,
           DbIsRight(db)', DbIsRight(durable)',
           running' = StatsOf(b), Holds(db', b), db'.best # Nil => db'.best \in Path[b]
    PROVE  IInv'
PROOF
<1>1. /\ UNCHANGED <<activeTip, flushedTip, moves, restarts, syncAt, pindex>> /\ Up
  BY DEF Deliver, chainVars
<1>2. Queue' /\ Caller' /\ caller'.left \in 0..Len(notices') /\ caller'.tip = caller.tip
  BY <1>1, TakenQueue
<1>3. Control'
  BY <1>1, DeliveredControl
<1>4. IndexTypeOK'
  BY <1>1, <1>2 DEF IInv, IndexTypeOK
<1>5. IndexedUpTo' = b /\ b # Nil
  BY <1>1, NilAssumption DEF IInv, Control, IndexedUpTo
<1>6. Memory'
  BY <1>5 DEF Memory, Holds
<1> QED
  BY <1>2, <1>3, <1>4, <1>6 DEF IInv

\* BaseIndex::BlockConnected preserves the invariant, whether it ignores the
\* block, appends it, or rewinds to its parent first.
LEMMA BlockConnectedIInv ==
    ASSUME IInv, BlockConnected
    PROVE  IInv'
PROOF
<1> DEFINE b == notices[1].block
           best == m_best_block_index
<1>1. Deliver("connected") /\ Head(notices) = notices[1] /\ b \in Block /\ IsConnected(1)
  <2>1. Deliver("connected")
    BY DEF BlockConnected
  <2>2. Head(notices) = notices[1] /\ 1 \in 1..Len(notices) /\ DOMAIN notices = 1..Len(notices)
    BY <2>1, Delivered
  <2> QED
    BY <2>1, <2>2, Typed DEF Deliver, IsConnected
<1>2. /\ best \in Block \cup {Nil} /\ Up /\ activeTip # Nil /\ notices # <<>>
      /\ \A c \in Block : c # Nil
  BY <1>1, Typed DEF Deliver, IInv, Control
<1>3. b = Genesis => m_synced /\ best = Nil
  <2>1. 1 \in DOMAIN notices
    BY <1>1, Delivered
  <2> QED
    BY <1>1, <2>1 DEF IInv, Queue
<1>4. CASE ~m_synced
  <2>1. Ignored
    BY <1>4 DEF BlockConnected
  <2> QED
    BY <1>1, <1>4, <2>1, SkippedIInv
<1>5. CASE m_synced /\ best # Nil /\ ~Connects(b)
  <2>1. Ignored
    BY <1>1, <1>3, <1>5 DEF BlockConnected
  <2>2. ~Links(1)
    BY <1>5 DEF Links, Connects
  <2> QED
    BY <1>1, <1>5, <2>1, <2>2, SkippedIInv
<1>6. ASSUME m_synced
      PROVE  /\ running = IF best = Nil THEN NoStats ELSE StatsOf(best)
             /\ best # Nil => Holds(db, best)
             /\ db.best # Nil => best # Nil /\ db.best \in Path[best]
  <2>1. IndexedUpTo = best
    BY <1>6 DEF IndexedUpTo, IInv, Control
  <2> QED
    BY <2>1, <1>2 DEF IInv, Memory
<1>7. CASE m_synced /\ (IF best = Nil THEN b = Genesis ELSE Connects(b) /\ best = Prev[b])
  <2>1. b # Genesis => Prev[b] = best /\ best # Nil
    BY <1>7
  <2>2. b = Genesis => best = Nil
    BY <1>3
  <2> DEFINE e == CustomAppend(db, running, b)
  <2>3. /\ CanAppend(db, b) /\ Appended(running, b) = StatsOf(b)
        /\ DbIsRight(e) /\ Holds(e, b) /\ e.best = db.best /\ e.byHash = db.byHash
    <3>1. running = IF b = Genesis THEN NoStats ELSE StatsOf(Prev[b])
      BY <1>6, <1>7, <2>1, <2>2, Zenon
    <3>2. b # Genesis => Holds(db, Prev[b])
      BY <1>6, <1>7, <2>1
    <3>3. db.best # Nil => b # Genesis /\ db.best \in Path[Prev[b]]
      BY <1>6, <1>7, <2>1, <2>2
    <3> HIDE DEF b
    <3> QED
      BY <3>1, <3>2, <3>3, <1>1, AppendRight, Zenon DEF IInv
  <2>4. AppendAfter(<<>>, running, b)
    BY <1>1, <1>7 DEF BlockConnected
  <2>5. /\ best' = b /\ running' = StatsOf(b) /\ Write(<<e>>) /\ UNCHANGED <<mode, m_synced>>
    <3>1. Append(<<>>, e) = <<e>>
      OBVIOUS
    <3>2. /\ best' = b /\ running' = Appended(running, b) /\ Write(Append(<<>>, e))
          /\ UNCHANGED <<mode, m_synced>>
      BY <2>3, <2>4, Zenon DEF AppendAfter
    <3> QED
      BY <2>3, <3>1, <3>2, Zenon
  <2>6. db' = e /\ DbIsRight(db)' /\ DbIsRight(durable)'
    <3> HIDE DEF e
    <3> QED
      BY <2>3, <2>5, WroteOne DEF IInv
  <2>7. best # Nil => best \in Path[b] /\ Path[best] \subseteq Path[b]
    <3>1. best # Nil => Path[b] = {b} \cup Path[best] /\ best \in Path[best]
      BY <1>1, <1>2, <1>3, <2>1, PathDef, PathEnds
    <3> QED
      BY <3>1
  <2>8. db'.best # Nil => db'.best \in Path[b]
    BY <1>6, <1>7, <2>3, <2>6, <2>7
  <2>9. best # Nil => Path[best] \cup DOMAIN db.byHash \subseteq Path[b] \cup DOMAIN db'.byHash
    BY <2>3, <2>6, <2>7, Zenon
  <2>10. PICK x \in Block : x = b
    BY <1>1
  <2>11. Holds(db', x)
    BY <2>3, <2>6, <2>10, Zenon
  <2> QED
    BY <1>1, <1>7, <2>5, <2>6, <2>8, <2>9, <2>10, <2>11, TakenIInv, Zenon
<1>8. CASE m_synced /\ best = Nil /\ b # Genesis
  BY <1>2, <1>8, Zenon DEF IInv, Queue
<1>9. CASE m_synced /\ best # Nil /\ Connects(b) /\ best # Prev[b]
  <2>1. /\ best \in Block /\ b # Genesis /\ Prev[b] \in Path[best] /\ Prev[b] \in Block
        /\ running = StatsOf(best) /\ Holds(db, best)
    BY <1>1, <1>2, <1>6, <1>9, TreeAssumption DEF Connects
  <2> DEFINE p == Prev[b]
  <2>2. /\ CanRewind(db, running, best, p)
        /\ Reversed(running, best, p) = StatsOf(p)
        /\ \E c, d : /\ RewindStates(best, p) = <<c, d>>
                     /\ DbIsRight(c) /\ DbIsRight(d)
                     /\ d.best = p /\ Holds(d, p)
                     /\ DOMAIN db.byHash \subseteq DOMAIN d.byHash
                     /\ Path[best] \ Path[p] \subseteq DOMAIN d.byHash
    BY <2>1, RewoundRight, Zenon DEF IInv
  <2>3. PICK c, d : /\ RewindStates(best, p) = <<c, d>>
                    /\ DbIsRight(c) /\ DbIsRight(d)
                    /\ d.best = p /\ Holds(d, p)
                    /\ DOMAIN db.byHash \subseteq DOMAIN d.byHash
                    /\ Path[best] \ Path[p] \subseteq DOMAIN d.byHash
    BY <2>2
  <2>4. AppendAfter(<<c, d>>, StatsOf(p), b)
    BY <1>1, <1>9, <2>2, <2>3 DEF BlockConnected
  <2> DEFINE e == CustomAppend(d, StatsOf(p), b)
  <2>5. /\ CanAppend(d, b) /\ Appended(StatsOf(p), b) = StatsOf(b)
        /\ DbIsRight(e) /\ Holds(e, b) /\ e.best = d.best /\ e.byHash = d.byHash
    <3>1. p \in Path[p]
      BY <2>1, PathEnds
    <3> HIDE DEF b
    <3> QED
      BY <3>1, <2>1, <2>3, <1>1, AppendRight, Zenon
  <2>6. /\ best' = b /\ running' = StatsOf(b) /\ Write(Append(<<c, d>>, e))
        /\ UNCHANGED <<mode, m_synced>>
    <3>1. <<c, d>> # <<>> /\ <<c, d>>[Len(<<c, d>>)] = d
      OBVIOUS
    <3> QED
      BY <2>4, <2>5, <3>1, Zenon DEF AppendAfter
  <2>7. db' = e /\ DbIsRight(db)' /\ DbIsRight(durable)'
    <3> HIDE DEF e
    <3> QED
      BY <2>3, <2>5, <2>6, WroteThree, Zenon DEF IInv
  <2>8. Path[b] = {b} \cup Path[p] /\ p \in Path[b]
    BY <1>1, <2>1, PathDef, PathEnds
  <2>9. best # Nil => Path[best] \cup DOMAIN db.byHash \subseteq Path[b] \cup DOMAIN db'.byHash
    BY <2>3, <2>5, <2>7, <2>8, Zenon
  <2>10. PICK x \in Block : x = b
    BY <1>1
  <2>11. Holds(db', x) /\ (db'.best # Nil => db'.best \in Path[x])
    BY <2>3, <2>5, <2>7, <2>8, <2>10, Zenon
  <2> QED
    BY <1>1, <1>9, <2>6, <2>7, <2>9, <2>10, <2>11, TakenIInv, Zenon
<1> QED
  BY <1>4, <1>5, <1>7, <1>8, <1>9

\* BaseIndex::ChainStateFlushed preserves the invariant: it commits only a best
\* block that descends from the locator of the notification.
LEMMA ChainStateFlushedIInv ==
    ASSUME IInv, ChainStateFlushed
    PROVE  IInv'
PROOF
<1> DEFINE b == notices[1].block
           best == m_best_block_index
<1>1. Deliver("flushed") /\ Head(notices) = notices[1] /\ b \in Block /\ ~IsConnected(1)
  <2>1. Deliver("flushed")
    BY DEF ChainStateFlushed
  <2>2. Head(notices) = notices[1] /\ 1 \in 1..Len(notices) /\ DOMAIN notices = 1..Len(notices)
    BY <2>1, Delivered
  <2> QED
    BY <2>1, <2>2, Typed DEF Deliver, IsConnected
<1>2. /\ best \in Block \cup {Nil} /\ Up /\ activeTip # Nil /\ notices # <<>>
      /\ \A c \in Block : c # Nil
  BY <1>1, Typed DEF Deliver, IInv, Control
<1>3. m_synced => best # Nil
  BY <1>1, <1>2 DEF IInv, Queue
<1>4. CASE ~m_synced
  <2>1. Ignored
    BY <1>4 DEF ChainStateFlushed
  <2> QED
    BY <1>1, <1>4, <2>1, SkippedIInv
<1>5. CASE m_synced
  <2> DEFINE e == IF b \in Path[best] THEN Commit(db, best, running) ELSE db
  <2>1. Write(<<e>>) /\ UNCHANGED <<mode, m_best_block_index, m_synced, running>>
    BY <1>1, <1>3, <1>5 DEF ChainStateFlushed
  <2>2. IndexedUpTo = best /\ syncAt = "done"
    BY <1>5 DEF IndexedUpTo, IInv, Control
  <2>3. /\ best \in Block /\ best # Nil /\ running = StatsOf(best) /\ Holds(db, best)
        /\ db.best # Nil => db.best \in Path[best]
    BY <1>2, <1>3, <1>5, <2>2 DEF IInv, Memory
  <2>4. /\ DbIsRight(e) /\ e.byHash = db.byHash /\ Holds(e, best)
        /\ e.best # Nil => e.best \in Path[best]
    <3>1. /\ DbIsRight(Commit(db, best, StatsOf(best)))
          /\ Commit(db, best, StatsOf(best)).best = best
          /\ Commit(db, best, StatsOf(best)).byHash = db.byHash
          /\ Holds(Commit(db, best, StatsOf(best)), best)
      BY <2>3, CommitRight DEF IInv
    <3>2. best \in Path[best]
      BY <2>3, PathEnds
    <3> QED
      BY <3>1, <3>2, <2>3 DEF IInv
  <2> HIDE DEF e
  <2>5. db' = e /\ DbIsRight(db)' /\ DbIsRight(durable)'
    BY <2>1, <2>4, WroteOne DEF IInv
  <2>6. UNCHANGED <<activeTip, flushedTip, moves, restarts, syncAt, pindex>>
    BY <1>1 DEF Deliver, chainVars
  <2>7. Queue' /\ Caller' /\ caller'.left \in 0..Len(notices') /\ caller'.tip = caller.tip
    BY <1>1, <1>2, <1>3, <2>1, <2>4, <2>5, SkippedQueue
  <2>8. Control'
    BY <1>1, <2>1, DeliveredControl
  <2>9. IndexTypeOK'
    BY <2>1, <2>6, <2>7 DEF IInv, IndexTypeOK
  <2>10. Memory'
    <3>1. IndexedUpTo' = best
      BY <2>1, <2>2, <2>6 DEF IndexedUpTo
    <3> QED
      BY <3>1, <2>1, <2>3, <2>4, <2>5 DEF Memory, Holds
  <2> QED
    BY <2>5, <2>7, <2>8, <2>9, <2>10 DEF IInv
<1> QED
  BY <1>4, <1>5

\* Every step preserves the invariant.
LEMMA IndexNextIInv ==
    ASSUME IInv, [IndexNext]_indexVars
    PROVE  IInv'
PROOF
<1>1. CASE UNCHANGED indexVars
  <2>1. UNCHANGED <<activeTip, flushedTip, moves, notices, restarts, mode, m_best_block_index, m_synced,
                    running, syncAt, pindex, db, durable, caller>>
    BY <1>1 DEF indexVars, chainVars, memoryVars, diskVars
  <2>2. DbIsRight(db)' /\ DbIsRight(durable)'
    BY <2>1 DEF IInv
  <2>3. Memory' /\ Control'
    BY <2>1 DEF IInv, Memory, Control, Up, Holds, IndexedUpTo
  <2>4. Queue'
    <3>1. \A i : IsConnected(i)' = IsConnected(i) /\ Links(i)' = Links(i)
      BY <2>1 DEF IsConnected, Links
    <3>2. \A i, j : Follows(j, i)' = Follows(j, i)
      BY <3>1 DEF Follows
    <3> QED
      BY <2>1, <3>1, <3>2, Zenon DEF IInv, Queue
  <2>5. Caller'
    BY <2>1 DEF IInv, Caller, Up, IsConnected, Links
  <2>6. IndexTypeOK'
    BY <2>1 DEF IInv, IndexTypeOK
  <2> QED
    BY <2>2, <2>3, <2>4, <2>5, <2>6 DEF IInv
<1>2. CASE ChainMoves
  BY <1>2, ConnectTipIInv, DisconnectTipIInv, FlushStateToDiskIInv DEF ChainMoves
<1>3. CASE NodeStopsOrStarts
  BY <1>3, StartIInv, WipeIInv, CrashIInv, InterruptIInv, ForceFlushStateToDiskIInv, StopIndexIInv
  DEF NodeStopsOrStarts
<1>4. CASE SyncThread
  BY <1>4, SyncEndsIInv, SyncGoesOnIInv, SyncRewindsIInv, SyncLocatorIInv, SyncAppendIInv
  DEF SyncThread, SyncNext
<1>5. CASE Callbacks
  BY <1>5, BlockConnectedIInv, ChainStateFlushedIInv DEF Callbacks
<1>6. CASE BlockUntilSyncedToCurrentChain
  BY <1>6, BlockUntilSyncedIInv
<1> QED
  BY <1>1, <1>2, <1>3, <1>4, <1>5, <1>6 DEF IndexNext

\* The invariant implies the property.
LEMMA IInvIsEnough ==
    ASSUME IInv PROVE IndexIsRight
PROOF
<1>1. \A d : DbIsRight(d) =>
        /\ \A h \in DOMAIN d.byHeight :
              Height[d.byHeight[h].block] = h /\ d.byHeight[h].stats = StatsOf(d.byHeight[h].block)
        /\ \A b \in DOMAIN d.byHash : d.byHash[b] = StatsOf(b)
        /\ d.best # Nil => d.muhash = StatsOf(d.best) /\ \A b \in Path[d.best] : Known(d, b)
  <2>1. SUFFICES ASSUME NEW d, DbIsRight(d)
                 PROVE  /\ \A h \in DOMAIN d.byHeight :
                             /\ Height[d.byHeight[h].block] = h
                             /\ d.byHeight[h].stats = StatsOf(d.byHeight[h].block)
                        /\ \A b \in DOMAIN d.byHash : d.byHash[b] = StatsOf(b)
                        /\ d.best # Nil =>
                             d.muhash = StatsOf(d.best) /\ \A b \in Path[d.best] : Known(d, b)
    BY Zenon
  <2>2. d.best # Nil => d.best \in Block /\ d.muhash = StatsOf(d.best) /\ Holds(d, d.best)
    BY <2>1 DEF DbIsRight
  <2>3. d.best # Nil => \A b \in Path[d.best] : Known(d, b)
    BY <2>2, HoldsKnown
  <2> QED
    BY <2>1, <2>2, <2>3 DEF DbIsRight
<1>2. EntriesAreRight
  BY <1>1 DEF IInv, EntriesAreRight
<1>3. IndexedUpTo # Nil /\ Up => \A b \in Path[IndexedUpTo] : Known(db, b)
  BY DEF IInv, Memory, Holds, Known, AtHeight
<1>4. MemoryIsRight
  BY <1>3 DEF IInv, Memory, MemoryIsRight
<1>5. NeverBroken
  BY DEF IInv, Control, NeverBroken
<1>6. ReaderFindsTip
  <2>1. SUFFICES ASSUME caller.tip # Nil, caller.left = 0 PROVE Known(db, caller.tip)
    BY DEF ReaderFindsTip
  <2>2. Up /\ m_synced /\ m_best_block_index # Nil /\ m_best_block_index \in Block
    BY <2>1, Typed DEF IInv, Caller
  <2>3. caller.tip \in Path[m_best_block_index] \/ caller.tip \in DOMAIN db.byHash
    BY <2>1 DEF IInv, Caller
  <2>4. IndexedUpTo = m_best_block_index
    BY <2>2 DEF IInv, Control, IndexedUpTo
  <2>5. CASE caller.tip \in Path[m_best_block_index]
    BY <2>5, <2>2, <2>4, <1>3
  <2>6. CASE caller.tip \in DOMAIN db.byHash
    BY <2>6 DEF IInv, DbIsRight, Known
  <2> QED
    BY <2>3, <2>5, <2>6
<1> QED
  BY <1>2, <1>4, <1>5, <1>6 DEF IInv, IndexIsRight

\* Every entry of the coin statistics index, by height and by hash, durable or
\* not, is right; the statistics in memory are those of the last block indexed;
\* no rewind or append of the index ever fails its checks, and CustomInit refuses
\* a start only if the committed block left the chain; a caller of
\* BlockUntilSyncedToCurrentChain finds the tip it asked about: for every
\* tree of blocks, every number of moves of the chain and of restarts.
THEOREM IndexIsRightHolds == IndexSpec => []IndexIsRight
PROOF
<1>1. IndexInit => IInv
  BY IndexInitIInv
<1>2. IInv /\ [IndexNext]_indexVars => IInv'
  BY IndexNextIInv
<1>3. IInv => IndexIsRight
  BY IInvIsEnough
<1> QED
  BY <1>1, <1>2, <1>3, PTL DEF IndexSpec
====
