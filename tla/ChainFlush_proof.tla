-------------------------- MODULE ChainFlush_proof ---------------------------
(***************************************************************************)
(* A node comes back from any crash with the coins of its tip, for every   *)
(* tree of valid blocks, every batch and every number of flushes and       *)
(* crashes.                                                                *)
(*                                                                         *)
(* The argument has three parts.  Within a block, the undo data restores   *)
(* exactly the coins the block was connected to (UndoIsExact).  Along a    *)
(* chain, rolling back and forward leaves at an output either what was     *)
(* there or, if some block on the way touches it, a coin that does not     *)
(* depend on what was there; so a mixture of the coins of two chain ends   *)
(* becomes the coins of the new one (ReplayRecovers).  And the steps of    *)
(* the node keep the databases in such states, on top of an index and      *)
(* files that hold what a replay reads (FInv).                             *)
(***************************************************************************)
EXTENDS ChainFlush, BlockTree_proof

-----------------------------------------------------------------------------
(* Coins within a block.                                                   *)

\* UpdateCoins makes coins of coins.
LEMMA CoinsAfterType ==
    ASSUME NEW b \in Block, NEW c \in Coins, NEW n
    PROVE  CoinsAfter(c, b, n) \in Coins
PROOF
<1>1. Height[b] \in Nat
  BY HeightDef
<1> QED
  BY <1>1 DEF CoinsAfter, Coins, NoCoin

\* The recursive definition of Utxo has a solution, so it can be unfolded: the
\* coins of a chain are those of its parent with the block connected.
LEMMA UtxoDef ==
    /\ Utxo \in [Block -> Coins]
    /\ Utxo[Genesis] = NoCoins
    /\ \A b \in Block \ {Genesis} : Utxo[b] = ConnectCoins(Utxo[Prev[b]], b)
PROOF
<1> USE TreeAssumption
<1> DEFINE step == [x \in Block \X Coins |-> ConnectCoins(x[2], x[1])]
<1>1. step \in [Block \X Coins -> Coins]
  BY CoinsAfterType DEF ConnectCoins
<1>2. NoCoins \in Coins
  BY DEF NoCoins, Coins, NoCoin
<1>3. PICK f \in [Block -> Coins] :
        /\ f[Genesis] = NoCoins
        /\ \A b \in Block \ {Genesis} : f[b] = step[<<b, f[Prev[b]]>>]
  <2> HIDE DEF step
  <2>1. IsDefined(Coins, NoCoins, step)
    BY <1>1, <1>2, TreeRecursion, Zenon
  <2> QED
    BY <2>1 DEF IsDefined
<1>4. \A b \in Block \ {Genesis} : f[b] = ConnectCoins(f[Prev[b]], b)
  BY <1>3, Zenon
<1>5. f = [b \in Block |-> IF b = Genesis THEN NoCoins ELSE ConnectCoins(f[Prev[b]], b)]
  BY <1>3, <1>4
<1>6. Utxo = CHOOSE g : g = [b \in Block |-> IF b = Genesis THEN NoCoins ELSE ConnectCoins(g[Prev[b]], b)]
  BY DEF Utxo
<1>7. Utxo = [b \in Block |-> IF b = Genesis THEN NoCoins ELSE ConnectCoins(Utxo[Prev[b]], b)]
  BY <1>5, <1>6, Zenon
<1>8. \A b \in Block : Utxo[b] = IF b = Genesis THEN NoCoins ELSE ConnectCoins(Utxo[Prev[b]], b)
  BY <1>7, Zenon
<1>9. {b \in Block : Utxo[b] \in Coins} = Block
  <2> DEFINE S == {b \in Block : Utxo[b] \in Coins}
  <2>1. Genesis \in S
    BY <1>2, <1>8
  <2>2. ASSUME NEW b \in Block \ {Genesis}, Prev[b] \in S PROVE b \in S
    BY <2>2, <1>8, CoinsAfterType DEF ConnectCoins
  <2>3. S \in SUBSET Block
    OBVIOUS
  <2> HIDE DEF S
  <2>4. S = Block
    BY <2>1, <2>2, <2>3, Rooted
  <2> QED
    BY <2>4 DEF S
<1>10. Utxo \in [Block -> Coins]
  <2>1. \A b \in Block : (IF b = Genesis THEN NoCoins ELSE ConnectCoins(Utxo[Prev[b]], b)) \in Coins
    BY <1>8, <1>9
  <2> QED
    BY <2>1, <1>7, Zenon
<1> QED
  BY <1>8, <1>10

\* What the undo data holds for an input of a connected block is a coin.
LEMMA TxUndoType ==
    ASSUME NEW b \in Block \ {Genesis}, NEW i \in 1..Len(Vtx[b]), NEW o \in Inputs[Vtx[b][i]]
    PROVE  /\ TxUndo(b, i)[o] = CoinsAfter(Utxo[Prev[b]], b, i - 1)[o]
           /\ TxUndo(b, i)[o] \in Nat
PROOF
<1>1. Utxo[Prev[b]] \in Coins
  BY TreeAssumption, UtxoDef, Zenon
<1>2. CoinsAfter(Utxo[Prev[b]], b, i - 1) \in Coins
  BY <1>1, CoinsAfterType
<1>3. Vtx[b][i] \in Tx
  BY TransactionAssumption
<1>4. o \in OutPoint
  BY <1>3, TransactionAssumption
<1> QED
  BY <1>2, <1>4 DEF TxUndo, Coins

\* DisconnectBlock makes coins of coins.
LEMMA CoinsUndoneType ==
    ASSUME NEW b \in Block \ {Genesis}, NEW c \in Coins, NEW n \in Nat
    PROVE  CoinsUndone(c, b, n) \in Coins
PROOF
<1>1. ASSUME NEW o \in OutPoint, Restorer(b, n, o) # {}
      PROVE  TxUndo(b, CHOOSE i \in Restorer(b, n, o) : TRUE)[o] \in Nat
  <2>1. PICK k : k = CHOOSE i \in Restorer(b, n, o) : TRUE
    OBVIOUS
  <2>2. k \in Restorer(b, n, o)
    BY <1>1, <2>1
  <2>3. k \in 1..Len(Vtx[b]) /\ o \in Inputs[Vtx[b][k]]
    <3>1. Len(Vtx[b]) \in Nat
      BY TransactionAssumption
    <3> QED
      BY <2>2, <3>1 DEF Restorer
  <2> QED
    BY <2>1, <2>3, TxUndoType
<1> QED
  BY <1>1 DEF CoinsUndone, Coins, NoCoin

\* The forward loop of ReplayBlocks, unfolded.
LEMMA RolledForwardDef ==
    ASSUME NEW fork \in Block, NEW base \in Coins
    PROVE  \A b \in Block : /\ RolledForward(fork, base)[b] \in Coins
                            /\ RolledForward(fork, base)[b] =
                                 IF b \in Path[fork] THEN base
                                 ELSE ConnectCoins(RolledForward(fork, base)[Prev[b]], b)
PROOF
<1> USE TreeAssumption
<1> DEFINE F == RolledForward(fork, base)
           step == [x \in Block \X Coins |-> IF x[1] \in Path[fork] THEN base ELSE ConnectCoins(x[2], x[1])]
<1>1. step \in [Block \X Coins -> Coins]
  BY CoinsAfterType DEF ConnectCoins
<1>2. Genesis \in Path[fork]
  BY PathEnds
<1>3. PICK f \in [Block -> Coins] :
        /\ f[Genesis] = base
        /\ \A b \in Block \ {Genesis} : f[b] = step[<<b, f[Prev[b]]>>]
  <2> HIDE DEF step
  <2>1. IsDefined(Coins, base, step)
    BY <1>1, TreeRecursion, Zenon
  <2> QED
    BY <2>1 DEF IsDefined
<1>4. \A b \in Block \ {Genesis} : f[b] = IF b \in Path[fork] THEN base ELSE ConnectCoins(f[Prev[b]], b)
  BY <1>3, Zenon
<1>5. f = [b \in Block |-> IF b \in Path[fork] THEN base ELSE ConnectCoins(f[Prev[b]], b)]
  BY <1>2, <1>3, <1>4
<1>6. F = CHOOSE g : g = [b \in Block |-> IF b \in Path[fork] THEN base ELSE ConnectCoins(g[Prev[b]], b)]
  BY DEF RolledForward
<1> HIDE DEF F
<1>7. F = [b \in Block |-> IF b \in Path[fork] THEN base ELSE ConnectCoins(F[Prev[b]], b)]
  BY <1>5, <1>6, Zenon
<1>8. \A b \in Block : F[b] = IF b \in Path[fork] THEN base ELSE ConnectCoins(F[Prev[b]], b)
  BY <1>7, Zenon
<1>9. \A b \in Block : F[b] \in Coins
  <2> DEFINE S == {b \in Block : F[b] \in Coins}
  <2>1. Genesis \in S
    BY <1>2, <1>8
  <2>2. ASSUME NEW b \in Block \ {Genesis}, Prev[b] \in S PROVE b \in S
    <3>1. F[Prev[b]] \in Coins
      BY <2>2
    <3>2. ConnectCoins(F[Prev[b]], b) \in Coins
      BY <3>1, CoinsAfterType DEF ConnectCoins
    <3> QED
      BY <3>2, <1>8
  <2>3. S \in SUBSET Block
    OBVIOUS
  <2> HIDE DEF S
  <2>4. S = Block
    BY <2>1, <2>2, <2>3, Rooted
  <2> QED
    BY <2>4 DEF S
<1> QED
  BY <1>8, <1>9 DEF F

\* The backward loop of ReplayBlocks, unfolded.
LEMMA RolledBackDef ==
    ASSUME NEW fork \in Block
    PROVE  \A b \in Block, c \in Coins :
              /\ RolledBack(fork)[b][c] \in Coins
              /\ RolledBack(fork)[b][c] =
                   IF b \in Path[fork] THEN c ELSE RolledBack(fork)[Prev[b]][DisconnectCoins(c, b)]
PROOF
<1> USE TreeAssumption
<1> DEFINE B == RolledBack(fork)
           V == [Coins -> Coins]
           id == [c \in Coins |-> c]
           R(g) == [b \in Block |-> IF b \in Path[fork] THEN id
                                    ELSE [c \in Coins |-> g[Prev[b]][DisconnectCoins(c, b)]]]
           step == [x \in Block \X V |-> IF x[1] \in Path[fork] THEN id
                                         ELSE [c \in Coins |-> x[2][DisconnectCoins(c, x[1])]]]
<1>1. Genesis \in Path[fork]
  BY PathEnds
<1>2. \A b \in Block \ {Genesis}, c \in Coins : DisconnectCoins(c, b) \in Coins
  BY CoinsUndoneType DEF DisconnectCoins
<1>3. step \in [Block \X V -> V]
  BY <1>1, <1>2, Zenon
<1>4. id \in V
  OBVIOUS
<1>5. PICK f \in [Block -> V] :
        /\ f[Genesis] = id
        /\ \A b \in Block \ {Genesis} : f[b] = step[<<b, f[Prev[b]]>>]
  <2> HIDE DEF step, V, id
  <2>1. IsDefined(V, id, step)
    BY <1>3, <1>4, TreeRecursion, Zenon
  <2> QED
    BY <2>1 DEF IsDefined
<1>6. \A b \in Block \ {Genesis} :
        f[b] = IF b \in Path[fork] THEN id ELSE [c \in Coins |-> f[Prev[b]][DisconnectCoins(c, b)]]
  <2> HIDE DEF V, id
  <2>1. \A b \in Block \ {Genesis} : f[Prev[b]] \in V
    BY <1>5, Zenon
  <2> QED
    BY <1>5, <2>1, Zenon
<1>7. f = R(f)
  <2> HIDE DEF V, id, step
  <2> QED
    BY <1>1, <1>5, <1>6
<1>8. B = CHOOSE g : g = R(g)
  BY DEF RolledBack
<1> HIDE DEF B, id, R
<1>9. B = R(B)
  BY <1>7, <1>8, Zenon
<1>10. \A b \in Block : B[b] = IF b \in Path[fork] THEN id
                              ELSE [c \in Coins |-> B[Prev[b]][DisconnectCoins(c, b)]]
  <2>1. \A g : \A b \in Block : R(g)[b] = IF b \in Path[fork] THEN id
                                         ELSE [c \in Coins |-> g[Prev[b]][DisconnectCoins(c, b)]]
    BY DEF R
  <2>2. \A b \in Block : B[b] = R(B)[b]
    BY <1>9
  <2>3. \A b \in Block : R(B)[b] = IF b \in Path[fork] THEN id
                                   ELSE [c \in Coins |-> B[Prev[b]][DisconnectCoins(c, b)]]
    BY <2>1, Zenon
  <2> QED
    BY <2>2, <2>3
<1>11. \A b \in Block, c \in Coins :
         B[b][c] = IF b \in Path[fork] THEN c ELSE B[Prev[b]][DisconnectCoins(c, b)]
  <2>1. SUFFICES ASSUME NEW b \in Block, NEW c \in Coins
                 PROVE  B[b][c] = IF b \in Path[fork] THEN c ELSE B[Prev[b]][DisconnectCoins(c, b)]
    OBVIOUS
  <2>2. CASE b \in Path[fork]
    <3>1. B[b] = id
      BY <2>2, <1>10, Zenon
    <3> QED
      BY <3>1, <2>2 DEF id
  <2>3. CASE b \notin Path[fork]
    <3>1. B[b] = [d \in Coins |-> B[Prev[b]][DisconnectCoins(d, b)]]
      BY <2>3, <1>10
    <3> QED
      BY <3>1, <2>3
  <2> QED
    BY <2>2, <2>3
<1>12. \A b \in Block, c \in Coins : B[b][c] \in Coins
  <2> DEFINE S == {b \in Block : \A c \in Coins : B[b][c] \in Coins}
  <2>1. Genesis \in S
    BY <1>1, <1>11
  <2>2. ASSUME NEW b \in Block \ {Genesis}, Prev[b] \in S PROVE b \in S
    BY <2>2, <1>2, <1>11
  <2>3. S \in SUBSET Block
    OBVIOUS
  <2> HIDE DEF S
  <2>4. S = Block
    BY <2>1, <2>2, <2>3, Rooted
  <2> QED
    BY <2>4 DEF S
<1> QED
  BY <1>11, <1>12 DEF B

\* The first n transactions of b leave a coin at o.
Created(b, n, o) ==
    \E i \in 1..n : o \in Outputs[Vtx[b][i]] /\ \A j \in (i + 1)..n : ~Touches(b, j, o)
\* One of the transactions n + 1 to m of b creates or spends o.
Touched(b, n, m, o) == \E i \in (n + 1)..m : Touches(b, i, o)

\* The coin at o after n transactions of b (UpdateCoins).
LEMMA CoinsAfterIs ==
    ASSUME NEW b \in Block, NEW c, NEW n \in Nat, NEW o \in OutPoint
    PROVE  CoinsAfter(c, b, n)[o] = IF Created(b, n, o) THEN Height[b]
                                    ELSE IF Touched(b, 0, n, o) THEN NoCoin ELSE c[o]
PROOF
<1>1. Touched(b, 0, n, o) <=> \E i \in 1..n : Touches(b, i, o)
  BY DEF Touched
<1> QED
  BY <1>1 DEF CoinsAfter, Created

\* A transaction that does not touch an output leaves its coin alone.
LEMMA AfterUntouched ==
    ASSUME NEW b \in Block, NEW c, NEW o \in OutPoint, NEW n \in Nat, NEW m \in Nat, n <= m,
           ~Touched(b, n, m, o)
    PROVE  CoinsAfter(c, b, m)[o] = CoinsAfter(c, b, n)[o]
PROOF
<1>1. Created(b, m, o) <=> Created(b, n, o)
  <2>1. ASSUME Created(b, m, o) PROVE Created(b, n, o)
    <3>1. PICK i \in 1..m : o \in Outputs[Vtx[b][i]] /\ \A j \in (i + 1)..m : ~Touches(b, j, o)
      BY <2>1 DEF Created
    <3>2. Touches(b, i, o)
      BY <3>1 DEF Touches
    <3>3. i \in 1..n
      BY <3>2 DEF Touched
    <3> QED
      BY <3>1, <3>3 DEF Created
  <2>2. ASSUME Created(b, n, o) PROVE Created(b, m, o)
    <3>1. PICK i \in 1..n : o \in Outputs[Vtx[b][i]] /\ \A j \in (i + 1)..n : ~Touches(b, j, o)
      BY <2>2 DEF Created
    <3>2. \A j \in (i + 1)..m : ~Touches(b, j, o)
      BY <3>1 DEF Touched
    <3> QED
      BY <3>1, <3>2 DEF Created
  <2> QED
    BY <2>1, <2>2
<1>2. Touched(b, 0, m, o) <=> Touched(b, 0, n, o)
  BY DEF Touched
<1> QED
  BY <1>1, <1>2, CoinsAfterIs

\* DisconnectBlock goes back through the very states ConnectBlock went through:
\* with the transactions after the n-th undone, the coins are those the first n
\* left.  This is where block validity is needed: outputs are new (BIP30), inputs
\* are there, no transaction occurs twice.
LEMMA UndoneIsAfter ==
    ASSUME NEW b \in Block \ {Genesis}, NEW n \in 0..Len(Vtx[b])
    PROVE  CoinsUndone(Utxo[b], b, n) = CoinsAfter(Utxo[Prev[b]], b, n)
PROOF
<1> DEFINE p == Utxo[Prev[b]]
           A(m) == CoinsAfter(p, b, m)
<1>0. PICK L \in Nat : L = Len(Vtx[b]) /\ DOMAIN Vtx[b] = 1..L
  BY TransactionAssumption
<1>1. n \in Nat /\ n <= L /\ p \in Coins /\ Utxo[b] = A(L) /\ Prev[b] \in Block
  BY <1>0, TreeAssumption, UtxoDef DEF ConnectCoins
<1>2. CoinsUndone(Utxo[b], b, n) \in Coins /\ A(n) \in Coins
  BY <1>1, UtxoDef, CoinsUndoneType, CoinsAfterType
<1>3. ASSUME NEW o \in OutPoint PROVE CoinsUndone(Utxo[b], b, n)[o] = A(n)[o]
  <2>1. /\ Restorer(b, n, o) # {} =>
             CoinsUndone(Utxo[b], b, n)[o] = TxUndo(b, CHOOSE i \in Restorer(b, n, o) : TRUE)[o]
        /\ Restorer(b, n, o) = {} /\ Touched(b, n, L, o) => CoinsUndone(Utxo[b], b, n)[o] = NoCoin
        /\ Restorer(b, n, o) = {} /\ ~Touched(b, n, L, o) =>
             CoinsUndone(Utxo[b], b, n)[o] = Utxo[b][o]
    BY <1>0 DEF CoinsUndone, Touched
  <2>2. CASE Restorer(b, n, o) # {}
    <3>1. PICK k \in Restorer(b, n, o) : k = CHOOSE i \in Restorer(b, n, o) : TRUE
      BY <2>2
    <3>2. /\ k \in (n + 1)..L /\ k \in 1..L /\ k - 1 \in Nat /\ n <= k - 1 /\ o \in Inputs[Vtx[b][k]]
          /\ \A j \in (n + 1)..(k - 1) : ~Touches(b, j, o)
      <4>1. /\ k \in (n + 1)..L /\ o \in Inputs[Vtx[b][k]]
            /\ \A j \in (n + 1)..(k - 1) : ~Touches(b, j, o)
        BY <1>0 DEF Restorer
      <4>2. n \in Nat /\ L \in Nat
        BY <1>1
      <4> QED
        BY <4>1, <4>2
    <3>3. ~Touched(b, n, k - 1, o)
      BY <3>2 DEF Touched
    <3>4. TxUndo(b, k)[o] = A(k - 1)[o]
      BY <3>2, <1>0, TxUndoType
    <3>5. A(k - 1)[o] = A(n)[o]
      BY <3>2, <3>3, <1>1, AfterUntouched
    <3> QED
      BY <2>1, <2>2, <3>1, <3>4, <3>5
  <2>3. CASE Restorer(b, n, o) = {} /\ ~Touched(b, n, L, o)
    <3>1. A(L)[o] = A(n)[o]
      <4>1. L \in Nat /\ n \in Nat /\ n <= L /\ ~Touched(b, n, L, o)
        BY <2>3, <1>1
      <4> HIDE DEF p
      <4> QED
        BY <4>1, AfterUntouched
    <3> QED
      BY <2>1, <2>3, <3>1, <1>1
  <2>4. CASE Restorer(b, n, o) = {} /\ Touched(b, n, L, o)
    <3>1. PICK i \in (n + 1)..L : Touches(b, i, o)
      BY <2>4 DEF Touched
    <3>2. i \in 1..L /\ i \in DOMAIN Vtx[b] /\ i - 1 \in Nat /\ n <= i - 1
      BY <3>1, <1>0, <1>1
    <3>3. /\ \A k \in 1..L : o \in Outputs[Vtx[b][k]] => p[o] = NoCoin
          /\ \A k \in 1..L : o \in Inputs[Vtx[b][k]] => A(k - 1)[o] # NoCoin
      BY <1>0, BlocksAreValid, Zenon
    <3>4. CASE \E k \in (n + 1)..L : o \in Outputs[Vtx[b][k]]
      <4>1. PICK k \in (n + 1)..L : o \in Outputs[Vtx[b][k]]
        BY <3>4
      <4>2. k \in 1..L /\ p[o] = NoCoin
        BY <4>1, <3>3, <1>0, <1>1
      <4>3. ~Created(b, n, o)
        <5>1. SUFFICES ASSUME NEW j \in 1..n, o \in Outputs[Vtx[b][j]] PROVE FALSE
          BY DEF Created
        <5>2. j \in 1..L /\ Vtx[b][j] \in Tx /\ Vtx[b][k] \in Tx /\ j # k
          BY <4>1, <4>2, <1>0, <1>1, TransactionAssumption
        <5>3. Vtx[b][j] = Vtx[b][k]
          BY <5>1, <5>2, <4>1, TransactionAssumption
        <5> QED
          BY <5>2, <5>3, <4>2, <1>0, TransactionAssumption, Zenon
      <4>4. A(n)[o] = NoCoin
        BY <4>2, <4>3, <1>1, CoinsAfterIs
      <4> QED
        BY <4>4, <2>1, <2>4
    <3>5. CASE \A k \in (n + 1)..L : o \notin Outputs[Vtx[b][k]]
      <4>1. o \in Inputs[Vtx[b][i]]
        BY <3>1, <3>5 DEF Touches
      <4>2. A(i - 1)[o] # NoCoin
        BY <4>1, <3>2, <3>3
      <4>3. Created(b, i - 1, o) \/ ~Touched(b, 0, i - 1, o)
        BY <4>2, <3>2, CoinsAfterIs
      <4>4. \A j \in (n + 1)..(i - 1) : ~Touches(b, j, o)
        <5>1. CASE ~Touched(b, 0, i - 1, o)
          BY <5>1, <1>1 DEF Touched
        <5>2. CASE Created(b, i - 1, o)
          <6>1. PICK k \in 1..(i - 1) :
                  o \in Outputs[Vtx[b][k]] /\ \A j \in (k + 1)..(i - 1) : ~Touches(b, j, o)
            BY <5>2 DEF Created
          <6>2. k <= n
            BY <6>1, <3>1, <3>5, <1>1
          <6> QED
            BY <6>1, <6>2, <1>1
        <5> QED
          BY <4>3, <5>1, <5>2
      <4>5. i \in Restorer(b, n, o)
        BY <4>1, <4>4, <3>1, <1>0 DEF Restorer
      <4> QED
        BY <4>5, <2>4
    <3> QED
      BY <3>4, <3>5
  <2> QED
    BY <2>2, <2>3, <2>4
<1> HIDE DEF A
<1> QED
  BY <1>2, <1>3 DEF Coins, A

\* Disconnecting a block from the coins of its chain gives the coins of its parent,
\* and is clean: DisconnectBlock returns DISCONNECT_OK.
LEMMA UndoIsExact ==
    ASSUME NEW b \in Block \ {Genesis}
    PROVE  DisconnectCoins(Utxo[b], b) = Utxo[Prev[b]] /\ DisconnectIsClean(Utxo[b], b)
PROOF
<1> DEFINE p == Utxo[Prev[b]]
<1>0. PICK L \in Nat : L = Len(Vtx[b]) /\ DOMAIN Vtx[b] = 1..L
  BY TransactionAssumption
<1>1. p \in Coins
  BY TreeAssumption, UtxoDef, Zenon
<1>2. CoinsAfter(p, b, 0) = p
  <2>1. \A o \in OutPoint : CoinsAfter(p, b, 0)[o] = p[o]
    BY CoinsAfterIs DEF Created, Touched
  <2>2. CoinsAfter(p, b, 0) \in Coins
    BY <1>1, CoinsAfterType
  <2> QED
    BY <2>1, <2>2, <1>1 DEF Coins
<1>3. DisconnectCoins(Utxo[b], b) = p
  BY <1>0, <1>2, UndoneIsAfter DEF DisconnectCoins
<1>4. ASSUME NEW i \in 1..L
      PROVE  /\ \A o \in Outputs[Vtx[b][i]] : CoinsUndone(Utxo[b], b, i)[o] = Height[b]
             /\ \A o \in Inputs[Vtx[b][i]] : CoinsUndone(Utxo[b], b, i)[o] = NoCoin
  <2>1. CoinsUndone(Utxo[b], b, i) = CoinsAfter(p, b, i)
    BY <1>0, UndoneIsAfter
  <2>2. Vtx[b][i] \in Tx
    BY <1>0, TransactionAssumption
  <2>3. /\ Outputs[Vtx[b][i]] \subseteq OutPoint /\ Inputs[Vtx[b][i]] \subseteq OutPoint
        /\ Inputs[Vtx[b][i]] \cap Outputs[Vtx[b][i]] = {}
    BY <2>2, TransactionAssumption
  <2>4. ASSUME NEW o \in Outputs[Vtx[b][i]] PROVE CoinsAfter(p, b, i)[o] = Height[b]
    <3>1. Created(b, i, o)
      BY DEF Created
    <3> QED
      BY <3>1, <2>3, CoinsAfterIs
  <2>5. ASSUME NEW o \in Inputs[Vtx[b][i]] PROVE CoinsAfter(p, b, i)[o] = NoCoin
    <3>1. Touches(b, i, o) /\ o \notin Outputs[Vtx[b][i]]
      BY <2>3 DEF Touches
    <3>2. Touched(b, 0, i, o)
      BY <3>1 DEF Touched
    <3>3. ~Created(b, i, o)
      BY <3>1 DEF Created
    <3> QED
      BY <3>2, <3>3, <2>3, CoinsAfterIs
  <2> QED
    BY <2>1, <2>4, <2>5
<1> QED
  BY <1>0, <1>3, <1>4 DEF DisconnectIsClean

\* Block b creates or spends o.
TouchedIn(b, o) == Touched(b, 0, Len(Vtx[b]), o)

\* What ConnectBlock leaves at an output depends on the coin there only if the
\* block does not touch it, and then it is that coin.
LEMMA ConnectLocal ==
    ASSUME NEW b \in Block, NEW c, NEW d, NEW o \in OutPoint
    PROVE  /\ c[o] = d[o] \/ TouchedIn(b, o) => ConnectCoins(c, b)[o] = ConnectCoins(d, b)[o]
           /\ ~TouchedIn(b, o) => ConnectCoins(c, b)[o] = c[o]
PROOF
<1>1. Len(Vtx[b]) \in Nat
  BY TransactionAssumption
<1>2. Created(b, Len(Vtx[b]), o) => TouchedIn(b, o)
  BY DEF Created, TouchedIn, Touched, Touches
<1> QED
  BY <1>1, <1>2, CoinsAfterIs DEF ConnectCoins, TouchedIn

\* The same of DisconnectBlock, whatever coins it is applied to: this is why
\* ReplayBlocks may accept an unclean disconnect.
LEMMA DisconnectLocal ==
    ASSUME NEW b \in Block, NEW o \in OutPoint
    PROVE  \A c, d : c[o] = d[o] \/ TouchedIn(b, o) =>
                        DisconnectCoins(c, b)[o] = DisconnectCoins(d, b)[o]
PROOF
<1>1. TouchedIn(b, o) <=> \E i \in (0 + 1)..Len(Vtx[b]) : Touches(b, i, o)
  BY DEF TouchedIn, Touched
<1> QED
  BY <1>1 DEF DisconnectCoins, CoinsUndone

\* What holds of f, and of a block above f whenever it holds of its parent, holds
\* of every block whose chain contains f.
LEMMA AboveInduction ==
    ASSUME NEW f \in Block, NEW S \in SUBSET Block, f \in S,
           \A x \in Block \ {Genesis} :
                x \notin Path[f] /\ f \in Path[x] /\ f \in Path[Prev[x]] /\ Prev[x] \in S => x \in S
    PROVE  \A x \in Block : f \in Path[x] => x \in S
PROOF
<1> USE TreeAssumption
<1> DEFINE T == {x \in Block : f \in Path[x] => x \in S}
<1>1. Genesis \in T
  BY PathDef
<1>2. ASSUME NEW x \in Block \ {Genesis}, Prev[x] \in T PROVE x \in T
  <2>1. SUFFICES ASSUME f \in Path[x], f # x PROVE x \in S
    OBVIOUS
  <2>2. f \in Path[Prev[x]]
    BY <2>1, PathDef
  <2>3. x \notin Path[f]
    BY <2>1, PathAntisymmetric
  <2> QED
    BY <1>2, <2>1, <2>2, <2>3
<1>3. T \in SUBSET Block
  OBVIOUS
<1> HIDE DEF T
<1>4. T = Block
  BY <1>1, <1>2, <1>3, Rooted
<1> QED
  BY <1>4 DEF T

\* ReplayBlocks rolls the coins of a chain back to those of its fork point.
LEMMA BackIsExact ==
    ASSUME NEW f \in Block, NEW x \in Block, f \in Path[x]
    PROVE  RolledBack(f)[x][Utxo[x]] = Utxo[f]
PROOF
<1> USE TreeAssumption, UtxoDef
<1> DEFINE S == {y \in Block : RolledBack(f)[y][Utxo[y]] = Utxo[f]}
<1>1. f \in S
  BY RolledBackDef, PathEnds
<1>2. ASSUME NEW y \in Block \ {Genesis}, y \notin Path[f], Prev[y] \in S PROVE y \in S
  <2>1. DisconnectCoins(Utxo[y], y) = Utxo[Prev[y]]
    BY UndoIsExact
  <2>2. RolledBack(f)[y][Utxo[y]] = RolledBack(f)[Prev[y]][DisconnectCoins(Utxo[y], y)]
    BY <1>2, RolledBackDef
  <2> QED
    BY <1>2, <2>1, <2>2
<1>3. S \in SUBSET Block
  OBVIOUS
<1> HIDE DEF S
<1>4. x \in S
  BY <1>1, <1>2, <1>3, AboveInduction
<1> QED
  BY <1>4 DEF S

\* ReplayBlocks rolls the coins of a fork point forward to those of a chain.
LEMMA ForwardIsExact ==
    ASSUME NEW f \in Block, NEW x \in Block, f \in Path[x]
    PROVE  RolledForward(f, Utxo[f])[x] = Utxo[x]
PROOF
<1> USE TreeAssumption, UtxoDef
<1> DEFINE S == {y \in Block : RolledForward(f, Utxo[f])[y] = Utxo[y]}
<1>1. f \in S
  BY RolledForwardDef, PathEnds
<1>2. ASSUME NEW y \in Block \ {Genesis}, y \notin Path[f], Prev[y] \in S PROVE y \in S
  <2>1. RolledForward(f, Utxo[f])[y] = ConnectCoins(RolledForward(f, Utxo[f])[Prev[y]], y)
    BY <1>2, RolledForwardDef
  <2> QED
    BY <1>2, <2>1
<1>3. S \in SUBSET Block
  OBVIOUS
<1> HIDE DEF S
<1>4. x \in S
  BY <1>1, <1>2, <1>3, AboveInduction
<1> QED
  BY <1>4 DEF S

\* A block of the chain to x above f creates or spends o.
TouchedAbove(f, x, o) == \E b \in Path[x] \ Path[f] : TouchedIn(b, o)

\* The blocks above f on the chain to x are x and those on the chain to its parent.
LEMMA AboveStep ==
    ASSUME NEW f \in Block, NEW x \in Block \ {Genesis}, NEW o, x \notin Path[f]
    PROVE  TouchedAbove(f, x, o) <=> TouchedIn(x, o) \/ TouchedAbove(f, Prev[x], o)
PROOF
  BY TreeAssumption, PathDef DEF TouchedAbove

\* No block is above f on the chain to f.
LEMMA NothingAbove ==
    ASSUME NEW f \in Block, NEW o
    PROVE  ~TouchedAbove(f, f, o)
PROOF
  BY DEF TouchedAbove

\* Rolling back leaves at an output something that depends on the coin there only
\* if no block rolled back touches it.
LEMMA BackIsLocal ==
    ASSUME NEW f \in Block, NEW x \in Block, f \in Path[x], NEW o \in OutPoint,
           NEW c \in Coins, NEW d \in Coins, c[o] = d[o] \/ TouchedAbove(f, x, o)
    PROVE  RolledBack(f)[x][c][o] = RolledBack(f)[x][d][o]
PROOF
<1> USE TreeAssumption
<1> DEFINE S == {y \in Block : \A u, v \in Coins : u[o] = v[o] \/ TouchedAbove(f, y, o) =>
                                  RolledBack(f)[y][u][o] = RolledBack(f)[y][v][o]}
<1>1. f \in S
  BY RolledBackDef, PathEnds, NothingAbove
<1>2. ASSUME NEW y \in Block \ {Genesis}, y \notin Path[f], Prev[y] \in S PROVE y \in S
  <2>1. SUFFICES ASSUME NEW u \in Coins, NEW v \in Coins, u[o] = v[o] \/ TouchedAbove(f, y, o)
                 PROVE  RolledBack(f)[y][u][o] = RolledBack(f)[y][v][o]
    OBVIOUS
  <2>2. /\ RolledBack(f)[y][u] = RolledBack(f)[Prev[y]][DisconnectCoins(u, y)]
        /\ RolledBack(f)[y][v] = RolledBack(f)[Prev[y]][DisconnectCoins(v, y)]
    BY <1>2, RolledBackDef
  <2>3. DisconnectCoins(u, y) \in Coins /\ DisconnectCoins(v, y) \in Coins
    BY CoinsUndoneType DEF DisconnectCoins
  <2>4. DisconnectCoins(u, y)[o] = DisconnectCoins(v, y)[o] \/ TouchedAbove(f, Prev[y], o)
    <3>1. u[o] = v[o] \/ TouchedIn(y, o) \/ TouchedAbove(f, Prev[y], o)
      BY <1>2, <2>1, AboveStep
    <3>2. u[o] = v[o] \/ TouchedIn(y, o) => DisconnectCoins(u, y)[o] = DisconnectCoins(v, y)[o]
      <4>1. y \in Block
        OBVIOUS
      <4>2. \A p, q : p[o] = q[o] \/ TouchedIn(y, o) =>
                            DisconnectCoins(p, y)[o] = DisconnectCoins(q, y)[o]
        BY <4>1, DisconnectLocal, Zenon
      <4> QED
        BY <4>2, Zenon
    <3> QED
      BY <3>1, <3>2
  <2> QED
    BY <1>2, <2>2, <2>3, <2>4
<1>3. S \in SUBSET Block
  OBVIOUS
<1> HIDE DEF S
<1>4. x \in S
  BY <1>1, <1>2, <1>3, AboveInduction
<1> QED
  BY <1>4 DEF S

\* The same of rolling forward.
LEMMA ForwardIsLocal ==
    ASSUME NEW f \in Block, NEW x \in Block, f \in Path[x], NEW o \in OutPoint,
           NEW c \in Coins, NEW d \in Coins, c[o] = d[o] \/ TouchedAbove(f, x, o)
    PROVE  RolledForward(f, c)[x][o] = RolledForward(f, d)[x][o]
PROOF
<1> USE TreeAssumption
<1> DEFINE S == {y \in Block : c[o] = d[o] \/ TouchedAbove(f, y, o) =>
                                  RolledForward(f, c)[y][o] = RolledForward(f, d)[y][o]}
<1>1. f \in S
  BY RolledForwardDef, PathEnds, NothingAbove
<1>2. ASSUME NEW y \in Block \ {Genesis}, y \notin Path[f], Prev[y] \in S PROVE y \in S
  <2>1. SUFFICES ASSUME c[o] = d[o] \/ TouchedAbove(f, y, o)
                 PROVE  RolledForward(f, c)[y][o] = RolledForward(f, d)[y][o]
    OBVIOUS
  <2>2. /\ RolledForward(f, c)[y] = ConnectCoins(RolledForward(f, c)[Prev[y]], y)
        /\ RolledForward(f, d)[y] = ConnectCoins(RolledForward(f, d)[Prev[y]], y)
    BY <1>2, RolledForwardDef
  <2>3. RolledForward(f, c)[Prev[y]][o] = RolledForward(f, d)[Prev[y]][o] \/ TouchedIn(y, o)
    BY <1>2, <2>1, AboveStep, Zenon
  <2> QED
    <3>1. ConnectCoins(RolledForward(f, c)[Prev[y]], y)[o] =
            ConnectCoins(RolledForward(f, d)[Prev[y]], y)[o]
      <4>1. y \in Block
        OBVIOUS
      <4>2. \A p, q : p[o] = q[o] \/ TouchedIn(y, o) =>
                            ConnectCoins(p, y)[o] = ConnectCoins(q, y)[o]
        BY <4>1, ConnectLocal
      <4> QED
        BY <2>3, <4>2, Zenon
    <3> QED
      BY <2>2, <3>1
<1>3. S \in SUBSET Block
  OBVIOUS
<1> HIDE DEF S
<1>4. x \in S
  BY <1>1, <1>2, <1>3, AboveInduction
<1> QED
  BY <1>4 DEF S

\* A coin that no block above f touches is the one of f.
LEMMA UntouchedAbove ==
    ASSUME NEW f \in Block, NEW x \in Block, f \in Path[x], NEW o \in OutPoint,
           ~TouchedAbove(f, x, o)
    PROVE  Utxo[x][o] = Utxo[f][o]
PROOF
<1> USE TreeAssumption
<1> DEFINE S == {y \in Block : ~TouchedAbove(f, y, o) => Utxo[y][o] = Utxo[f][o]}
<1>1. f \in S
  OBVIOUS
<1>2. ASSUME NEW y \in Block \ {Genesis}, y \notin Path[f], Prev[y] \in S PROVE y \in S
  <2>1. Utxo[y] = ConnectCoins(Utxo[Prev[y]], y)
    BY UtxoDef, Zenon
  <2> QED
    BY <1>2, <2>1, AboveStep, ConnectLocal
<1>3. S \in SUBSET Block
  OBVIOUS
<1> HIDE DEF S
<1>4. x \in S
  BY <1>1, <1>2, <1>3, AboveInduction
<1> QED
  BY <1>4 DEF S

\* ReplayBlocks turns any mixture of the coins of two chain ends, which is what an
\* interrupted BatchWrite leaves, into the coins of the new one.
LEMMA ReplayRecovers ==
    ASSUME NEW new \in Block, NEW old \in Block, NEW c \in Coins,
           \A o \in OutPoint : c[o] \in {Utxo[new][o], Utxo[old][o]}
    PROVE  LET f == FindFork(new, old)
           IN  RolledForward(f, RolledBack(f)[old][c])[new] = Utxo[new]
PROOF
<1>1. PICK f \in Block : f = FindFork(new, old) /\ f \in Path[new] /\ f \in Path[old]
  BY ForkIs
<1>2. PICK r \in Coins : r = RolledBack(f)[old][c]
  BY RolledBackDef
<1>3. Utxo[new] \in Coins /\ Utxo[old] \in Coins /\ Utxo[f] \in Coins
  BY UtxoDef
<1>4. RolledForward(f, r)[new] \in Coins
  BY RolledForwardDef
<1>5. ASSUME NEW o \in OutPoint PROVE RolledForward(f, r)[new][o] = Utxo[new][o]
  <2>1. r[o] = Utxo[f][o] \/ TouchedAbove(f, new, o)
    <3>1. SUFFICES ASSUME ~TouchedAbove(f, new, o) PROVE r[o] = Utxo[f][o]
      OBVIOUS
    <3>2. Utxo[new][o] = Utxo[f][o]
      BY <3>1, <1>1, UntouchedAbove
    <3>3. c[o] = Utxo[old][o] \/ TouchedAbove(f, old, o)
      BY <3>2, <1>1, UntouchedAbove
    <3>4. RolledBack(f)[old][c][o] = RolledBack(f)[old][Utxo[old]][o]
      BY <3>3, <1>1, <1>3, BackIsLocal
    <3>5. RolledBack(f)[old][Utxo[old]] = Utxo[f]
      BY <1>1, BackIsExact
    <3> QED
      BY <3>4, <3>5, <1>2
  <2>2. RolledForward(f, r)[new][o] = RolledForward(f, Utxo[f])[new][o]
    BY <2>1, <1>1, <1>3, ForwardIsLocal
  <2>3. RolledForward(f, Utxo[f])[new] = Utxo[new]
    BY <1>1, ForwardIsExact
  <2> QED
    BY <2>2, <2>3
<1>6. RolledForward(f, r)[new] = Utxo[new]
  BY <1>3, <1>4, <1>5 DEF Coins
<1> QED
  BY <1>1, <1>2, <1>6

-----------------------------------------------------------------------------
(* The inductive invariant.                                                *)

\* The chain up to b is in the index idx, with the block data and, above the
\* genesis block, the undo data of every block.
ChainIn(b, idx) ==
    \A a \in Path[b] : a \in DOMAIN idx /\ "data" \in idx[a] /\ (a # Genesis => "undo" \in idx[a])

\* The coins database db: its type, its coins, and the chains it names.
HeadsType == {<<>>} \cup (Block \X (Block \cup {Nil}))
DbRight(db) ==
    /\ db \in [coins : Coins, best : Block \cup {Nil}, heads : HeadsType]
    /\ db.best # Nil => db.heads = <<>>
    /\ db.heads = <<>> => db.coins = IF db.best = Nil THEN NoCoins ELSE Utxo[db.best]
    /\ db.heads # <<>> =>
            \A o \in OutPoint : db.coins[o] \in {Utxo[db.heads[1]][o], Utxo[OldHead(db)][o]}
DbChainsIn(db, idx) ==
    /\ db.heads = <<>> => ChainIn(IF db.best = Nil THEN Genesis ELSE db.best, idx)
    /\ db.heads # <<>> => ChainIn(db.heads[1], idx) /\ ChainIn(OldHead(db), idx)

\* An index; the records it names are all in recs; it has no more than another.
IsIndex(idx) == DOMAIN idx \subseteq Block /\ \A b \in DOMAIN idx : idx[b] \in Entry
Holds(recs, idx) ==
    \A b \in DOMAIN idx, kind \in {"data", "undo"} : kind \in idx[b] => <<kind, b>> \in recs
Below(idx, above) ==
    DOMAIN idx \subseteq DOMAIN above /\ \A b \in DOMAIN idx : idx[b] \subseteq above[b]

\* Types, and that no start failed.
Types ==
    /\ mode \in {"running", "replaying", "down"}
    /\ tip \in Block /\ coins \in Coins
    /\ IsIndex(index) /\ IsIndex(indexDb)
    /\ forced \subseteq written /\ written \subseteq {"data", "undo"} \X Block
    /\ flush \in [step : {"none", "index", "coins", "batch"},
                  target : Block \cup {Nil}, rest : SUBSET OutPoint]
    /\ used \in [flush : Nat, crash : Nat]

\* Every state of the coins database that a crash can bring back is a set of
\* coins or a mixture of two, of chains that the index on disk has.
DbInv == \A db \in DbStates : DbRight(db) /\ DbChainsIn(db, indexDb)

\* The files have what the indexes say, the forced part what the one on disk says.
FilesInv == Holds(written, index) /\ Holds(forced, indexDb)

\* In memory: the coins of the tip, its chain, and no less than on disk.
MemoryInv ==
    mode \in {"running", "replaying"} =>
        coins = Utxo[tip] /\ ChainIn(tip, index) /\ Below(indexDb, index)

\* Progress of FlushStateToDisk and BatchWrite.
FlushInv ==
    /\ mode = "down" => flush.step = "none"
    /\ mode = "replaying" => flush.step = "batch"
    /\ mode = "running" /\ flush.step # "batch" => coinsDb.heads = <<>>
    /\ flush.step = "index" => forced = written
    /\ flush.step \in {"coins", "batch"} => indexDb = index
    /\ flush.step = "batch" =>
            /\ flush.target = tip
            /\ \A o \in OutPoint \ flush.rest : coinsDb.coins[o] = coins[o]
            /\ coinsDb.heads # <<>> => coinsDb.heads[1] = tip

FInv == Types /\ DbInv /\ FilesInv /\ MemoryInv /\ FlushInv

\* A chain in an index stays in every index that has more.
LEMMA ChainInBelow ==
    ASSUME NEW b \in Block, NEW idx, NEW above, ChainIn(b, idx), Below(idx, above)
    PROVE  ChainIn(b, above)
PROOF
  BY DEF ChainIn, Below

\* The fields of a coins database.
LEMMA DbTyped ==
    ASSUME NEW db, DbRight(db)
    PROVE  /\ db.coins \in Coins /\ db.best \in Block \cup {Nil}
           /\ db.heads # <<>> =>
                /\ db.heads[1] \in Block /\ db.heads[2] \in Block \cup {Nil} /\ OldHead(db) \in Block
                /\ db.best = Nil
PROOF
<1>1. db.coins \in Coins /\ db.best \in Block \cup {Nil} /\ db.heads \in HeadsType
  BY DEF DbRight
<1>2. db.heads # <<>> => db.heads[1] \in Block /\ db.heads[2] \in Block \cup {Nil}
  BY <1>1 DEF HeadsType
<1>3. db.heads # <<>> => OldHead(db) \in Block
  BY <1>2, TreeAssumption DEF OldHead
<1> QED
  BY <1>1, <1>2, <1>3 DEF DbRight

\* The chains a coins database names stay in every index that has more.
LEMMA DbChainsBelow ==
    ASSUME NEW db, NEW idx, NEW above, DbRight(db), DbChainsIn(db, idx), Below(idx, above)
    PROVE  DbChainsIn(db, above)
PROOF
<1>1. CASE db.heads = <<>>
  <2>1. (IF db.best = Nil THEN Genesis ELSE db.best) \in Block
    BY DbTyped, TreeAssumption
  <2> QED
    BY <1>1, <2>1, ChainInBelow DEF DbChainsIn
<1>2. CASE db.heads # <<>>
  BY <1>2, DbTyped, ChainInBelow DEF DbChainsIn
<1> QED
  BY <1>1, <1>2

\* ReplayBlocks recovers every interrupted state of the coins database.
LEMMA DbReplays ==
    ASSUME NEW db, DbRight(db), db.heads # <<>>
    PROVE  Replayed(db) = Utxo[db.heads[1]]
PROOF
<1>1. /\ db.heads[1] \in Block /\ OldHead(db) \in Block /\ db.coins \in Coins
      /\ \A o \in OutPoint : db.coins[o] \in {Utxo[db.heads[1]][o], Utxo[OldHead(db)][o]}
  BY DbTyped DEF DbRight
<1> QED
  BY <1>1, ReplayRecovers DEF Replayed, Fork

\* ReplayBlocks finds the blocks and the undo data it reads.
LEMMA DbCanReplay ==
    ASSUME NEW db, DbRight(db), db.heads # <<>>, DbChainsIn(db, indexDb), Holds(written, indexDb)
    PROVE  CanReplay(db)
PROOF
<1>1. /\ db.heads[1] \in Block /\ OldHead(db) \in Block /\ db.heads[2] \in Block \cup {Nil}
      /\ ChainIn(db.heads[1], indexDb) /\ ChainIn(OldHead(db), indexDb)
  BY DbTyped DEF DbChainsIn
<1>2. /\ Fork(db) \in Block /\ Genesis \in Path[Fork(db)]
      /\ db.heads[1] \in Path[db.heads[1]] /\ OldHead(db) \in Path[OldHead(db)]
  BY <1>1, ForkIs, PathEnds DEF Fork
<1>3. db.heads[1] \in DOMAIN indexDb /\ OldHead(db) \in DOMAIN indexDb
  BY <1>1, <1>2 DEF ChainIn
<1>4. db.heads[2] \in DOMAIN indexDb \cup {Nil}
  BY <1>3 DEF OldHead
<1>5. ASSUME NEW b \in RollBack(db) \cup RollForward(db)
      PROVE  b \in DOMAIN indexDb /\ "data" \in indexDb[b] /\ "undo" \in indexDb[b]
  <2>1. b # Genesis /\ (b \in Path[db.heads[1]] \/ b \in Path[OldHead(db)])
    BY <1>2 DEF RollBack, RollForward
  <2> QED
    BY <2>1, <1>1 DEF ChainIn
<1>6. \A b \in RollBack(db) \cup RollForward(db) :
        /\ "data" \in indexDb[b] /\ <<"data", b>> \in written
        /\ "undo" \in indexDb[b] /\ <<"undo", b>> \in written
  BY <1>5, Zenon DEF Holds
<1> QED
  BY <1>3, <1>4, <1>6, Zenon DEF CanReplay

-----------------------------------------------------------------------------
(* The steps.                                                              *)

\* A new data directory satisfies the invariant.
LEMMA FInit == Init => FInv
PROOF
<1> SUFFICES ASSUME Init PROVE FInv
  OBVIOUS
<1> USE DEF Init
<1>1. NoCoins \in Coins /\ Utxo[Genesis] = NoCoins /\ Path[Genesis] = {Genesis} /\ Genesis \in Block
  BY UtxoDef, PathDef, TreeAssumption DEF Coins, NoCoins, NoCoin
<1>2. index = [b \in {Genesis} |-> {"data"}] /\ indexDb = index
  OBVIOUS
<1>3. IsIndex(index) /\ Holds(written, index) /\ Below(index, index) /\ ChainIn(Genesis, index)
  BY <1>1 DEF IsIndex, Holds, Below, ChainIn, Entry
<1>4. Types
  BY <1>1, <1>2, <1>3 DEF Types, NoFlush
<1>5. DbRight(EmptyDb) /\ DbChainsIn(EmptyDb, index)
  BY <1>1, <1>3 DEF DbRight, DbChainsIn, EmptyDb, HeadsType
<1>6. DbInv
  BY <1>2, <1>5 DEF DbInv, DbStates
<1>7. FilesInv /\ MemoryInv
  BY <1>1, <1>2, <1>3 DEF FilesInv, MemoryInv
<1>8. FlushInv
  BY <1>1 DEF FlushInv, NoFlush, EmptyDb
<1> QED
  BY <1>4, <1>6, <1>7, <1>8 DEF FInv

\* AcceptBlock preserves the invariant.
LEMMA SaveStep ==
    ASSUME FInv, NEW b \in Block, SaveBlockToDisk(b) PROVE FInv'
PROOF
<1> USE DEF FInv
<1>0. /\ mode = "running" /\ flush.step = "none" /\ b \notin DOMAIN index
      /\ written' = written \cup {<<"data", b>>}
      /\ index' = [x \in DOMAIN index \cup {b} |-> IF x = b THEN {"data"} ELSE index[x]]
      /\ UNCHANGED <<mode, tip, coins, forced, indexDb, coinsDb, lost, flush, used>>
  BY DEF SaveBlockToDisk, Running
<1>1. Below(index, index')
  BY <1>0 DEF Below
<1>2. IsIndex(index')
  BY <1>0 DEF IsIndex, Types, Entry
<1>3. Holds(written', index')
  BY <1>0, Zenon DEF Holds, FilesInv
<1>4. Types'
  BY <1>0, <1>2 DEF Types
<1>5. DbInv'
  BY <1>0 DEF DbInv, DbStates
<1>6. FilesInv'
  BY <1>0, <1>3 DEF FilesInv
<1>7. MemoryInv'
  <2>1. ChainIn(tip, index') /\ coins = Utxo[tip]
    BY <1>0, <1>1, ChainInBelow DEF MemoryInv, Types
  <2>2. Below(indexDb, index')
    BY <1>0, <1>1 DEF MemoryInv, Below
  <2> QED
    BY <1>0, <2>1, <2>2 DEF MemoryInv
<1>8. FlushInv'
  BY <1>0 DEF FlushInv
<1> QED
  BY <1>4, <1>5, <1>6, <1>7, <1>8

\* ConnectTip preserves the invariant.
LEMMA ConnectStep ==
    ASSUME FInv, NEW b \in Block, ConnectTip(b) PROVE FInv'
PROOF
<1> USE DEF FInv
<1>0. /\ mode = "running" /\ flush.step = "none" /\ b \in DOMAIN index /\ b # Genesis /\ Prev[b] = tip
      /\ "data" \in index[b] /\ <<"data", b>> \in written
      /\ coins' = ConnectCoins(coins, b) /\ tip' = b
      /\ written' = IF "undo" \in index[b] THEN written ELSE written \cup {<<"undo", b>>}
      /\ index' = [index EXCEPT ![b] = @ \cup {"undo"}]
      /\ UNCHANGED <<mode, forced, indexDb, coinsDb, lost, flush, used>>
  BY DEF ConnectTip, Running, ReadBlockFromDisk
<1>1. /\ DOMAIN index' = DOMAIN index
      /\ \A x \in DOMAIN index : index'[x] = IF x = b THEN index[b] \cup {"undo"} ELSE index[x]
  BY <1>0
<1>2. Below(index, index')
  BY <1>1 DEF Below
<1>3. IsIndex(index')
  BY <1>0, <1>1 DEF IsIndex, Types, Entry
<1>4. Holds(written', index')
  BY <1>0, <1>1, Zenon DEF Holds, FilesInv
<1>5. coins' = Utxo[b] /\ Utxo[b] \in Coins
  BY <1>0, UtxoDef DEF MemoryInv
<1>6. Types'
  BY <1>0, <1>3, <1>5 DEF Types
<1>7. DbInv'
  BY <1>0 DEF DbInv, DbStates
<1>8. FilesInv'
  BY <1>0, <1>4 DEF FilesInv
<1>9. MemoryInv'
  <2>1. ChainIn(tip, index')
    BY <1>0, <1>2, ChainInBelow DEF MemoryInv, Types
  <2>2. Path[b] = {b} \cup Path[tip]
    BY <1>0, PathDef
  <2>3. ChainIn(b, index')
    BY <1>0, <1>1, <2>1, <2>2 DEF ChainIn
  <2>4. Below(indexDb, index')
    BY <1>0, <1>2 DEF MemoryInv, Below
  <2> QED
    BY <1>0, <1>5, <2>3, <2>4 DEF MemoryInv
<1>10. FlushInv'
  BY <1>0 DEF FlushInv
<1> QED
  BY <1>6, <1>7, <1>8, <1>9, <1>10

\* DisconnectTip preserves the invariant.
LEMMA DisconnectStep ==
    ASSUME FInv, DisconnectTip PROVE FInv'
PROOF
<1> USE DEF FInv
<1>0. /\ mode = "running" /\ flush.step = "none" /\ tip # Genesis
      /\ coins' = DisconnectCoins(coins, tip) /\ tip' = Prev[tip]
      /\ UNCHANGED <<mode, index, written, forced, indexDb, coinsDb, lost, flush, used>>
  BY DEF DisconnectTip, Running
<1>1. /\ tip \in Block \ {Genesis} /\ coins = Utxo[tip] /\ ChainIn(tip, index) /\ Below(indexDb, index)
      /\ Prev[tip] \in Block
  BY <1>0, TreeAssumption DEF Types, MemoryInv
<1>2. coins' = Utxo[Prev[tip]] /\ Utxo[Prev[tip]] \in Coins
  BY <1>0, <1>1, UndoIsExact, UtxoDef
<1>3. ChainIn(Prev[tip], index)
  BY <1>1, PathDef DEF ChainIn
<1>4. Types'
  BY <1>0, <1>1, <1>2 DEF Types
<1>5. DbInv' /\ FilesInv'
  BY <1>0 DEF DbInv, DbStates, FilesInv
<1>6. MemoryInv'
  BY <1>0, <1>1, <1>2, <1>3 DEF MemoryInv
<1>7. FlushInv'
  BY <1>0 DEF FlushInv
<1> QED
  BY <1>4, <1>5, <1>6, <1>7

\* FlushBlockFile preserves the invariant.
LEMMA FlushFileStep ==
    ASSUME FInv, FlushBlockFile PROVE FInv'
PROOF
<1> USE DEF FInv
<1>0. /\ mode = "running" /\ flush.step = "none" /\ forced' = written
      /\ flush' = [flush EXCEPT !.step = "index"] /\ used' = [used EXCEPT !.flush = @ + 1]
      /\ UNCHANGED <<mode, tip, coins, index, written, indexDb, coinsDb, lost>>
  BY DEF FlushBlockFile, Running
<1>1. flush'.step = "index"
  BY <1>0 DEF Types
<1>2. Types'
  BY <1>0 DEF Types
<1>3. DbInv' /\ MemoryInv'
  BY <1>0 DEF DbInv, DbStates, MemoryInv
<1>4. FilesInv'
  BY <1>0 DEF FilesInv, Holds, Types
<1>5. FlushInv'
  BY <1>0, <1>1 DEF FlushInv
<1> QED
  BY <1>2, <1>3, <1>4, <1>5

\* WriteBlockIndexDB preserves the invariant: the files were forced before it.
LEMMA WriteIndexStep ==
    ASSUME FInv, WriteBlockIndexDB PROVE FInv'
PROOF
<1> USE DEF FInv
<1>0. /\ mode = "running" /\ flush.step = "index" /\ indexDb' = index
      /\ flush' = [flush EXCEPT !.step = "coins"] \/ flush' = NoFlush
      /\ UNCHANGED <<mode, tip, coins, index, written, forced, coinsDb, lost, used>>
  BY DEF WriteBlockIndexDB
<1>1. flush'.step \in {"coins", "none"}
  BY <1>0 DEF Types, NoFlush
<1>2. Types'
  BY <1>0 DEF Types, NoFlush
<1>3. DbInv'
  <2>1. Below(indexDb, index)
    BY <1>0 DEF MemoryInv
  <2>2. \A db \in DbStates : DbRight(db) /\ DbChainsIn(db, index)
    BY <2>1, DbChainsBelow DEF DbInv
  <2> QED
    BY <1>0, <2>2 DEF DbInv, DbStates
<1>4. FilesInv'
  <2>1. Holds(forced, index)
    BY <1>0 DEF FilesInv, FlushInv
  <2> QED
    BY <1>0, <2>1 DEF FilesInv
<1>5. MemoryInv'
  <2>1. Below(index, index)
    BY DEF Below
  <2> QED
    BY <1>0, <2>1 DEF MemoryInv
<1>6. FlushInv'
  BY <1>0, <1>1 DEF FlushInv
<1> QED
  BY <1>2, <1>3, <1>4, <1>5, <1>6

\* The start of CCoinsViewDB::BatchWrite preserves the invariant.
LEMMA BeginBatchStep ==
    ASSUME FInv, BeginBatchWrite PROVE FInv'
PROOF
<1> USE DEF FInv
<1>0. PICK dirty \in SUBSET OutPoint :
        /\ {o \in OutPoint : coins[o] # coinsDb.coins[o]} \subseteq dirty
        /\ flush' = [step |-> "batch", target |-> tip, rest |-> dirty]
  BY DEF BeginBatchWrite
<1>1. /\ mode = "running" /\ flush.step = "coins"
      /\ UNCHANGED <<mode, tip, coins, index, written, forced, indexDb, coinsDb, lost, used>>
  BY DEF BeginBatchWrite, StartBatch
<1>2. flush'.step = "batch" /\ flush'.target = tip /\ flush'.rest = dirty
  BY <1>0
<1>3. Types'
  BY <1>0, <1>1 DEF Types
<1>4. DbInv' /\ FilesInv' /\ MemoryInv'
  BY <1>1 DEF DbInv, DbStates, FilesInv, MemoryInv
<1>5. FlushInv'
  BY <1>0, <1>1, <1>2 DEF FlushInv
<1> QED
  BY <1>3, <1>4, <1>5

\* A partial batch preserves the invariant: the coins become a mixture of those of
\* the two heads it writes, also when it continues an interrupted flush.
LEMMA PartialStep ==
    ASSUME FInv, NEW part \in SUBSET OutPoint, WritePartialBatch(part) PROVE FInv'
PROOF
<1> USE DEF FInv
<1> DEFINE db == PartialBatch(coinsDb, part)
<1>0. /\ flush.step = "batch" /\ part \subseteq flush.rest
      /\ coinsDb' = db /\ lost' = lost \cup {coinsDb}
      /\ flush' = [flush EXCEPT !.rest = @ \ part]
      /\ UNCHANGED <<mode, tip, coins, index, written, forced, indexDb, used>>
  BY DEF WritePartialBatch, WriteBatch
<1>1. /\ mode \in {"running", "replaying"} /\ indexDb = index /\ flush.target = tip /\ tip \in Block
      /\ coins \in Coins /\ coins = Utxo[tip] /\ ChainIn(tip, indexDb)
      /\ \A o \in OutPoint \ flush.rest : coinsDb.coins[o] = coins[o]
      /\ coinsDb.heads # <<>> => coinsDb.heads[1] = tip
  BY <1>0 DEF FlushInv, Types, MemoryInv
<1>2. flush'.step = "batch" /\ flush'.target = flush.target /\ flush'.rest = flush.rest \ part
  BY <1>0 DEF Types
<1>3. DbRight(coinsDb) /\ DbChainsIn(coinsDb, indexDb)
  BY DEF DbInv, DbStates
<1>4. /\ coinsDb.coins \in Coins /\ coinsDb.best \in Block \cup {Nil}
      /\ OldTip(coinsDb) \in Block \cup {Nil}
  BY <1>3, DbTyped DEF OldTip
<1>5. db.coins = WrittenCoins(coinsDb, part) /\ db.best = Nil /\ db.heads = <<tip, OldTip(coinsDb)>>
  BY <1>1 DEF PartialBatch
<1>6. WrittenCoins(coinsDb, part) \in Coins
  BY <1>1, <1>4 DEF WrittenCoins, Coins
<1>7. db \in [coins : Coins, best : Block \cup {Nil}, heads : HeadsType]
  BY <1>1, <1>4, <1>6 DEF PartialBatch, HeadsType
<1>8. db.heads # <<>> /\ db.heads[1] = tip /\ db.heads[2] = OldTip(coinsDb)
  BY <1>5
<1> DEFINE old == IF OldTip(coinsDb) = Nil THEN Genesis ELSE OldTip(coinsDb)
<1>9. OldHead(db) = old
  BY <1>8 DEF OldHead
<1>10. /\ \A o \in OutPoint : coinsDb.coins[o] \in {Utxo[tip][o], Utxo[old][o]}
       /\ ChainIn(old, indexDb)
  <2>1. CASE coinsDb.heads = <<>>
    <3>1. OldTip(coinsDb) = coinsDb.best
      BY <2>1 DEF OldTip
    <3>2. coinsDb.coins = Utxo[old]
      BY <2>1, <3>1, <1>3, UtxoDef DEF DbRight
    <3>3. ChainIn(old, indexDb)
      BY <2>1, <3>1, <1>3 DEF DbChainsIn
    <3> QED
      BY <3>2, <3>3
  <2>2. CASE coinsDb.heads # <<>>
    <3>1. OldTip(coinsDb) = coinsDb.heads[2]
      BY <2>2, <1>3, DbTyped DEF OldTip
    <3>2. old = OldHead(coinsDb)
      BY <3>1 DEF OldHead
    <3> QED
      BY <2>2, <3>2, <1>1, <1>3 DEF DbRight, DbChainsIn
  <2> QED
    BY <2>1, <2>2
<1>11. \A o \in OutPoint : db.coins[o] \in {Utxo[tip][o], Utxo[old][o]}
  BY <1>1, <1>5, <1>10 DEF WrittenCoins
<1>12. DbRight(db) /\ DbChainsIn(db, indexDb)
  <2> HIDE DEF db, old
  <2>1. DbRight(db)
    BY <1>5, <1>7, <1>8, <1>9, <1>11 DEF DbRight
  <2>2. DbChainsIn(db, indexDb)
    BY <1>1, <1>8, <1>9, <1>10 DEF DbChainsIn
  <2> QED
    BY <2>1, <2>2
<1>13. \A o \in OutPoint \ (flush.rest \ part) : db.coins[o] = coins[o]
  BY <1>1, <1>5 DEF WrittenCoins
<1> HIDE DEF db, old
<1>14. Types'
  BY <1>0 DEF Types
<1>15. DbInv'
  BY <1>0, <1>12 DEF DbInv, DbStates
<1>16. FilesInv' /\ MemoryInv'
  BY <1>0 DEF FilesInv, MemoryInv
<1>17. FlushInv'
  BY <1>0, <1>1, <1>2, <1>8, <1>13 DEF FlushInv
<1> QED
  BY <1>14, <1>15, <1>16, <1>17

\* The last batch preserves the invariant: the coins become those of the target.
LEMMA FinalStep ==
    ASSUME FInv, WriteFinalBatch PROVE FInv'
PROOF
<1> USE DEF FInv
<1> DEFINE db == FinalBatch(coinsDb)
<1>0. /\ flush.step = "batch" /\ coinsDb' = db /\ lost' = lost \cup {coinsDb}
      /\ flush' = NoFlush /\ mode' = "running"
      /\ UNCHANGED <<tip, coins, index, written, forced, indexDb, used>>
  BY DEF WriteFinalBatch, WriteBatch
<1>1. /\ mode \in {"running", "replaying"} /\ indexDb = index /\ flush.target = tip /\ tip \in Block
      /\ coins \in Coins /\ coins = Utxo[tip] /\ ChainIn(tip, indexDb)
      /\ \A o \in OutPoint \ flush.rest : coinsDb.coins[o] = coins[o]
  BY <1>0 DEF FlushInv, Types, MemoryInv
<1>2. flush'.step = "none"
  BY <1>0 DEF NoFlush
<1>3. WrittenCoins(coinsDb, flush.rest) = coins
  BY <1>1 DEF WrittenCoins, Coins
<1>4. db = [coins |-> coins, best |-> tip, heads |-> <<>>]
  BY <1>1, <1>3 DEF FinalBatch
<1>5. db.coins = coins /\ db.best = tip /\ db.heads = <<>> /\ tip # Nil
  BY <1>1, <1>4, NilAssumption
<1>6. DbRight(db)
  BY <1>1, <1>4, <1>5 DEF DbRight, HeadsType
<1>7. DbChainsIn(db, indexDb)
  <2> HIDE DEF db
  <2> QED
    BY <1>1, <1>5 DEF DbChainsIn
<1> HIDE DEF db
<1>8. Types'
  BY <1>0, Zenon DEF Types, NoFlush
<1>9. DbInv'
  BY <1>0, <1>6, <1>7 DEF DbInv, DbStates
<1>10. FilesInv' /\ MemoryInv'
  BY <1>0, <1>1 DEF FilesInv, MemoryInv
<1>11. FlushInv'
  BY <1>0, <1>2, <1>5 DEF FlushInv
<1> QED
  BY <1>8, <1>9, <1>10, <1>11

\* A crash preserves the invariant, whatever it loses.
LEMMA CrashStep ==
    ASSUME FInv, Crash PROVE FInv'
PROOF
<1> USE DEF FInv
<1>0. PICK kept \in SUBSET ((written \ forced) \cap Indexed) : written' = (forced \cap Indexed) \cup kept
  BY Zenon DEF Crash
<1>1. /\ mode' = "down" /\ forced' = written'
      /\ coinsDb' \in lost \cup {coinsDb} /\ lost' = {} /\ flush' = NoFlush
      /\ tip' = Genesis /\ coins' = NoCoins /\ index' = << >>
      /\ used' = [used EXCEPT !.crash = @ + 1] /\ UNCHANGED indexDb
  BY DEF Crash
<1>2. flush'.step = "none"
  BY <1>1 DEF NoFlush
<1>3. Genesis \in Block /\ NoCoins \in Coins
  BY TreeAssumption DEF Coins, NoCoins, NoCoin
<1>4. IsIndex(<< >>) /\ Holds(written', << >>)
  BY DEF IsIndex, Holds
<1>5. Holds(written', indexDb)
  BY <1>0, Zenon DEF FilesInv, Holds, Indexed
<1>6. written' \subseteq {"data", "undo"} \X Block
  BY <1>0 DEF Types
<1>7. Types'
  BY <1>1, <1>3, <1>4, <1>6 DEF Types, NoFlush
<1>8. DbInv'
  BY <1>1 DEF DbInv, DbStates
<1>9. FilesInv'
  BY <1>1, <1>4, <1>5 DEF FilesInv
<1>10. MemoryInv'
  BY <1>1 DEF MemoryInv
<1>11. FlushInv'
  BY <1>1, <1>2 DEF FlushInv
<1> QED
  BY <1>7, <1>8, <1>9, <1>10, <1>11

\* LoadChainstate preserves the invariant: the start does not fail, and the coins
\* it ends with are those of the tip.
LEMMA StartStep ==
    ASSUME FInv, Start PROVE FInv'
PROOF
<1> USE DEF FInv
<1>0. /\ mode = "down" /\ index' = indexDb /\ flush.step = "none"
      /\ UNCHANGED <<written, forced, indexDb, coinsDb, lost, used>>
  BY DEF Start, FlushInv
<1>1. DbRight(coinsDb) /\ DbChainsIn(coinsDb, indexDb)
  BY DEF DbInv, DbStates
<1>2. Holds(written, indexDb)
  BY Zenon DEF FilesInv, Holds, Types
<1>3. Below(indexDb, indexDb)
  BY DEF Below
<1>4. DbInv' /\ FilesInv'
  BY <1>0, <1>2 DEF DbInv, DbStates, FilesInv
<1>5. CASE coinsDb.heads # <<>>
  <2>1. CanReplay(coinsDb) /\ Replayed(coinsDb) = Utxo[coinsDb.heads[1]] /\ coinsDb.heads[1] \in Block
    BY <1>1, <1>2, <1>5, DbCanReplay, DbReplays, DbTyped
  <2>2. mode' = "replaying" /\ coins' = Utxo[coinsDb.heads[1]] /\ tip' = coinsDb.heads[1]
    BY <1>5, <2>1, Zenon DEF Start
  <2>3. PICK dirty \in SUBSET OutPoint :
            /\ {o \in OutPoint : coins'[o] # coinsDb.coins[o]} \subseteq dirty
            /\ flush' = [step |-> "batch", target |-> coinsDb.heads[1], rest |-> dirty]
    BY <1>5, <2>1 DEF Start
  <2>4. flush'.step = "batch" /\ flush'.target = coinsDb.heads[1] /\ flush'.rest = dirty
    BY <2>3
  <2>5. ChainIn(coinsDb.heads[1], indexDb)
    BY <1>1, <1>5 DEF DbChainsIn
  <2>6. Types'
    BY <1>0, <2>1, <2>2, <2>3, UtxoDef DEF Types
  <2>7. MemoryInv'
    BY <1>0, <1>3, <2>2, <2>5 DEF MemoryInv
  <2>8. FlushInv'
    BY <1>0, <2>2, <2>3, <2>4 DEF FlushInv
  <2> QED
    BY <1>4, <2>6, <2>7, <2>8
<1>6. CASE coinsDb.heads = <<>>
  <2> DEFINE best == IF coinsDb.best = Nil THEN Genesis ELSE coinsDb.best
  <2>1. ChainIn(best, indexDb) /\ best \in Block
    BY <1>1, <1>6, DbTyped, TreeAssumption DEF DbChainsIn
  <2>2. best \in DOMAIN indexDb
    BY <2>1, PathEnds DEF ChainIn
  <2>3. mode' = "running" /\ coins' = coinsDb.coins /\ tip' = best /\ flush' = flush
    BY <1>6, <2>2 DEF Start
  <2>4. coinsDb.coins = Utxo[best] /\ coinsDb.coins \in Coins
    BY <1>1, <1>6, UtxoDef, DbTyped DEF DbRight
  <2> HIDE DEF best
  <2>5. Types'
    BY <1>0, <2>1, <2>3, <2>4 DEF Types
  <2>6. MemoryInv'
    BY <1>0, <1>3, <2>1, <2>3, <2>4 DEF MemoryInv
  <2>7. FlushInv'
    BY <1>0, <1>6, <2>3 DEF FlushInv
  <2> QED
    BY <1>4, <2>5, <2>6, <2>7
<1> QED
  BY <1>5, <1>6

\* A step that changes nothing preserves the invariant.
LEMMA StutterStep ==
    ASSUME FInv, UNCHANGED vars PROVE FInv'
PROOF
<1> USE DEF FInv, vars
<1>1. Types' /\ FilesInv'
  BY DEF Types, FilesInv
<1>2. DbInv' /\ MemoryInv'
  BY DEF DbInv, DbStates, MemoryInv
<1>3. FlushInv'
  BY DEF FlushInv
<1> QED
  BY <1>1, <1>2, <1>3

\* The invariant holds of every behaviour.
THEOREM Inductive == Spec => []FInv
PROOF
<1>1. ASSUME FInv, [Next]_vars PROVE FInv'
  <2>1. ASSUME NEW b \in Block, SaveBlockToDisk(b) \/ ConnectTip(b) PROVE FInv'
    BY <1>1, <2>1, SaveStep, ConnectStep
  <2>2. CASE DisconnectTip
    BY <1>1, <2>2, DisconnectStep
  <2>3. CASE FlushBlockFile
    BY <1>1, <2>3, FlushFileStep
  <2>4. CASE FlushNext
    BY <1>1, <2>4, WriteIndexStep, BeginBatchStep, PartialStep, FinalStep DEF FlushNext
  <2>5. CASE Crash
    BY <1>1, <2>5, CrashStep
  <2>6. CASE Start
    BY <1>1, <2>6, StartStep
  <2>7. CASE UNCHANGED vars
    BY <1>1, <2>7, StutterStep
  <2> QED
    BY <1>1, <2>1, <2>2, <2>3, <2>4, <2>5, <2>6, <2>7 DEF Next
<1> QED
  BY <1>1, FInit, PTL DEF Spec

\* For every tree of valid blocks, and however flushes, crashes, replays and
\* reorganisations alternate: while the node runs, the coins it validates with are
\* those of its tip (ConnectTip, DisconnectTip, ReplayBlocks, LoadChainTip).
THEOREM CoinsMatchTipHolds == Spec => []CoinsMatchTip
PROOF
<1>1. FInv => CoinsMatchTip
  BY DEF FInv, MemoryInv, CoinsMatchTip
<1> QED
  BY <1>1, Inductive, PTL

\* A start never fails, every state of the coins database that a crash can bring
\* back leads to the coins of the block it names, and the flush after a replay is
\* for the block of the interrupted one (ReplayBlocks, BatchWrite).
THEOREM RecoverySucceedsHolds == Spec => []RecoverySucceeds
PROOF
<1>1. ASSUME FInv PROVE RecoverySucceeds
  <2> USE <1>1 DEF FInv
  <2>1. StartNeverFails
    BY DEF Types, StartNeverFails
  <2>2. \A db \in DbStates : DbRight(db)
    BY DEF DbInv
  <2>3. TypeOK
    <3>1. \A db \in DbStates : db.best # Nil => db.heads = <<>>
      BY <2>2 DEF DbRight
    <3> QED
      BY <3>1 DEF TypeOK, Types, IsIndex, Coins
  <2>4. EveryDbStateRecovers
    BY <2>2, DbReplays DEF EveryDbStateRecovers, DbRight
  <2>5. InterruptedFlushIsFinished
    BY DEF FlushInv, InterruptedFlushIsFinished
  <2> QED
    BY <2>1, <2>3, <2>4, <2>5 DEF RecoverySucceeds
<1> QED
  BY <1>1, Inductive, PTL

\* The index never names a record that the files lack, and every block of the
\* active chain can be disconnected cleanly, before and after any crash
\* (FlushStateToDisk, DisconnectTip).
THEOREM FilesSufficeHolds == Spec => []FilesSuffice
PROOF
<1>1. ASSUME FInv PROVE FilesSuffice
  <2> USE <1>1 DEF FInv
  <2>1. FilesHoldWhatIndexSays
    BY DEF FilesInv, Holds, FilesHoldWhatIndexSays
  <2>2. TipCanBeDisconnected
    <3>1. SUFFICES ASSUME mode = "running", NEW b \in Path[tip] \ {Genesis}
                   PROVE  ReadBlockFromDisk(b) /\ UndoReadFromDisk(b) /\ DisconnectIsClean(Utxo[b], b)
      BY DEF TipCanBeDisconnected, Running
    <3>2. b \in DOMAIN index /\ "data" \in index[b] /\ "undo" \in index[b]
      BY <3>1 DEF MemoryInv, ChainIn
    <3>3. <<"data", b>> \in written /\ <<"undo", b>> \in written
      BY <3>2 DEF FilesInv, Holds
    <3>4. b \in Block \ {Genesis}
      BY <3>1, PathEnds DEF Types
    <3> QED
      BY <3>2, <3>3, <3>4, UndoIsExact DEF ReadBlockFromDisk, UndoReadFromDisk
  <2> QED
    BY <2>1, <2>2 DEF FilesSuffice
<1> QED
  BY <1>1, Inductive, PTL

=============================================================================
