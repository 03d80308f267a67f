------------------------------ MODULE MC_Mempool ------------------------------
(* Two families of transactions for the pool, with their settings.           *)
EXTENDS Mempool

\* A diamond a, b, c, d with f on its end and h at its side; e conflicts
\* with a, and h spends a coin that matures at height 2.
ReorgTx == {"a", "b", "c", "d", "e", "f", "h"}
\* A parent p with children q and r, a replacement s of p that pays well, a
\* replacement t of q and an unrelated cheap u.
PolicyTx == {"p", "q", "r", "s", "t", "u"}

MCInputs ==
    "a" :> {<<"g", 1>>} @@ "b" :> {<<"a", 1>>} @@ "c" :> {<<"a", 2>>}
    @@ "d" :> {<<"b", 1>>, <<"c", 1>>} @@ "e" :> {<<"g", 1>>}
    @@ "f" :> {<<"d", 1>>, <<"g", 2>>} @@ "h" :> {<<"b", 2>>, <<"g", 3>>}
    @@ "p" :> {<<"g", 1>>} @@ "q" :> {<<"p", 1>>} @@ "r" :> {<<"p", 2>>, <<"g", 2>>}
    @@ "s" :> {<<"g", 1>>} @@ "t" :> {<<"p", 1>>} @@ "u" :> {<<"g", 3>>}
MCNumOutputs == [t \in ReorgTx \cup PolicyTx |-> 2]
MCGenesis == {<<"g", 1>>, <<"g", 2>>, <<"g", 3>>}
MCFee == "a" :> 1 @@ "b" :> 2 @@ "c" :> 4 @@ "d" :> 8 @@ "e" :> 16 @@ "f" :> 32
    @@ "h" :> 64
    @@ "p" :> 2 @@ "q" :> 1 @@ "r" :> 6 @@ "s" :> 12 @@ "t" :> 4 @@ "u" :> 1
MCSize == [t \in ReorgTx \cup PolicyTx |-> IF t = "b" THEN 2 ELSE 1]
MCFinalAt == [t \in ReorgTx \cup PolicyTx |-> IF t = "h" THEN 2 ELSE 1]

MCScenarios ==
    {[txs |-> ReorgTx, limitAncestors |-> 4, limitDescendants |-> 5, maxSize |-> 6,
      minRelayFee |-> 0, expiry |-> 1, maxDisconnected |-> 3,
      deltas |-> {}, maxDelta |-> 0, maxPrioritised |-> 0,
      maxHeight |-> 3, maxBlockTx |-> 2, maxNewBlocks |-> 2, maxTime |-> 0],
     [txs |-> PolicyTx, limitAncestors |-> 3, limitDescendants |-> 2, maxSize |-> 3,
      minRelayFee |-> 1000, expiry |-> 0, maxDisconnected |-> 2,
      deltas |-> {}, maxDelta |-> 0, maxPrioritised |-> 0,
      maxHeight |-> 1, maxBlockTx |-> 1, maxNewBlocks |-> 1, maxTime |-> 1],
     [txs |-> PolicyTx, limitAncestors |-> 3, limitDescendants |-> 2, maxSize |-> 3,
      minRelayFee |-> 1000, expiry |-> 0, maxDisconnected |-> 2,
      deltas |-> {-3, 3}, maxDelta |-> 3, maxPrioritised |-> 1,
      maxHeight |-> 1, maxBlockTx |-> 1, maxNewBlocks |-> 1, maxTime |-> 0]}
===============================================================================
