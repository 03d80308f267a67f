---------------------------- MODULE MC_ChainFlush ----------------------------
(* 0 - 1 - 2     c1 in 1; x and its child y in 2                            *)
(*   \ 3         c1 and its child x in 3: the same transactions on another  *)
(*               branch, x at another height                               *)
EXTENDS ChainFlush, SequencesExt

ForkPrev == (1 :> 0) @@ (2 :> 1) @@ (3 :> 0)
UnitProof == [b \in Block |-> 1]

\* c1 is a coinbase; x spends it and y burns an output of x.
MCInputs == [c1 |-> {}, x |-> {"c1:0"}, y |-> {"x:0"}]
MCOutputs == [c1 |-> {"c1:0"}, x |-> {"x:0", "x:1"}, y |-> {}]
ForkVtx == (0 :> <<>>) @@ (1 :> <<"c1">>) @@ (2 :> <<"x", "y">>) @@ (3 :> <<"c1", "x">>)

\* The loops over the transactions of a block, one by one.
ConnectTx(c, t, h) ==
    [o \in OutPoint |-> IF o \in Outputs[t] THEN h ELSE IF o \in Inputs[t] THEN NoCoin ELSE c[o]]
ConnectLoop(c, b, n) ==
    FoldLeft(LAMBDA d, t : ConnectTx(d, t, Height[b]), c, SubSeq(Vtx[b], 1, n))
DisconnectTx(c, b, i) ==
    [o \in OutPoint |-> IF o \in Inputs[Vtx[b][i]]
                        THEN ConnectLoop(Utxo[Prev[b]], b, i - 1)[o]
                        ELSE IF o \in Outputs[Vtx[b][i]] THEN NoCoin ELSE c[o]]
DisconnectLoop(c, b, n) ==
    FoldRight(LAMBDA i, d : DisconnectTx(d, b, i), [j \in 1 .. Len(Vtx[b]) - n |-> n + j], c)

\* They do what CoinsAfter and CoinsUndone say, from any coins.
ASSUME LoopsAgree ==
    \A b \in Block \ {Genesis} : \A n \in 0..Len(Vtx[b]) : \A c \in [OutPoint -> 0..2] :
        /\ CoinsAfter(c, b, n) = ConnectLoop(c, b, n)
        /\ CoinsUndone(c, b, n) = DisconnectLoop(c, b, n)
=============================================================================
