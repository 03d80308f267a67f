----------------------------- MODULE MC_Restarts -----------------------------
(* What the node keeps on disk beside the chain: the addresses it knows, the *)
(* bans, and an index.  They share no state: one of them is explored, the    *)
(* others stay where they began.                                             *)
EXTENDS AddrMan, BanMan, IndexSync

\* Under m1 sources lead to buckets of their own and all addresses meet in one
\* tried slot; under m2 a1 and the others are apart.
MCGetNewBucket ==
    ("m1" :> [x \in Addr \X Source |-> IF x[2] = "s1" THEN 0 ELSE 1])
    @@ ("m2" :> [x \in Addr \X Source |-> IF x[1] = "a1" THEN 1 ELSE 0])
MCGetBucketPosition ==
    [x \in Addr \X NewBucket |-> IF x = <<"a3", 1>> THEN 1 ELSE 0]
MCGetTriedSlot ==
    ("m1" :> [a \in Addr |-> <<0, 0>>])
    @@ ("m2" :> [a \in Addr |-> <<IF a = "a3" THEN 1 ELSE 0, 0>>])

\* A chain that moves between a branch of two blocks and one of one.
IndexPrev == (1 :> 0) @@ (2 :> 1) @@ (3 :> 0)
IndexProof == [b \in Block |-> 1]

VARIABLE part
mcVars == <<am, banVars, indexVars, part>>

\* The index is switched on with no chain, or with the longer branch active.
MCInit ==
    /\ AddrInit /\ BanInit /\ IndexInit
    /\ part \in {"addresses", "bans", "index"}
    /\ part # "addresses" => am = EmptyAddrMan("m1")
    /\ part # "bans" => banPc["scheduler"] = "idle"
    /\ activeTip \in IF part = "index" THEN {Nil, 2} ELSE {Nil}

MCNext ==
    /\ UNCHANGED part
    /\ \/ part = "addresses" /\ AddrNext /\ UNCHANGED <<banVars, indexVars>>
       \/ part = "bans" /\ BanNext /\ UNCHANGED <<am, indexVars>>
       \/ part = "index" /\ IndexNext /\ UNCHANGED <<am, banVars>>

\* The sync thread and the thread of the validation queue are scheduled.
InIndex == part = "index" /\ UNCHANGED <<am, banVars, part>>
MCSpec ==
    /\ MCInit /\ [][MCNext]_mcVars
    /\ WF_mcVars(InIndex /\ SyncThread) /\ WF_mcVars(InIndex /\ Callbacks)

\* Once the chain rests, ThreadSync and the callbacks bring the index to its
\* tip, unless it has stopped for good; the number of moves is bounded, so this
\* is for ever.
IndexCatchesUp == []<>CaughtUp
=============================================================================
