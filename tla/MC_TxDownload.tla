---------------------------- MODULE MC_TxDownload ----------------------------
(* A parent a, its child b, c that spends from both and e from a and c; bx  *)
(* is b with a bad witness, "A" is a without its witness, d is final from   *)
(* height 2 on.  Blocks are a chain of three.                                *)
(*                                                                           *)
(* Transactions and blocks are fetched independently of each other: what is  *)
(* explored is one of them, while the other stays where it began.            *)
EXTENDS TxDownload, BlockDownload

MCTxidOf == "c" :> "C" @@ "a" :> "A" @@ "A" :> "A" @@ "b" :> "B" @@ "bx" :> "B" @@ "d" :> "D"
    @@ "e" :> "E"
MCPrevouts == "a" :> {<<"R", 1>>} @@ "A" :> {<<"R", 1>>} @@ "b" :> {<<"A", 1>>}
    @@ "bx" :> {<<"A", 1>>} @@ "c" :> {<<"A", 2>>, <<"B", 1>>} @@ "d" :> {<<"R", 2>>}
    @@ "e" :> {<<"A", 3>>, <<"C", 1>>}
MCQuality == "a" :> "good" @@ "A" :> "stripped" @@ "b" :> "good" @@ "bx" :> "bad"
    @@ "c" :> "good" @@ "d" :> "good" @@ "e" :> "good"
MCHashOrder == <<"E", "C", "B", "A", "D">>
MCFinalAt == [t \in DOMAIN MCTxidOf |-> IF t = "d" THEN 2 ELSE 1]

CONSTANTS p1, p2
\* Blocks come and go; time passes; an orphan is followed.
MCScenarios ==
    {[peers |-> {p1}, txs |-> {"a", "A", "b"}, maxOrphans |-> 1,
      maxTime |-> 0, maxTips |-> 3, watched |-> "B"],
     [peers |-> {p1}, txs |-> {"a", "A", "d"}, maxOrphans |-> 1,
      maxTime |-> 0, maxTips |-> 3, watched |-> "A"],
     [peers |-> {p1, p2}, txs |-> {"a", "b", "bx", "c"}, maxOrphans |-> 2,
      maxTime |-> 5, maxTips |-> 0, watched |-> "B"]}
    \cup [peers : {{p1, p2}}, txs : {{"a", "b", "bx", "c", "e"}}, maxOrphans : {3},
          maxTime : {0}, maxTips : {0}, watched : {"C", "E"}]

MCTreePrev == [b \in 1 .. 3 |-> b - 1]
MCTreeProof == [b \in 0 .. 3 |-> 1]

\* "blocks" with all but one of the messages and calls of FetchBlock; "few
\* blocks", of which the liveness of the download is checked, with one message.
VARIABLE part
mcVars == <<vars, downloadVars, part>>
Resting == CHOOSE s \in MCScenarios : s.maxOrphans = 1
MCInit ==
    /\ Init /\ DownloadInit
    /\ \/ part = "transactions" /\ sent = 0 /\ fetches = 0
       \/ part = "blocks" /\ sent + fetches = 1 /\ scenario = Resting
       \/ part = "few blocks" /\ sent = MaxSent - 1 /\ fetches = MaxFetch /\ scenario = Resting
MCNext ==
    /\ UNCHANGED part
    /\ \/ part = "transactions" /\ Next /\ UNCHANGED downloadVars
       \/ part # "transactions" /\ DownloadNext /\ UNCHANGED vars

\* The message handler comes back to every peer: to those with orphans to look
\* at, and to send; honest peers answer, and time passes.
NodeWorks ==
    \/ \E p \in NodeId : SendMessages(p) \/ (FinalizeNode(p) /\ UNCHANGED sent)
    \/ \E p \in HonestNode : Announces(p) \/ Sends(p)
    \/ Time
LooksAtOrphans(p) ==
    /\ part = "transactions" /\ UNCHANGED <<scenario, downloadVars, part>>
    /\ \E known \in BOOLEAN : ProcessWork(p, known)
FetchesBlocks == part = "few blocks" /\ NodeWorks /\ UNCHANGED <<vars, part>>
\* The parts exclude each other: the first conjunct is the fairness of both.
MCSpec ==
    /\ MCInit /\ [][MCNext]_mcVars
    /\ WF_mcVars(LooksAtOrphans(p1) \/ FetchesBlocks)
    /\ WF_mcVars(LooksAtOrphans(p2))

\* The node ends up with the chain of an honest peer, or one with as much work,
\* whatever another peer announces, sends, or never sends: the timeouts of
\* SendMessages free the blocks that it was asked for.
HonestBlocksArrive == []<>(part = "few blocks" => HonestChainDownloaded)
===============================================================================
