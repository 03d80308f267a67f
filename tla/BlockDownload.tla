---------------------------- MODULE BlockDownload ----------------------------
(***************************************************************************)
(* Which blocks the node asks of which peer: the requests in flight of     *)
(* src/src/net_processing.cpp with the window, direct fetch, compact       *)
(* blocks, and the two timeouts that disconnect a peer.                    *)
(*                                                                         *)
(* Headers that arrive have passed the checks of HeadersSync, blocks are   *)
(* valid and match their headers, and every peer has shaken hands and may  *)
(* be synced from.  A peer of HonestNode answers what it was asked before  *)
(* time passes; the others send what they like, or nothing at all.  Times  *)
(* are kept as the age of the moment the code stores.                      *)
(***************************************************************************)
EXTENDS BlockTree, Sequences, SequencesExt

CONSTANTS
    NodeId, HonestNode,
    HonestTip,                       \* the end of the chain honest peers have
    BLOCK_DOWNLOAD_WINDOW, MAX_BLOCKS_IN_TRANSIT_PER_PEER,
    BLOCK_STALLING_TIMEOUT,
    BLOCK_DOWNLOAD_TIMEOUT_BASE, BLOCK_DOWNLOAD_TIMEOUT_PER_PEER,
    MaxFetch,                        \* bound: calls of getblockfrompeer
    MaxSent                          \* bound: messages of peers not in HonestNode

Nobody == "nobody"

VARIABLES
    headers,      \* the blocks whose header is in the index
    stored,       \* those with BLOCK_HAVE_DATA
    activeTip,
    link,         \* link[p]: "up", "closing" (fDisconnect), or "gone"
    owed,         \* owed[p]: what an honest p was asked and has not answered
    download,     \* node: CNodeState of each peer; map: mapBlocksInFlight;
                  \* from: m_peers_downloading_from
    fetches, sent \* how much of the bounds is used up

downloadVars == <<headers, stored, activeTip, link, owed, download, fetches, sent>>

\* list and count are vBlocksInFlight and nBlocksInFlight; best, unknown and
\* lastCommon are pindexBestKnownBlock, hashLastUnknownBlock and
\* pindexLastCommonBlock; stalling is -1 as long as m_stalling_since is 0.
NewNode ==
    [list |-> <<>>, count |-> 0, best |-> Nil, unknown |-> Nil, lastCommon |-> Nil,
     stalling |-> -1, downloading |-> 0]

Full == MAX_BLOCKS_IN_TRANSIT_PER_PEER
IsBlockRequested(d, b) == d.map[b] # Nobody
Ascending(S) == SetToSortSeq(S, LAMBDA x, y : Height[x] < Height[y])
FirstOf(s, n) == IF n <= 0 THEN <<>> ELSE IF Len(s) <= n THEN s ELSE SubSeq(s, 1, n)
-----------------------------------------------------------------------------
\* Keeping track of requests.

RemoveBlockRequestKeepsStall(d, b) ==
    LET p == d.map[b]
        n == d.node[p]
    IN  IF p = Nobody THEN d ELSE
        [d EXCEPT !.map[b] = Nobody, !.from = IF n.count = 1 THEN @ - 1 ELSE @,
                  !.node[p].list = SelectSeq(@, LAMBDA e : e.block # b),
                  !.node[p].count = @ - 1,
                  !.node[p].downloading = IF n.list[1].block = b THEN 0 ELSE @]

RemoveBlockRequest(d, b) ==
    LET p == d.map[b]
        n == d.node[p]
    IN  IF p = Nobody THEN d ELSE
        [d EXCEPT !.map[b] = Nobody, !.from = IF n.count = 1 THEN @ - 1 ELSE @,
                  !.node[p].list = SelectSeq(@, LAMBDA e : e.block # b),
                  !.node[p].count = @ - 1,
                  !.node[p].downloading = IF n.list[1].block = b THEN 0 ELSE @,
                  !.node[p].stalling = -1]

BlockRequested(d, p, b, partial) ==
    LET r == RemoveBlockRequest(d, b)
        n == r.node[p]
    IN  IF d.map[b] = p THEN d ELSE
        [r EXCEPT !.map[b] = p, !.from = IF n.count = 0 THEN @ + 1 ELSE @,
                  !.node[p].list = Append(@, [block |-> b, partial |-> partial]),
                  !.node[p].count = @ + 1,
                  !.node[p].downloading = IF n.count = 0 THEN 0 ELSE @]

RequestAll(d, p, blocks) == FoldLeft(LAMBDA acc, b : BlockRequested(acc, p, b, FALSE), d, blocks)

Entry(d, p, b) == CHOOSE i \in DOMAIN d.node[p].list : d.node[p].list[i].block = b
IsPartial(d, p, b) == d.node[p].list[Entry(d, p, b)].partial

\* An honest peer is going to answer what it is asked.
Asks(p, S) == owed' = IF p \in HonestNode THEN [owed EXCEPT ![p] = @ \cup S] ELSE owed
Answers(p, S) == owed' = IF p \in HonestNode THEN [owed EXCEPT ![p] = @ \ S] ELSE owed
-----------------------------------------------------------------------------
\* What a peer has.

Best(n, b) == IF n.best = Nil \/ Work[b] >= Work[n.best] THEN b ELSE n.best

ProcessBlockAvailability(n, known) ==
    IF n.unknown \in known
    THEN [n EXCEPT !.best = Best(n, n.unknown), !.unknown = Nil] ELSE n

UpdateBlockAvailability(d, p, b, known) ==
    LET n == ProcessBlockAvailability(d.node[p], known)
    IN  [d EXCEPT !.node[p] = IF b \in known THEN [n EXCEPT !.best = Best(n, b)]
                                             ELSE [n EXCEPT !.unknown = b]]

HaveTxsDownloaded(b) == Path[b] \subseteq stored

\* FindNextBlocksToDownload, from the last common block on.  It ends at the
\* last of the wanted blocks or at the first free one beyond the window.
Worthwhile(n) == n.best # Nil /\ Work[n.best] >= Work[activeTip]

LastCommonBlock(n) ==
    LET start == IF n.lastCommon # Nil THEN n.lastCommon
                 ELSE GetAncestor(activeTip, IF Height[n.best] < Height[activeTip]
                                             THEN Height[n.best] ELSE Height[activeTip])
    IN  FindFork(start, n.best)

FindNextBlocksToDownload(d, p, last, count) ==
    LET windowEnd == Height[last] + BLOCK_DOWNLOAD_WINDOW
        ahead == {b \in Path[d.node[p].best] :
                     Height[last] < Height[b] /\ Height[b] <= windowEnd + 1}
        lacking == ahead \ (stored \cup Path[activeTip])
        free == {b \in lacking : ~IsBlockRequested(d, b)}
        wanted == FirstOf(Ascending({b \in free : Height[b] <= windowEnd}), count)
        beyond == {b \in free : Height[b] > windowEnd}
        end == IF Len(wanted) = count THEN Height[Last(wanted)] ELSE windowEnd + 2
        passed == {b \in ahead \ lacking : Height[b] < end /\ HaveTxsDownloaded(b)}
        waiting == {b \in lacking : IsBlockRequested(d, b)}
        owner == IF waiting = {} THEN Nobody ELSE d.map[Ascending(waiting)[1]]
    IN  [blocks |-> wanted,
         lastCommon |-> IF passed = {} THEN last ELSE Highest(passed),
         staller |-> IF wanted = <<>> /\ beyond # {} /\ owner # p THEN owner ELSE Nobody]
-----------------------------------------------------------------------------
\* SendMessages: a peer that stalls or is too slow is disconnected, one with
\* room is asked for more.

NeverTooSlow(d, p) == FALSE

TooSlow(d, p) ==
    /\ d.node[p].list # <<>>
    /\ d.node[p].downloading >
          BLOCK_DOWNLOAD_TIMEOUT_BASE + BLOCK_DOWNLOAD_TIMEOUT_PER_PEER * (d.from - 1)

Stalls(d, p) == d.node[p].stalling > BLOCK_STALLING_TIMEOUT

DisconnectSlow(p) ==
    /\ link[p] = "up"
    /\ Stalls(download, p) \/ TooSlow(download, p)
    /\ link' = [link EXCEPT ![p] = "closing"]
    /\ UNCHANGED <<headers, stored, activeTip, owed, download, fetches>>

MarkStaller(d, p, staller) ==
    IF d.node[p].count = 0 /\ staller # Nobody /\ d.node[staller].stalling = -1
    THEN [d EXCEPT !.node[staller].stalling = 0] ELSE d

RequestBlocks(p) ==
    /\ link[p] = "up"
    /\ ~Stalls(download, p) /\ ~TooSlow(download, p)
    /\ download.node[p].count < Full
    /\ \E d \in {[download EXCEPT !.node[p] = ProcessBlockAvailability(@, headers)]} :
          IF ~Worthwhile(d.node[p])
          THEN download' = d /\ UNCHANGED owed
          ELSE \E last \in {LastCommonBlock(d.node[p])} :
               \E next \in {FindNextBlocksToDownload(d, p, last, Full - d.node[p].count)} :
               \E asked \in {RequestAll([d EXCEPT !.node[p].lastCommon = next.lastCommon],
                                       p, next.blocks)} :
                  /\ download' = MarkStaller(asked, p, next.staller)
                  /\ Asks(p, {<<"block", next.blocks[i]>> : i \in DOMAIN next.blocks})
    /\ UNCHANGED <<headers, stored, activeTip, link, fetches>>
-----------------------------------------------------------------------------
\* Messages.  A block that is complete up to the genesis block and has more
\* work than the tip becomes the tip (Chainstate models how).

BestComplete(S) ==
    LET better == {b \in S : Path[b] \subseteq S /\ Work[b] > Work[activeTip]}
    IN  IF better = {} THEN activeTip
        ELSE CHOOSE b \in better : \A c \in better : Work[c] <= Work[b]

ProcessBlock(b, force) ==
    LET S == IF b \in stored \/ force \/ Work[b] >= Work[activeTip] THEN stored \cup {b} ELSE stored
    IN  stored' = S /\ activeTip' = BestComplete(S)

Keeps == UNCHANGED <<stored, activeTip>>
Parent(b) == b # Genesis /\ Prev[b] \in headers

\* An inv for a block: remember what the peer has.
InvMessage(p, b) ==
    /\ link[p] = "up" /\ p \notin HonestNode
    /\ download' = UpdateBlockAvailability(download, p, b, headers)
    /\ UNCHANGED <<headers, stored, activeTip, link, owed, fetches>>

\* HeadersDirectFetchBlocks: the blocks from b down to the active chain, the
\* lowest first, unless they are too many.
DirectFetch(d, b, p) ==
    LET new == Path[b] \ Path[activeTip]
        need == Ascending({c \in new : c \notin stored /\ ~IsBlockRequested(d, c)})
        top == IF Len(need) > Full + 1 THEN SubSeq(need, Len(need) - Full, Len(need)) ELSE need
        large == Len(top) = Full + 1 /\ Prev[top[1]] \notin Path[activeTip]
    IN  IF Work[activeTip] > Work[b] \/ large THEN <<>>
        ELSE FirstOf(top, Full - d.node[p].count)

\* The single block in flight may be asked as a compact block (at most when
\* the block before b is there; the code wants it connected once).
FetchKind(d, b, blocks) ==
    {"block"} \cup IF Len(blocks) = 1 /\ Cardinality({c \in Block : IsBlockRequested(d, c)}) = 1
                      /\ HaveTxsDownloaded(Prev[b])
                   THEN {"cmpct"} ELSE {}

ProcessHeaders(p, b, direct, answered) ==
    \E d \in {UpdateBlockAvailability(download, p, b, headers \cup Path[b])} :
    \E blocks \in {IF direct THEN DirectFetch(d, b, p) ELSE <<>>} :
    \E asked \in {RequestAll(d, p, blocks)} :
        /\ headers' = headers \cup Path[b]
        /\ download' = asked
        /\ \E kind \in FetchKind(asked, b, blocks) :
              owed' = IF p \in HonestNode
                      THEN [owed EXCEPT ![p] = (@ \ answered) \cup
                                {<<kind, blocks[i]>> : i \in DOMAIN blocks}]
                      ELSE owed
        /\ Keeps
        /\ UNCHANGED <<link, fetches>>

HeadersMessage(p, b, direct) ==
    /\ link[p] = "up" /\ (p \in HonestNode => b = HonestTip)
    /\ b # Genesis
    /\ ProcessHeaders(p, b, direct, {})

\* What p may send: an honest peer only answers.
May(p, kind, b) == link[p] = "up" /\ (p \in HonestNode => <<kind, b>> \in owed[p])

BlockMessage(p, b) ==
    /\ May(p, "block", b) /\ Parent(b)
    /\ headers' = headers \cup {b}
    /\ download' = RemoveBlockRequest(download, b)
    /\ ProcessBlock(b, IsBlockRequested(download, b))
    /\ Answers(p, {<<"block", b>>})
    /\ UNCHANGED <<link, fetches>>

\* BLOCKTXN: "ok" if the transactions complete the block, "failed" if short
\* ids collided, "invalid" if they are not the ones asked for.
FillBlock(d, p, b, status, answered) ==
    CASE status = "invalid" ->
            /\ download' = RemoveBlockRequest(d, b)
            /\ link' = [link EXCEPT ![p] = "closing"]
            /\ Keeps /\ UNCHANGED owed
      [] status = "failed" ->
            /\ download' = d
            /\ owed' = IF p \in HonestNode
                       THEN [owed EXCEPT ![p] = (@ \ answered) \cup {<<"block", b>>}] ELSE owed
            /\ Keeps /\ UNCHANGED link
      [] OTHER ->
            /\ download' = RemoveBlockRequest(d, b)
            /\ ProcessBlock(b, TRUE)
            /\ Answers(p, answered) /\ UNCHANGED link

BlockTxnMessage(p, b, status) ==
    /\ May(p, "txn", b) /\ (p \in HonestNode => status # "invalid")
    /\ IF download.map[b] = p /\ IsPartial(download, p, b)
       THEN FillBlock(download, p, b, status, {<<"txn", b>>})
       ELSE Answers(p, {<<"txn", b>>}) /\ Keeps /\ UNCHANGED <<download, link>>
    /\ UNCHANGED <<headers, fetches>>

\* CMPCTBLOCK: "missing" if transactions have to be asked for, "complete" if
\* the mempool has them all; the others as for BLOCKTXN.
AskInstead(p, b, answered) ==
    owed' = IF p \in HonestNode
            THEN [owed EXCEPT ![p] = (@ \ answered) \cup {<<"block", b>>}] ELSE owed

\* The compact block takes the place of the full one, or starts a request.
InitPartial(d, p, b, status, answered) ==
    \E r \in {BlockRequested(d, p, b, TRUE)} :
    \E asked \in {[r EXCEPT !.node[p].list[Entry(r, p, b)].partial = TRUE]} :
        IF d.map[b] = p /\ IsPartial(d, p, b)
        THEN download' = d /\ Answers(p, answered) /\ Keeps /\ UNCHANGED link
        ELSE IF status = "missing"
        THEN /\ download' = asked
             /\ owed' = IF p \in HonestNode
                        THEN [owed EXCEPT ![p] = (@ \ answered) \cup {<<"txn", b>>}] ELSE owed
             /\ Keeps /\ UNCHANGED link
        ELSE FillBlock(asked, p, b, status, answered)

CompactBlock(p, b, status, direct, answered) ==
    \E d \in {UpdateBlockAvailability(download, p, b, headers \cup {b})} :
    LET inFlight == IsBlockRequested(d, b)
        near == Height[b] <= Height[activeTip] + 2
        ignored == \/ b \in stored
                   \/ ~inFlight /\ (Work[b] <= Work[activeTip] \/ ~direct)
    IN  IF ignored
        THEN download' = d /\ Answers(p, answered) /\ Keeps /\ UNCHANGED link
        ELSE IF inFlight /\ (Work[b] <= Work[activeTip] \/ ~near)
        THEN download' = d /\ AskInstead(p, b, answered) /\ Keeps /\ UNCHANGED link
        ELSE IF d.map[b] = p \/ (~inFlight /\ d.node[p].count < Full)
        THEN InitPartial(d, p, b, status, answered)
        ELSE IF status = "complete"
        THEN /\ ProcessBlock(b, TRUE)
             /\ download' = RemoveBlockRequest(d, b)
             /\ Answers(p, answered) /\ UNCHANGED link
        ELSE download' = d /\ Answers(p, answered) /\ Keeps /\ UNCHANGED link

\* A block too far ahead to be rebuilt is taken as an announcement.
CmpctBlockMessage(p, b, status, direct) ==
    /\ May(p, "cmpct", b) /\ Parent(b) /\ (p \in HonestNode => status # "invalid")
    /\ IF /\ b \notin stored /\ Work[b] > Work[activeTip] /\ direct
          /\ ~IsBlockRequested(download, b) /\ Height[b] > Height[activeTip] + 2
       THEN ProcessHeaders(p, b, direct, {<<"cmpct", b>>})
       ELSE /\ headers' = headers \cup {b}
            /\ CompactBlock(p, b, status, direct, {<<"cmpct", b>>})
            /\ UNCHANGED fetches
-----------------------------------------------------------------------------
\* getblockfrompeer: of a block of which only the header is there.  A peer
\* that is being disconnected takes the request with it.
FetchBlock(p, b) ==
    /\ fetches < MaxFetch
    /\ link[p] # "gone" /\ b \in headers \ stored
    /\ p \in HonestNode => b \in Path[HonestTip]
    /\ download.map[b] # p
    /\ download' = BlockRequested(download, p, b, FALSE)
    /\ IF link[p] = "up" THEN Asks(p, {<<"block", b>>}) ELSE UNCHANGED owed
    /\ fetches' = fetches + 1
    /\ UNCHANGED <<headers, stored, activeTip, link>>

Leave(p) ==
    /\ p \notin HonestNode /\ link[p] = "up"
    /\ link' = [link EXCEPT ![p] = "closing"]
    /\ UNCHANGED <<headers, stored, activeTip, owed, download, fetches>>

FinalizeNode(p) ==
    /\ link[p] = "closing"
    /\ link' = [link EXCEPT ![p] = "gone"]
    /\ LET list == download.node[p].list
           erased == {list[i].block : i \in DOMAIN list}
       IN  download' = [download EXCEPT
              !.map = [b \in Block |-> IF b \in erased THEN Nobody ELSE @[b]],
              !.from = IF download.node[p].count # 0 THEN @ - 1 ELSE @, !.node[p] = NewNode]
    /\ owed' = [owed EXCEPT ![p] = {}]
    /\ UNCHANGED <<headers, stored, activeTip, fetches>>

\* A unit of time passes, once the honest peers have answered.  Ages stop
\* where both timeouts have been reached.
Oldest == BLOCK_STALLING_TIMEOUT + BLOCK_DOWNLOAD_TIMEOUT_BASE
          + BLOCK_DOWNLOAD_TIMEOUT_PER_PEER * Cardinality(NodeId)
Older(n) ==
    [n EXCEPT !.stalling = IF @ \in 0 .. BLOCK_STALLING_TIMEOUT THEN @ + 1 ELSE @,
              !.downloading = IF n.count > 0 /\ @ < Oldest THEN @ + 1 ELSE @]
TimePasses ==
    /\ \A p \in HonestNode : owed[p] = {}
    /\ download' = [download EXCEPT !.node = [p \in NodeId |-> Older(@[p])]]
    /\ download' # download
    /\ UNCHANGED <<headers, stored, activeTip, link, owed, fetches>>
-----------------------------------------------------------------------------
DownloadInit ==
    /\ headers = {Genesis} /\ stored = {Genesis} /\ activeTip = Genesis
    /\ link = [p \in NodeId |-> "up"]
    /\ owed = [p \in NodeId |-> {}]
    /\ download = [node |-> [p \in NodeId |-> NewNode], map |-> [b \in Block |-> Nobody], from |-> 0]
    /\ fetches \in 0 .. MaxFetch /\ sent \in 0 .. MaxSent

Counted(p) == IF p \in HonestNode THEN UNCHANGED sent ELSE sent < MaxSent /\ sent' = sent + 1

Announces(p) ==
    /\ Counted(p)
    /\ \E b \in Block \ {Genesis} :
          InvMessage(p, b) \/ \E direct \in BOOLEAN : HeadersMessage(p, b, direct)

Sends(p) ==
    /\ Counted(p)
    /\ \E b \in Block \ {Genesis} :
          \/ BlockMessage(p, b)
          \/ \E status \in {"ok", "failed", "invalid"} : BlockTxnMessage(p, b, status)
          \/ \E status \in {"complete", "missing", "failed", "invalid"}, direct \in BOOLEAN :
                CmpctBlockMessage(p, b, status, direct)

SendMessages(p) == (DisconnectSlow(p) \/ RequestBlocks(p)) /\ UNCHANGED sent
Closes(p) == (Leave(p) \/ FinalizeNode(p)) /\ UNCHANGED sent
Time == TimePasses /\ UNCHANGED sent

DownloadNext ==
    \/ \E p \in NodeId :
          \/ Announces(p) \/ Sends(p) \/ SendMessages(p) \/ Closes(p)
          \/ \E b \in Block : FetchBlock(p, b) /\ UNCHANGED sent
    \/ Time

DownloadSpec == DownloadInit /\ [][DownloadNext]_downloadVars
-----------------------------------------------------------------------------
\* Type invariant.
DownloadTypeOK ==
    /\ headers \subseteq Block /\ stored \subseteq headers /\ activeTip \in stored
    /\ link \in [NodeId -> {"up", "closing", "gone"}]
    /\ download.map \in [Block -> NodeId \cup {Nobody}]
    /\ fetches \in 0 .. MaxFetch

InFlight(p) == {download.node[p].list[i].block : i \in DOMAIN download.node[p].list}

\* mapBlocksInFlight, the lists of the peers and the two counters tell the
\* same story, also of a peer that has gone (the asserts of FinalizeNode).
RequestsAgree ==
    /\ \A p \in NodeId :
          /\ InFlight(p) = {b \in Block : download.map[b] = p}
          /\ download.node[p].count = Len(download.node[p].list)
          /\ download.node[p].count = Cardinality(InFlight(p))
          /\ link[p] = "gone" => InFlight(p) = {}
          /\ download.node[p].count <= Full + fetches
    /\ download.from = Cardinality({p \in NodeId : InFlight(p) # {}})

\* Nothing that is there is asked for, the clock of a staller runs only while
\* it owes a block, and all up to the last common block has been downloaded.
RequestsAreNeeded ==
    /\ \A b \in stored : ~IsBlockRequested(download, b)
    /\ \A p \in NodeId :
          /\ download.node[p].stalling >= 0 => InFlight(p) # {}
          /\ download.node[p].lastCommon # Nil => HaveTxsDownloaded(download.node[p].lastCommon)

\* What is in flight from a peer was asked of it, and one that answers in
\* time is never disconnected for being slow.
HonestAreKept ==
    \A p \in HonestNode :
       /\ InFlight(p) \subseteq {m[2] : m \in owed[p]}
       /\ link[p] = "up"

\* The requests of BlockRequested and RemoveBlockRequest are consistent, none is
\* for a block that is there, and none costs a peer that answers its connection.
RequestsAreRight == DownloadTypeOK /\ RequestsAgree /\ RequestsAreNeeded /\ HonestAreKept

\* The aim of the download: the tip has the work of the honest peers' chain.
HonestChainDownloaded == Work[activeTip] >= Work[HonestTip]
=============================================================================
