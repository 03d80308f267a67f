----------------------------- MODULE HeadersSync -----------------------------
(* The two-phase download of a header chain that has not yet shown enough    *)
(* work (headerssync.cpp) and the handling of headers messages around it     *)
(* (net_processing.cpp: ProcessHeadersMessage and what it calls).            *)
(*                                                                           *)
(* A header is the sequence of the block bodies on its path from the genesis *)
(* block, which is the empty sequence: its last element stands for the       *)
(* fields a CompressedHeader keeps, the rest for hashPrevBlock, so that two  *)
(* headers with the same fields and different parents differ.  Proof of work *)
(* is valid and messages are continuous (CheckHeadersPoW); block download,   *)
(* misbehaviour scores and the progress statistics are left out.             *)
EXTENDS Integers, Sequences, SequencesExt, FiniteSets

CONSTANTS
    Peer,           \* connected peers
    Honest,         \* those that serve one chain, as this code serves headers
    Served,         \* Served[p]: the active chain of an honest peer
    Body,           \* what a header holds besides hashPrevBlock
    Tips,           \* the longest header chains that exist
    Work, Bits,     \* Work[b]: GetBlockProof;  Bits[b]: nBits
    GenesisBits,
    HashBit(_),     \* m_hasher(header.GetHash()) & 1
    Valid(_),       \* the contextual checks of AcceptBlockHeader
    Permitted,      \* <<old, new>> nBits: PermittedDifficultyTransition
    MinimumChainWork,
    NearTip,        \* 144 * GetBlockProof(tip)
    Period, BufferSize, MaxHeaders, MaxCommitments,
    MaxToAnnounce,  \* MAX_BLOCKS_TO_ANNOUNCE
    None

ASSUME SyncAssumption ==
    /\ Honest \subseteq Peer /\ DOMAIN Served = Honest
    /\ {Served[p] : p \in Honest} \subseteq Tips /\ Tips \subseteq Seq(Body)
    /\ Period \in Nat \ {0} /\ MaxHeaders \in Nat \ {0}
    /\ {BufferSize, MaxCommitments, MinimumChainWork, NearTip} \subseteq Nat

VARIABLES
    index,   \* m_block_index: the headers accepted
    best,    \* m_best_header
    tip,     \* the tip of the active chain
    sync,    \* sync[p]: m_headers_sync, None for a null pointer
    asked,   \* asked[p]: locator of the getheaders last sent and not answered
    started, \* fSyncStarted
    heard    \* history: the last header of the message that last added headers

vars == <<index, best, tip, sync, asked, started, heard>>

Genesis == <<>>
Ancestors(h) == {SubSeq(h, 1, n) : n \in 0..Len(h)}
Header == UNION {Ancestors(t) : t \in Tips}
ChainWork(h) ==
    LET upTo[n \in 0..Len(h)] == IF n = 0 THEN 0 ELSE upTo[n - 1] + Work[h[n]]
    IN  upTo[Len(h)]
BitsOf(h) == IF h = Genesis THEN GenesisBits ELSE Bits[Last(h)]

\* The headers after `from` up to `to`, as a headers message carries them.
Headers(from, to) == [i \in 1..(Len(to) - Len(from)) |-> SubSeq(to, 1, Len(from) + i)]
Max2(a, b) == IF a >= b THEN a ELSE b

Threshold == Max2(ChainWork(tip) - NearTip, MinimumChainWork)

SyncState ==
    [state : {"PRESYNC", "REDOWNLOAD"}, start : Header, min : Nat, work : Nat,
     offset : 0..(Period - 1), commits : Seq({0, 1}), last : Header,
     buffer : Seq(Body), firstPrev : Header, bufLast : Header, bufWork : Nat,
     all : BOOLEAN]

NewSync(start, offset) ==
    [state |-> "PRESYNC", start |-> start, min |-> Threshold,
     work |-> ChainWork(start), offset |-> offset, commits |-> <<>>,
     last |-> start, buffer |-> <<>>, firstPrev |-> Genesis,
     bufLast |-> Genesis, bufWork |-> 0, all |-> FALSE]
-----------------------------------------------------------------------------
(* The first phase: one random bit of every Period-th header is kept.        *)
(* The record's field `ok` is the value the C++ function returns.            *)
ValidateAndProcessSingleHeader(r, h) ==
    LET height == Len(r.s.last) + 1
        hit == height % Period = r.s.offset
        commits == IF hit THEN Append(r.s.commits, HashBit(h)) ELSE r.s.commits
    IN IF \/ ~r.ok
          \/ <<BitsOf(r.s.last), BitsOf(h)>> \notin Permitted
          \/ hit /\ Len(commits) > MaxCommitments
       THEN [r EXCEPT !.ok = FALSE]
       ELSE [r EXCEPT !.s.commits = commits, !.s.last = h,
                      !.s.work = @ + Work[Last(h)]]

ValidateAndStoreHeadersCommitments(s, hs) ==
    LET r == FoldLeft(ValidateAndProcessSingleHeader,
                      [ok |-> Front(hs[1]) = s.last, s |-> s], hs)
    IN IF r.ok /\ r.s.work >= s.min
       THEN [r EXCEPT !.s.state = "REDOWNLOAD", !.s.buffer = <<>>,
                      !.s.bufLast = s.start, !.s.firstPrev = s.start,
                      !.s.bufWork = ChainWork(s.start)]
       ELSE r

(* The second phase: the chain is fetched again and compared with the bits.  *)
\* Mutant: the bit is not compared.
RedownloadedHeaderUnchecked(r, h) ==
    LET s == r.s
        height == Len(s.bufLast) + 1
        previous == IF s.buffer = <<>> THEN BitsOf(s.start) ELSE Bits[Last(s.buffer)]
        work == s.bufWork + Work[Last(h)]
        all == s.all \/ work >= s.min
        checked == ~all /\ height % Period = s.offset
    IN IF \/ ~r.ok
          \/ Front(h) # s.bufLast
          \/ <<previous, BitsOf(h)>> \notin Permitted
          \/ checked /\ s.commits = <<>>
       THEN [r EXCEPT !.ok = FALSE]
       ELSE [r EXCEPT !.s.bufWork = work, !.s.all = all,
                      !.s.commits = IF checked THEN Tail(@) ELSE @,
                      !.s.buffer = Append(@, Last(h)), !.s.bufLast = h]

ValidateAndStoreRedownloadedHeader(r, h) ==
    LET s == r.s
        height == Len(s.bufLast) + 1
        previous == IF s.buffer = <<>> THEN BitsOf(s.start) ELSE Bits[Last(s.buffer)]
        work == s.bufWork + Work[Last(h)]
        all == s.all \/ work >= s.min
        checked == ~all /\ height % Period = s.offset
    IN IF \/ ~r.ok
          \/ Front(h) # s.bufLast
          \/ <<previous, BitsOf(h)>> \notin Permitted
          \/ checked /\ (s.commits = <<>> \/ Head(s.commits) # HashBit(h))
       THEN [r EXCEPT !.ok = FALSE]
       ELSE [r EXCEPT !.s.bufWork = work, !.s.all = all,
                      !.s.commits = IF checked THEN Tail(@) ELSE @,
                      !.s.buffer = Append(@, Last(h)), !.s.bufLast = h]

\* Mutant of Ready: one too many.
ReadyTooEarly(s) == IF s.all THEN Len(s.buffer) ELSE Max2(Len(s.buffer) + 1 - BufferSize, 0)

\* How many buffered headers are released, and those headers, each rebuilt by
\* GetFullHeader from its fields and the one released before it.
Ready(s) == IF s.all THEN Len(s.buffer) ELSE Max2(Len(s.buffer) - BufferSize, 0)
Released(s) ==
    [i \in 1..Ready(s) |-> s.firstPrev \o SubSeq(s.buffer, 1, i)]
PopHeadersReadyForAcceptance(s) ==
    [s EXCEPT !.firstPrev = @ \o SubSeq(s.buffer, 1, Ready(s)),
              !.buffer = SubSeq(@, Ready(s) + 1, Len(@))]

\* s |-> None is the state FINAL, in which the object is dropped.
Failed(hs) == [ok |-> FALSE, s |-> None, headers |-> hs]
Continue(s, headers, more) ==
    [ok |-> TRUE, s |-> IF more THEN s ELSE None, headers |-> headers]

\* Mutant: the second phase is requested only after a full message.
ProcessNextHeadersFullOnly(s, hs) ==
    LET full == Len(hs) = MaxHeaders
        pre == ValidateAndStoreHeadersCommitments(s, hs)
        re == FoldLeft(ValidateAndStoreRedownloadedHeader, [ok |-> TRUE, s |-> s], hs)
        popped == PopHeadersReadyForAcceptance(re.s)
    IN IF s.state = "PRESYNC"
       THEN IF pre.ok
            THEN Continue(pre.s, <<>>, full)
            ELSE Failed(hs)
       ELSE IF re.ok
            THEN Continue(popped, Released(re.s),
                          full /\ ~(popped.buffer = <<>> /\ popped.all))
            ELSE Failed(hs)

ProcessNextHeaders(s, hs) ==
    LET full == Len(hs) = MaxHeaders
        pre == ValidateAndStoreHeadersCommitments(s, hs)
        re == FoldLeft(ValidateAndStoreRedownloadedHeader, [ok |-> TRUE, s |-> s], hs)
        popped == PopHeadersReadyForAcceptance(re.s)
    IN IF s.state = "PRESYNC"
       THEN IF pre.ok
            THEN Continue(pre.s, <<>>, full \/ pre.s.state = "REDOWNLOAD")
            ELSE Failed(hs)
       ELSE IF re.ok
            THEN Continue(popped, Released(re.s),
                          full /\ ~(popped.buffer = <<>> /\ popped.all))
            ELSE Failed(hs)

LocatorEntries(h) == [i \in 1..(Len(h) + 1) |-> SubSeq(h, 1, Len(h) + 1 - i)]

NextHeadersRequestLocator(s) ==
    <<IF s.state = "PRESYNC" THEN s.last ELSE s.bufLast>> \o LocatorEntries(s.start)
-----------------------------------------------------------------------------
(* The headers message handler.                                              *)
IsContinuationOfLowWorkHeadersSync(s, hs) ==
    IF s = None THEN Failed(hs) ELSE ProcessNextHeaders(s, hs)

AskedBy(s) == IF s = None THEN None ELSE NextHeadersRequestLocator(s)

IsAncestorOfBestHeaderOrTip(h) == h \in Ancestors(best) \cup Ancestors(tip)

\* A new sync, or for a message that is not full the end of the matter.
TryLowWorkHeadersSync(start, hs, offset) ==
    IF Len(hs) = MaxHeaders
    THEN ProcessNextHeaders(NewSync(start, offset), hs)
    ELSE [ok |-> TRUE, s |-> None, headers |-> <<>>]

\* ProcessNewBlockHeaders: up to the first header that is not acceptable.
Accepted(hs) ==
    {hs[i] : i \in {n \in DOMAIN hs : \A k \in 1..n : hs[k] \in index \/ Valid(hs[k])}}
ProcessNewBlockHeaders(hs) ==
    /\ index' = index \cup Accepted(hs)
    /\ best' = FoldLeft(LAMBDA b, h : IF h \in Accepted(hs) /\ ChainWork(h) > ChainWork(b)
                                      THEN h ELSE b, best, hs)
    /\ UNCHANGED tip

NoNewHeader == UNCHANGED <<index, best, tip, heard>>
Reset(p, s, ask) ==
    /\ sync' = [sync EXCEPT ![p] = s]
    /\ asked' = [asked EXCEPT ![p] = ask]
    /\ UNCHANGED started

\* An empty message ends a sync in progress.
ProcessEmptyHeaders(p) == Reset(p, None, None) /\ NoNewHeader

ProcessHeadersMessage(p, msg) ==
    LET c == IsContinuationOfLowWorkHeadersSync(sync[p], msg)
        hs == c.headers
        start == Front(hs[1])
        validated == c.ok \/ (Last(hs) \in index /\ IsAncestorOfBestHeaderOrTip(Last(hs)))
        low == ~validated /\ ChainWork(Last(hs)) < Threshold
        more == Len(msg) = MaxHeaders /\ c.s = None
    IN \/ /\ hs = <<>>
          /\ Reset(p, c.s, AskedBy(c.s)) /\ NoNewHeader
       \/ /\ hs # <<>> /\ start \notin index
          /\ Reset(p, c.s, IF Len(msg) <= MaxToAnnounce /\ c.s = None
                           THEN LocatorEntries(best) ELSE AskedBy(c.s))
          /\ NoNewHeader
       \/ /\ hs # <<>> /\ start \in index
          /\ \E offset \in 0..(Period - 1) :
               LET t == TryLowWorkHeadersSync(start, hs, offset)
               IN IF low /\ t.ok
                  THEN Reset(p, t.s, AskedBy(t.s)) /\ NoNewHeader
                  ELSE /\ ProcessNewBlockHeaders(hs)
                       /\ heard' = IF index' = index THEN heard ELSE Last(msg)
                       /\ Reset(p, c.s, IF more /\ Last(hs) \in Accepted(hs)
                                        THEN LocatorEntries(Last(hs))
                                        ELSE AskedBy(c.s))
-----------------------------------------------------------------------------
Init ==
    /\ index = {Genesis} /\ best = Genesis /\ tip = Genesis
    /\ sync = [p \in Peer |-> None]
    /\ asked = [p \in Peer |-> None]
    /\ started = [p \in Peer |-> FALSE]
    /\ heard = Genesis

\* SendMessages: the first getheaders goes out from the parent of the best
\* header.  MaybeSendGetHeaders keeps one request outstanding.
StartSync(p) ==
    /\ ~started[p] /\ asked[p] = None
    /\ asked' = [asked EXCEPT ![p] =
                   LocatorEntries(IF best = Genesis THEN best ELSE Front(best))]
    /\ started' = [started EXCEPT ![p] = TRUE]
    /\ UNCHANGED <<index, best, tip, sync, heard>>

\* An inv for a block this node does not have asks for headers too.
BlockInv(p) ==
    /\ asked[p] = None
    /\ p \in Honest => Served[p] \notin index
    /\ asked' = [asked EXCEPT ![p] = LocatorEntries(best)]
    /\ UNCHANGED <<index, best, tip, sync, started, heard>>

\* A peer that is not honest sends the headers it likes.
PeerSends(p) ==
    /\ p \in Peer \ Honest
    /\ \/ ProcessEmptyHeaders(p)
       \/ \E to \in Header \ {Genesis}, n \in 1..MaxHeaders :
            n <= Len(to) /\ ProcessHeadersMessage(p, Headers(SubSeq(to, 1, Len(to) - n), to))

\* The getheaders handler, as the peer runs it.
FindForkInGlobalIndex(chain, locator) ==
    LET known == {i \in DOMAIN locator : locator[i] \in Ancestors(chain)}
    IN locator[CHOOSE i \in known : \A k \in known : i <= k]
ServeHeaders(chain, locator) ==
  IF ChainWork(chain) < MinimumChainWork THEN <<>> ELSE
    LET from == FindForkInGlobalIndex(chain, locator)
        to == IF Len(chain) - Len(from) > MaxHeaders THEN Len(from) + MaxHeaders ELSE Len(chain)
    IN Headers(from, SubSeq(chain, 1, to))

PeerAnswers(p) ==
    /\ p \in Honest /\ asked[p] # None
    /\ LET msg == ServeHeaders(Served[p], asked[p])
       IN IF msg = <<>> THEN ProcessEmptyHeaders(p) ELSE ProcessHeadersMessage(p, msg)

\* FinalizeNode, and a new connection in the slot.
Reconnect(p) ==
    /\ p \notin Honest
    /\ sync' = [sync EXCEPT ![p] = None]
    /\ asked' = [asked EXCEPT ![p] = None]
    /\ started' = [started EXCEPT ![p] = FALSE]
    /\ NoNewHeader

\* The block chain follows the headers.
ConnectTip ==
    /\ \E h \in index : ChainWork(h) > ChainWork(tip) /\ tip' = h
    /\ UNCHANGED <<index, best, sync, asked, started, heard>>

Next ==
    \/ \E p \in Peer : \/ StartSync(p) \/ BlockInv(p) \/ PeerSends(p)
                       \/ PeerAnswers(p) \/ Reconnect(p)
    \/ ConnectTip

Spec == Init /\ [][Next]_vars

\* Weak fairness of SendMessages and of an honest peer's answer, with the
\* conditions under which they are enabled written out.
Fairness ==
    \A p \in Honest :
        /\ []<>(started[p] \/ asked[p] # None) \/ []<><<StartSync(p)>>_vars
        /\ []<>(asked[p] = None) \/ []<><<PeerAnswers(p)>>_vars
FairSpec == Spec /\ Fairness
-----------------------------------------------------------------------------
\* Every piece of state is of its C++ type, and the pointers the sync keeps
\* into the block index (m_chain_start) stay in it.
TypeOK ==
    /\ index \subseteq Header /\ best \in index /\ tip \in index
    /\ sync \in [Peer -> SyncState \cup {None}]
    /\ \A p \in Peer : sync[p] # None => sync[p].start \in index
    /\ \A p \in Peer : asked[p] # None => asked[p] \in Seq(Header)
    /\ heard \in Header /\ DOMAIN asked = Peer /\ started \in [Peer -> BOOLEAN]

Syncing(p, state) == sync[p] # None /\ sync[p].state = state
Sampled(s, h) == Len(h) > Len(s.start) /\ Len(h) % Period = s.offset
At(h, n) == SubSeq(h, 1, n)

\* While the chain is fetched for the second time and has not yet shown the
\* required work, every header of it at a sampled height has the bit that the
\* header of the first download had at this height, and the bits not yet used
\* are those of the heights to come: the queue never gets out of step, whatever
\* messages arrived in between (ValidateAndStoreRedownloadedHeader).
CommitmentsHeld ==
    \A p \in Peer : Syncing(p, "REDOWNLOAD") /\ ~sync[p].all =>
        LET s == sync[p]
            sampled == {n \in 1..Len(s.last) : Sampled(s, At(s.last, n))}
        IN /\ \A h \in Ancestors(s.bufLast) : Sampled(s, h) =>
                 Len(h) \in sampled /\ HashBit(h) = HashBit(At(s.last, Len(h)))
           /\ Len(s.commits) = Cardinality({n \in sampled : n > Len(s.bufLast)})
           /\ ChainWork(s.last) >= s.min

\* The fields kept without hashPrevBlock stand for the chain that was received:
\* appended to the last header released they give the last one buffered.  The
\* buffer is empty only before the first message of the second phase, so taking
\* the nBits of m_chain_start for the previous header's is right.
BufferIsTheChain ==
    \A p \in Peer : Syncing(p, "REDOWNLOAD") =>
        LET s == sync[p]
        IN /\ s.firstPrev \o s.buffer = s.bufLast
           /\ s.buffer = <<>> => s.bufLast = s.start
           /\ s.bufWork = ChainWork(s.bufLast)

\* What a peer can make this node remember for it is bounded: the bits by the
\* limit derived from the age of the chain, the headers by the buffer's size.
MemoryIsBounded ==
    \A p \in Peer : sync[p] # None =>
        /\ Len(sync[p].commits) <= MaxCommitments
        /\ Len(sync[p].buffer) <= BufferSize

\* A sync in progress has a getheaders outstanding for exactly the headers it
\* expects next; otherwise nothing would ever move it or end it.
SyncIsAsked ==
    \A p \in Peer : sync[p] # None =>
        /\ asked[p] # None
        /\ asked[p][1] = IF sync[p].state = "PRESYNC" THEN sync[p].last ELSE sync[p].bufLast

\* What is kept of a sync is what its two downloads were: bits, buffer and work
\* in step with the headers received, within the limits, and the next message
\* asked for.
SyncStateIsRight ==
    TypeOK /\ CommitmentsHeld /\ BufferIsTheChain /\ MemoryIsBounded /\ SyncIsAsked

\* The work that justifies a new header of the block index: the message that
\* brought it reaches the threshold in force, or a sync of some peer saw the
\* required work in its first phase and the second one has either reached it
\* again, or come BufferSize headers past the new one.
WorkShown(h) ==
    /\ h \in Ancestors(heard')
    /\ \/ ChainWork(heard') >= Threshold
       \/ \E p \in Peer :
            /\ Syncing(p, "REDOWNLOAD") /\ ChainWork(sync[p].last) >= sync[p].min
            /\ \/ ChainWork(heard') >= sync[p].min
               \/ Len(heard') >= Len(h) + BufferSize

\* No header enters the block index before work has been shown for it: that is
\* what min_pow_checked = true tells ProcessNewBlockHeaders, and what
\* AcceptBlockHeader would refuse with "too-little-chainwork".
EnoughWorkShown == [][\A h \in index' \ index : WorkShown(h)]_vars

\* An honest peer whose chain has enough work gets it into the block index,
\* whatever the other peers send.
HonestChainArrives ==
    \A p \in Honest : <>(Ancestors(Served[p]) \subseteq index)
=============================================================================
