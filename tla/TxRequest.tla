------------------------------ MODULE TxRequest ------------------------------
(***************************************************************************)
(* TxRequestTracker (src/src/txrequest.cpp): which announced transaction   *)
(* is asked for, from which peer, and when, with the way SendMessages and  *)
(* the message handlers of net_processing.cpp use it.                      *)
(*                                                                         *)
(* The announcements of one transaction are a function of the peer; the    *)
(* code's orders of the multi-index are the quantifiers over it, and equal *)
(* keys may come in any order.  One iteration of a loop over announcements *)
(* of several transactions is one step (op says which loop is running);    *)
(* no other call comes between, since g_msgproc_mutex and cs_main are held *)
(* throughout.  The clock of the caller may be set back.                   *)
(***************************************************************************)
EXTENDS Integers

CONSTANTS
    Peer, Tx,
    Prio,           \* ComputePriority: [Tx -> [Peer -> [BOOLEAN -> Nat]]]
    MaxTime,        \* bound on the clock
    Interval,       \* GETDATA_TX_INTERVAL
    MaxBack         \* bound on how often the clock is set back

ASSUME PriorityAssumption == Prio \in [Tx -> [Peer -> [BOOLEAN -> Nat]]]
ASSUME PeerAssumption == Peer # {}
ASSUME TimeAssumption == MaxTime \in Nat /\ Interval \in Nat /\ MaxBack \in Nat

Time == 0 .. MaxTime
Waiting == {"DELAYED", "REQUESTED"}
Selectable == {"READY", "BEST"}
Selected == {"BEST", "REQUESTED"}
Candidate == {"DELAYED", "READY", "BEST"}
State == {"NONE", "DELAYED", "READY", "BEST", "REQUESTED", "COMPLETED"}

Announcement == [state : State, time : Time, preferred : BOOLEAN]
NoAnnouncement == [state |-> "NONE", time |-> 0, preferred |-> FALSE]
Nothing == [p \in Peer |-> NoAnnouncement]

\* f is the announcements of transaction t, by peer.
Priority(f, t, p) == Prio[t][p][f[p].preferred]
SetState(f, p, s) == [f EXCEPT ![p] = [@ EXCEPT !.state = s]]
Has(f, s) == \E p \in Peer : f[p].state = s

VARIABLES
    ann,        \* m_index: [Tx -> [Peer -> Announcement]]
    clock, back,
    gone,       \* peers that have disconnected; a NodeId is never used again
    op          \* the call in progress: its loop, peer and remaining hashes

vars == <<ann, clock, back, gone, op>>

Idle == [loop |-> "none", peer |-> CHOOSE p \in Peer : TRUE, todo |-> {}]

-----------------------------------------------------------------------------
(* The operations on the announcements of one transaction.  Each is the    *)
(* set of its possible results.                                            *)

\* Mutant of PromoteCandidateReady: a better candidate does not take over.
PromoteCandidateReadyLast(f, t, p) ==
    SetState(f, p, IF Has(f, "BEST") \/ Has(f, "REQUESTED") THEN "READY" ELSE "BEST")

\* The announcement becomes READY, or BEST if it is the first of the selectable
\* ones and none is in flight.
PromoteCandidateReady(f, t, p) ==
    IF \E q \in Peer : f[q].state = "READY" /\ Priority(f, t, q) > Priority(f, t, p)
    THEN SetState(f, p, "READY")
    ELSE IF Has(f, "BEST")
    THEN LET old == CHOOSE q \in Peer : f[q].state = "BEST" IN
         IF Priority(f, t, p) > Priority(f, t, old)
         THEN SetState(SetState(f, old, "READY"), p, "BEST")
         ELSE SetState(f, p, "READY")
    ELSE SetState(f, p, IF Has(f, "REQUESTED") THEN "READY" ELSE "BEST")

\* The READY announcements of the highest priority.
TopReady(f, t) ==
    {p \in Peer : /\ f[p].state = "READY"
                  /\ \A q \in Peer : f[q].state = "READY" => Priority(f, t, q) <= Priority(f, t, p)}

\* Erase, of one announcement.
Erased(f, p) == [f EXCEPT ![p] = NoAnnouncement]

ChangeAndReselect(f, t, p, new) ==
    IF f[p].state \in Selected /\ Has(f, "READY")
    THEN {SetState(SetState(f, top, "BEST"), p, new) : top \in TopReady(f, t)}
    ELSE {SetState(f, p, new)}

IsOnlyNonCompleted(f, p) == \A q \in Peer : q # p => f[q].state \in {"NONE", "COMPLETED"}

MakeCompleted(f, t, p) ==
    IF f[p].state \in {"NONE", "COMPLETED"} THEN {f}
    ELSE IF IsOnlyNonCompleted(f, p) THEN {Nothing}
    ELSE ChangeAndReselect(f, t, p, "COMPLETED")

\* Mutant of Requested: whoever was asked before becomes a candidate again.
RequestedAgain(f, p, expiry) ==
    [q \in Peer |-> IF q = p THEN [f[q] EXCEPT !.state = "REQUESTED", !.time = expiry]
                    ELSE IF f[q].state \in Selected \cup {"COMPLETED"} THEN [f[q] EXCEPT !.state = "READY"]
                    ELSE f[q]]

\* The announcement that RequestedTx takes the place of.
Superseded(f, q) ==
    IF f[q].state = "BEST" THEN "READY" ELSE IF f[q].state = "REQUESTED" THEN "COMPLETED" ELSE f[q].state

Requested(f, p, expiry) ==
    [q \in Peer |-> IF q = p THEN [f[q] EXCEPT !.state = "REQUESTED", !.time = expiry]
                    ELSE IF f[p].state = "BEST" THEN f[q]
                    ELSE [f[q] EXCEPT !.state = Superseded(f, q)]]

-----------------------------------------------------------------------------
(* The calls.                                                              *)

Quiet == op.loop = "none"
Replace(t, f) == ann' = [ann EXCEPT ![t] = f]

\* AddTxAnnouncement: a new announcement, to be asked for after a delay.
ReceivedInv(p, t, preferred, reqtime) ==
    /\ Quiet /\ p \notin gone
    /\ ann[t][p].state = "NONE"
    /\ Replace(t, [ann[t] EXCEPT ![p] = [state |-> "DELAYED", time |-> reqtime, preferred |-> preferred]])
    /\ UNCHANGED <<clock, back, gone, op>>

\* A tx or notfound message.
ReceivedResponse(p, t) ==
    /\ Quiet
    /\ ann[t][p].state # "NONE"
    /\ \E f \in MakeCompleted(ann[t], t, p) : Replace(t, f)
    /\ UNCHANGED <<clock, back, gone, op>>

\* The transaction was accepted, rejected, or confirmed.
ForgetTxHash(t) ==
    /\ Quiet
    /\ Replace(t, Nothing)
    /\ UNCHANGED <<clock, back, gone, op>>

\* The call is for any announcement that is still a candidate.
RequestedTx(p, t, expiry) ==
    /\ Quiet
    /\ ann[t][p].state \in Candidate
    /\ Replace(t, Requested(ann[t], p, expiry))
    /\ UNCHANGED <<clock, back, gone, op>>

DisconnectedPeer(p) ==
    /\ Quiet /\ p \notin gone
    /\ gone' = gone \cup {p}
    /\ op' = [loop |-> "disconnect", peer |-> p, todo |-> {t \in Tx : ann[t][p].state # "NONE"}]
    /\ UNCHANGED <<ann, clock, back>>

DisconnectStep(t) ==
    /\ op.loop = "disconnect" /\ t \in op.todo
    /\ \E f \in MakeCompleted(ann[t], t, op.peer) : Replace(t, Erased(f, op.peer))
    /\ op' = [op EXCEPT !.todo = @ \ {t}]
    /\ UNCHANGED <<clock, back, gone>>

\* SendMessages to p: GetRequestable runs the two loops of SetTimePoint, then
\* every transaction it returns is asked for or forgotten.
GetRequestable(p) ==
    /\ Quiet /\ p \notin gone
    /\ op' = [loop |-> "promote", peer |-> p, todo |-> {}]
    /\ UNCHANGED <<ann, clock, back, gone>>

Due(p, t) == ann[t][p].state \in Waiting /\ ann[t][p].time <= clock
Early(p, t) == ann[t][p].state \in Selectable /\ ann[t][p].time > clock

\* The first loop, in the order of ByTime.
PromoteStep(p, t) ==
    /\ op.loop = "promote"
    /\ Due(p, t)
    /\ \A q \in Peer, u \in Tx : Due(q, u) => ann[t][p].time <= ann[u][q].time
    /\ IF ann[t][p].state = "DELAYED"
       THEN Replace(t, PromoteCandidateReady(ann[t], t, p))
       ELSE \E f \in MakeCompleted(ann[t], t, p) : Replace(t, f)
    /\ UNCHANGED <<clock, back, gone, op>>

PromoteEnd ==
    /\ op.loop = "promote"
    /\ \A p \in Peer, t \in Tx : ~Due(p, t)
    /\ op' = [op EXCEPT !.loop = "demote"]
    /\ UNCHANGED <<ann, clock, back, gone>>

\* The second loop, from the end of ByTime: the clock was set back.
DemoteStep(p, t) ==
    /\ op.loop = "demote"
    /\ Early(p, t)
    /\ \A q \in Peer, u \in Tx : Early(q, u) => ann[u][q].time <= ann[t][p].time
    /\ \E f \in ChangeAndReselect(ann[t], t, p, "DELAYED") : Replace(t, f)
    /\ UNCHANGED <<clock, back, gone, op>>

\* Mutant of DemoteEnd: only what preferred peers announced is returned.
DemoteEndPreferred ==
    /\ op.loop = "demote"
    /\ \A p \in Peer, t \in Tx : ~Early(p, t)
    /\ op' = [op EXCEPT !.loop = "request",
                       !.todo = {t \in Tx : ann[t][op.peer].state = "BEST" /\ ann[t][op.peer].preferred}]
    /\ UNCHANGED <<ann, clock, back, gone>>

DemoteEnd ==
    /\ op.loop = "demote"
    /\ \A p \in Peer, t \in Tx : ~Early(p, t)
    /\ op' = [op EXCEPT !.loop = "request", !.todo = {t \in Tx : ann[t][op.peer].state = "BEST"}]
    /\ UNCHANGED <<ann, clock, back, gone>>

\* current_time + GETDATA_TX_INTERVAL, within the bound of the clock.
Expiry == IF clock + Interval < MaxTime THEN clock + Interval ELSE MaxTime

RequestStep(t) ==
    /\ op.loop = "request" /\ t \in op.todo
    /\ \/ Replace(t, Requested(ann[t], op.peer, Expiry))
       \/ Replace(t, Nothing)       \* AlreadyHaveTx: ForgetTxHash
    /\ op' = [op EXCEPT !.todo = @ \ {t}]
    /\ UNCHANGED <<clock, back, gone>>

CallEnd ==
    /\ op.loop \in {"disconnect", "request"} /\ op.todo = {}
    /\ op' = Idle
    /\ UNCHANGED <<ann, clock, back, gone>>

Tick ==
    /\ Quiet /\ clock < MaxTime
    /\ clock' = clock + 1
    /\ UNCHANGED <<ann, back, gone, op>>

SetBack ==
    /\ Quiet /\ clock > 0 /\ back < MaxBack
    /\ clock' = clock - 1 /\ back' = back + 1
    /\ UNCHANGED <<ann, gone, op>>

-----------------------------------------------------------------------------

Init ==
    /\ ann = [t \in Tx |-> Nothing]
    /\ clock = 0 /\ back = 0 /\ gone = {}
    /\ op = Idle

LoopStep ==
    \/ \E t \in Tx : DisconnectStep(t) \/ RequestStep(t)
    \/ \E p \in Peer, t \in Tx : PromoteStep(p, t) \/ DemoteStep(p, t)
    \/ PromoteEnd \/ DemoteEnd \/ CallEnd

Next ==
    \/ \E p \in Peer, t \in Tx :
        \/ \E preferred \in BOOLEAN, reqtime \in Time : ReceivedInv(p, t, preferred, reqtime)
        \/ ReceivedResponse(p, t)
        \/ \E expiry \in Time : RequestedTx(p, t, expiry)
    \/ \E t \in Tx : ForgetTxHash(t)
    \/ \E p \in Peer : DisconnectedPeer(p) \/ GetRequestable(p)
    \/ LoopStep
    \/ Tick \/ SetBack

Spec == Init /\ [][Next]_vars

\* The message handler thread comes round to every peer, and time passes.
FairSpec ==
    /\ Spec
    /\ WF_vars(LoopStep) /\ SF_vars(Tick)
    /\ \A p \in Peer : SF_vars(GetRequestable(p))

-----------------------------------------------------------------------------
(* Properties.                                                             *)

TypeOK ==
    /\ ann \in [Tx -> [Peer -> Announcement]]
    /\ clock \in Time /\ back \in 0 .. MaxBack /\ gone \subseteq Peer
    /\ op \in [loop : {"none", "disconnect", "promote", "demote", "request"},
               peer : Peer, todo : SUBSET Tx]

\* The asserts of SanityCheck (txrequest.cpp:181) about one transaction: not
\* all announcements are completed, at most one is selected, one is selected if
\* any is ready, and no ready one beats the best.
Sane(f, t) ==
    /\ f = Nothing \/ \E p \in Peer : f[p].state \notin {"NONE", "COMPLETED"}
    /\ \A p, q \in Peer : f[p].state \in Selected /\ f[q].state \in Selected => p = q
    /\ Has(f, "READY") => \E p \in Peer : f[p].state \in Selected
    /\ \A p, q \in Peer :
            f[p].state = "BEST" /\ f[q].state = "READY" => Priority(f, t, q) <= Priority(f, t, p)

\* SanityCheck holds after every call and at every turn of the loops, however
\* announcements, responses, expiries, disconnects and clock changes interleave.
SanityCheck == \A t \in Tx : Sane(ann[t], t)

\* A peer that was asked for a transaction and answered, or let the request
\* expire, is not asked for it again while the transaction is tracked.
NotAskedTwice ==
    [][\A p \in Peer, t \in Tx :
            ann[t][p].state = "COMPLETED" => ann'[t][p].state \in {"COMPLETED", "NONE"}]_vars

\* Nothing of a disconnected peer is left: with no peers the tracker is empty,
\* assert(m_txrequest.Size() == 0), net_processing.cpp:732.
GoneIsForgotten ==
    \A p \in gone, t \in Tx : ann[t][p].state = "NONE" \/ (op.loop = "disconnect" /\ op.peer = p /\ t \in op.todo)

\* PostGetRequestableSanityCheck (txrequest.cpp:198): what GetRequestable leaves
\* waiting is not due. (That what it leaves selectable is due is the condition
\* on which DemoteEnd ends the second loop.)
NoneIsDue == op.loop = "demote" => \A p \in Peer, t \in Tx : ~Due(p, t)

\* What GetRequestable returned, and is not yet asked for, is still the best:
\* RequestedTx is never called for an announcement that is no candidate.
AskedAreBest == op.loop = "request" => \A t \in op.todo : ann[t][op.peer].state = "BEST"

\* The asserts of the tracker hold at every turn of its loops, the second loop
\* of SetTimePoint makes nothing due that the first had dealt with, what
\* SendMessages asks for is still what was selected, and nothing is kept of a
\* peer that is gone, however announcements, responses, expiries, disconnects
\* and clock changes interleave.
TrackerIsSane == TypeOK /\ SanityCheck /\ NoneIsDue /\ AskedAreBest /\ GoneIsForgotten

\* No candidate is starved: whoever announced a transaction is asked for it in
\* the end, unless it was received or forgotten or the peer has gone, even if
\* every other peer announces first and never answers.
Served ==
    \A p \in Peer, t \in Tx : []<>(ann[t][p].state \notin Candidate)

=============================================================================
