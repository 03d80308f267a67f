---------------------------- MODULE TxRequest_proof ----------------------------
(* Proofs about TxRequest, for any peers, transactions and priorities.      *)
EXTENDS TxRequest, TLAPS

Op == [loop : {"none", "disconnect", "promote", "demote", "request"}, peer : Peer, todo : SUBSET Tx]

\* Between f and g no announcement was added and no completed one revived.
Keeps(f, g) ==
    \A q \in Peer :
        /\ f[q].state = "NONE" => g[q].state = "NONE"
        /\ f[q].state = "COMPLETED" => g[q].state \in {"COMPLETED", "NONE"}

\* What SetState changes: one state; no priority.
LEMMA SetStateFacts ==
    ASSUME NEW t \in Tx, NEW f \in [Peer -> Announcement], NEW p \in Peer, NEW s \in State
    PROVE  /\ SetState(f, p, s) \in [Peer -> Announcement]
           /\ SetState(f, p, s)[p].state = s
           /\ \A q \in Peer : q # p => SetState(f, p, s)[q] = f[q]
           /\ \A q \in Peer : Priority(SetState(f, p, s), t, q) = Priority(f, t, q)
BY DEF SetState, Announcement, Priority

\* A priority is a number.
LEMMA PriorityIsNat ==
    ASSUME NEW t \in Tx, NEW f \in [Peer -> Announcement], NEW p \in Peer
    PROVE  Priority(f, t, p) \in Nat
BY PriorityAssumption DEF Priority, Announcement

\* PromoteCandidateReady keeps the tracker sane.
LEMMA PromoteSane ==
    ASSUME NEW t \in Tx, NEW f \in [Peer -> Announcement], NEW p \in Peer,
           Sane(f, t), f[p].state = "DELAYED"
    PROVE  /\ PromoteCandidateReady(f, t, p) \in [Peer -> Announcement]
           /\ Sane(PromoteCandidateReady(f, t, p), t)
<1> DEFINE g == PromoteCandidateReady(f, t, p)
           Same(h, x) == /\ h \in [Peer -> Announcement]
                         /\ \A q \in Peer : q # x => h[q] = f[q]
                         /\ \A q \in Peer : Priority(h, t, q) = Priority(f, t, q)
<1>0. \A q \in Peer : Priority(f, t, q) \in Nat
    BY PriorityIsNat
<1>a. \A s \in State : Same(SetState(f, p, s), p) /\ SetState(f, p, s)[p].state = s
    BY SetStateFacts
<1>b. "READY" \in State /\ "BEST" \in State
    BY DEF State
<1>c. SUFFICES g \in [Peer -> Announcement] /\ Sane(g, t)
    OBVIOUS
<1>1. CASE \E q \in Peer : f[q].state = "READY" /\ Priority(f, t, q) > Priority(f, t, p)
    <2>1. g = SetState(f, p, "READY")
        BY <1>1 DEF PromoteCandidateReady
    <2>2. Same(g, p) /\ g[p].state = "READY"
        BY <2>1, <1>a, <1>b
    <2>3. PICK r \in Peer : f[r].state = "READY" /\ Priority(f, t, r) > Priority(f, t, p)
        BY <1>1
    <2> HIDE DEF g
    <2> QED BY <2>2, <2>3, <1>0 DEF Sane, Has, Selected
<1>2. CASE /\ ~\E q \in Peer : f[q].state = "READY" /\ Priority(f, t, q) > Priority(f, t, p)
           /\ Has(f, "BEST")
    <2> DEFINE old == CHOOSE q \in Peer : f[q].state = "BEST"
    <2>1. old \in Peer /\ f[old].state = "BEST" /\ old # p
        BY <1>2 DEF Has
    <2>2. CASE Priority(f, t, p) > Priority(f, t, old)
        <3> DEFINE h == SetState(f, old, "READY")
        <3>1. g = SetState(h, p, "BEST")
            BY <1>2, <2>2 DEF PromoteCandidateReady
        <3> HIDE DEF g, old
        <3>2. Same(h, old) /\ h[old].state = "READY"
            BY <2>1, <1>b, SetStateFacts
        <3> HIDE DEF h
        <3>3. /\ g \in [Peer -> Announcement] /\ g[p].state = "BEST"
              /\ \A q \in Peer : q # p => g[q] = h[q]
              /\ \A q \in Peer : Priority(g, t, q) = Priority(h, t, q)
            BY <3>1, <3>2, <1>b, SetStateFacts
        <3> QED BY <1>0, <1>2, <2>1, <2>2, <3>2, <3>3 DEF Sane, Has, Selected
    <2>3. CASE ~(Priority(f, t, p) > Priority(f, t, old))
        <3>1. g = SetState(f, p, "READY")
            BY <1>2, <2>3 DEF PromoteCandidateReady
        <3>2. Same(g, p) /\ g[p].state = "READY"
            BY <3>1, <1>a, <1>b
        <3> HIDE DEF g, old
        <3> QED BY <3>2, <1>0, <2>1, <2>3 DEF Sane, Has, Selected
    <2> QED BY <2>2, <2>3
<1>3. CASE /\ ~\E q \in Peer : f[q].state = "READY" /\ Priority(f, t, q) > Priority(f, t, p)
           /\ ~Has(f, "BEST")
    <2>2. CASE Has(f, "REQUESTED")
        <3>1. g = SetState(f, p, "READY")
            BY <1>3, <2>2 DEF PromoteCandidateReady
        <3>2. Same(g, p) /\ g[p].state = "READY"
            BY <3>1, <1>a, <1>b
        <3> HIDE DEF g
        <3> QED BY <3>2, <2>2, <1>0, <1>3 DEF Sane, Has, Selected
    <2>3. CASE ~Has(f, "REQUESTED")
        <3>1. g = SetState(f, p, "BEST")
            BY <1>3, <2>3 DEF PromoteCandidateReady
        <3>2. Same(g, p) /\ g[p].state = "BEST"
            BY <3>1, <1>a, <1>b
        <3>3. \A q \in Peer : f[q].state \notin Selected /\ f[q].state # "READY"
            BY <2>3, <1>3 DEF Sane, Has, Selected
        <3> HIDE DEF g
        <3> QED BY <3>2, <3>3, <1>0 DEF Sane, Has, Selected
    <2> QED BY <2>2, <2>3
<1> QED BY <1>1, <1>2, <1>3

\* ChangeAndReselect keeps it sane, as long as a non-completed one remains.
LEMMA ReselectSane ==
    ASSUME NEW t \in Tx, NEW f \in [Peer -> Announcement], NEW p \in Peer,
           NEW new \in {"COMPLETED", "DELAYED"},
           Sane(f, t), f[p].state \in Selected \cup {"READY", "DELAYED"},
           new = "COMPLETED" => ~IsOnlyNonCompleted(f, p),
           NEW g \in ChangeAndReselect(f, t, p, new)
    PROVE  /\ g \in [Peer -> Announcement]
           /\ Sane(g, t)
           /\ g[p].state = new
<1>0. /\ \A q \in Peer : Priority(f, t, q) \in Nat
      /\ new \in State
    BY PriorityIsNat DEF State
<1>1. CASE f[p].state \in Selected /\ Has(f, "READY")
    <2>1. PICK top \in TopReady(f, t) : g = SetState(SetState(f, top, "BEST"), p, new)
        BY <1>1 DEF ChangeAndReselect
    <2> DEFINE h == SetState(f, top, "BEST")
    <2>2. /\ top \in Peer /\ f[top].state = "READY" /\ top # p
          /\ \A q \in Peer : f[q].state = "READY" => Priority(f, t, q) <= Priority(f, t, top)
        BY <2>1, <1>1 DEF TopReady, Selected
    <2>3. /\ h \in [Peer -> Announcement] /\ h[top].state = "BEST"
          /\ \A q \in Peer : q # top => h[q] = f[q]
          /\ \A q \in Peer : Priority(h, t, q) = Priority(f, t, q)
        BY <2>2, SetStateFacts DEF State
    <2>4. /\ g \in [Peer -> Announcement] /\ g[p].state = new
          /\ \A q \in Peer : q # p => g[q] = h[q]
          /\ \A q \in Peer : Priority(g, t, q) = Priority(f, t, q)
        BY <2>1, <2>3, <1>0, SetStateFacts
    <2> QED BY <1>0, <1>1, <2>2, <2>3, <2>4 DEF Sane, Has, Selected
<1>2. CASE ~(f[p].state \in Selected /\ Has(f, "READY"))
    <2>1. g = SetState(f, p, new)
        BY <1>2 DEF ChangeAndReselect
    <2>2. /\ g \in [Peer -> Announcement] /\ g[p].state = new
          /\ \A q \in Peer : q # p => g[q] = f[q]
          /\ \A q \in Peer : Priority(g, t, q) = Priority(f, t, q)
        BY <2>1, <1>0, SetStateFacts
    <2>3. g = Nothing \/ \E q \in Peer : g[q].state \notin {"NONE", "COMPLETED"}
        BY <2>2, <1>0 DEF IsOnlyNonCompleted
    <2> QED BY <1>0, <1>2, <2>2, <2>3 DEF Sane, Has, Selected
<1> QED BY <1>1, <1>2

\* No announcements of a transaction pass SanityCheck.
LEMMA NothingSane ==
    ASSUME NEW t \in Tx, TimeAssumption
    PROVE  Nothing \in [Peer -> Announcement] /\ Sane(Nothing, t)
BY TimeAssumption DEF Nothing, NoAnnouncement, Announcement, State, Time, Sane, Has, Selected

\* MakeCompleted keeps the announcements of a transaction sane.
LEMMA MakeCompletedSane ==
    ASSUME NEW t \in Tx, NEW f \in [Peer -> Announcement], NEW p \in Peer,
           Sane(f, t), NEW g \in MakeCompleted(f, t, p)
    PROVE  /\ g \in [Peer -> Announcement]
           /\ Sane(g, t)
           /\ g[p].state \in {"NONE", "COMPLETED"}
<1>1. CASE f[p].state \in {"NONE", "COMPLETED"}
    BY <1>1 DEF MakeCompleted
<1>2. CASE f[p].state \notin {"NONE", "COMPLETED"} /\ IsOnlyNonCompleted(f, p)
    <2>1. g = Nothing
        BY <1>2 DEF MakeCompleted
    <2> QED BY <2>1, NothingSane, TimeAssumption DEF Nothing, NoAnnouncement
<1>3. CASE f[p].state \notin {"NONE", "COMPLETED"} /\ ~IsOnlyNonCompleted(f, p)
    <2>1. g \in ChangeAndReselect(f, t, p, "COMPLETED")
        BY <1>3 DEF MakeCompleted
    <2>2. f[p].state \in Selected \cup {"READY", "DELAYED"}
        BY <1>3 DEF Announcement, State, Selected
    <2> QED BY <2>1, <2>2, <1>3, ReselectSane
<1> QED BY <1>1, <1>2, <1>3

\* Erasing a completed announcement keeps the others sane.
LEMMA ErasedSane ==
    ASSUME NEW t \in Tx, NEW f \in [Peer -> Announcement], NEW p \in Peer,
           Sane(f, t), f[p].state \in {"NONE", "COMPLETED"}
    PROVE  Erased(f, p) \in [Peer -> Announcement] /\ Sane(Erased(f, p), t)
<1> DEFINE g == Erased(f, p)
<1>c. SUFFICES g \in [Peer -> Announcement] /\ Sane(g, t)
    OBVIOUS
<1>0. NoAnnouncement \in Announcement /\ NoAnnouncement.state = "NONE"
    BY TimeAssumption DEF NoAnnouncement, Announcement, State, Time
<1>1. /\ g \in [Peer -> Announcement] /\ g[p].state = "NONE"
      /\ \A q \in Peer : q # p => g[q] = f[q]
    BY <1>0 DEF Erased
<1>3. f = Nothing => g = Nothing
    BY DEF Erased, Nothing
<1>2. \A q \in Peer : q # p => Priority(g, t, q) = Priority(f, t, q)
    BY <1>1 DEF Priority
<1> HIDE DEF g
<1> QED BY <1>1, <1>2, <1>3 DEF Sane, Has, Selected

\* RequestedTx of the best candidate keeps the announcements sane.
LEMMA RequestedSane ==
    ASSUME NEW t \in Tx, NEW f \in [Peer -> Announcement], NEW p \in Peer,
           NEW expiry \in Time, Sane(f, t), f[p].state \in Candidate
    PROVE  Requested(f, p, expiry) \in [Peer -> Announcement] /\ Sane(Requested(f, p, expiry), t)
<1> DEFINE g == Requested(f, p, expiry)
<1>c. SUFFICES g \in [Peer -> Announcement] /\ Sane(g, t)
    OBVIOUS
<1>1. \A q \in Peer : Superseded(f, q) \in State
    BY DEF Superseded, Announcement, State
<1>2. g \in [Peer -> Announcement] /\ g[p].state = "REQUESTED"
    BY <1>1 DEF Requested, Announcement, State
<1>3. \A q \in Peer : q # p /\ f[p].state = "BEST" => g[q] = f[q]
    BY DEF Requested
<1>4. \A q \in Peer : q # p /\ f[p].state # "BEST" =>
            g[q].state = Superseded(f, q)
    BY DEF Requested, Announcement
<1>5. \A q \in Peer : q # p => g[q].state \notin Selected
    BY <1>3, <1>4 DEF Superseded, Selected, Sane
<1> HIDE DEF g
<1> QED BY <1>2, <1>5 DEF Sane, Has, Selected

\* The expiry of a request is a time.
LEMMA ExpiryIsTime == clock \in Time => Expiry \in Time
BY TimeAssumption DEF Expiry, Time


-----------------------------------------------------------------------------
(* No operation adds an announcement or revives a completed one.           *)

\* PromoteCandidateReady revives no completed announcement.
LEMMA PromoteKeeps ==
    ASSUME NEW t \in Tx, NEW f \in [Peer -> Announcement], NEW p \in Peer, f[p].state = "DELAYED"
    PROVE  Keeps(f, PromoteCandidateReady(f, t, p))
<1>0. ASSUME NEW s \in {"READY", "BEST"} PROVE Keeps(f, SetState(f, p, s))
    <2>1. SetState(f, p, s)[p].state = s /\ \A q \in Peer : q # p => SetState(f, p, s)[q] = f[q]
        BY SetStateFacts DEF State
    <2> QED BY <2>1 DEF Keeps
<1>1. CASE Has(f, "BEST")
    <2> DEFINE old == CHOOSE q \in Peer : f[q].state = "BEST"
               h == SetState(f, old, "READY")
    <2>1. old \in Peer /\ f[old].state = "BEST" /\ old # p
        BY <1>1 DEF Has
    <2>2. PromoteCandidateReady(f, t, p) \in {SetState(f, p, "READY"), SetState(h, p, "BEST")}
        BY <1>1 DEF PromoteCandidateReady
    <2> HIDE DEF old
    <2>3. h \in [Peer -> Announcement] /\ h[old].state = "READY" /\ \A q \in Peer : q # old => h[q] = f[q]
        BY <2>1, SetStateFacts DEF State
    <2> HIDE DEF h
    <2>4. SetState(h, p, "BEST")[p].state = "BEST" /\ \A q \in Peer : q # p => SetState(h, p, "BEST")[q] = h[q]
        BY <2>3, SetStateFacts DEF State
    <2>5. Keeps(f, SetState(h, p, "BEST"))
        BY <2>1, <2>3, <2>4 DEF Keeps
    <2> QED BY <1>0, <2>2, <2>5
<1>2. CASE ~Has(f, "BEST")
    BY <1>0, <1>2 DEF PromoteCandidateReady
<1> QED BY <1>1, <1>2

\* ChangeAndReselect revives no completed announcement.
LEMMA ReselectKeeps ==
    ASSUME NEW t \in Tx, NEW f \in [Peer -> Announcement], NEW p \in Peer,
           NEW new \in {"COMPLETED", "DELAYED"}, f[p].state \notin {"NONE", "COMPLETED"},
           NEW g \in ChangeAndReselect(f, t, p, new)
    PROVE  Keeps(f, g)
<1>1. CASE f[p].state \in Selected /\ Has(f, "READY")
    <2>1. PICK top \in TopReady(f, t) : g = SetState(SetState(f, top, "BEST"), p, new)
        BY <1>1 DEF ChangeAndReselect
    <2> DEFINE h == SetState(f, top, "BEST")
    <2>2. top \in Peer /\ f[top].state = "READY"
        BY <2>1 DEF TopReady
    <2>3. h \in [Peer -> Announcement] /\ \A q \in Peer : q # top => h[q] = f[q]
        BY <2>2, SetStateFacts DEF State
    <2>4. \A q \in Peer : q # p => g[q] = h[q]
        BY <2>1, <2>3, SetStateFacts DEF State
    <2>5. h[top].state = "BEST"
        BY <2>2, SetStateFacts DEF State
    <2> HIDE DEF h
    <2> QED BY <2>2, <2>3, <2>4, <2>5 DEF Keeps
<1>2. CASE ~(f[p].state \in Selected /\ Has(f, "READY"))
    <2>1. g = SetState(f, p, new)
        BY <1>2 DEF ChangeAndReselect
    <2>2. g[p].state = new /\ \A q \in Peer : q # p => g[q] = f[q]
        BY <2>1, SetStateFacts DEF State
    <2> QED BY <2>2 DEF Keeps
<1> QED BY <1>1, <1>2

\* Forgetting a transaction revives nothing.
LEMMA NothingKeeps == ASSUME NEW f PROVE Keeps(f, Nothing)
BY DEF Keeps, Nothing, NoAnnouncement

\* MakeCompleted revives no completed announcement.
LEMMA MakeCompletedKeepsAll ==
    ASSUME NEW t \in Tx, NEW f \in [Peer -> Announcement], NEW p \in Peer,
           NEW g \in MakeCompleted(f, t, p)
    PROVE  Keeps(f, g)
<1>1. CASE f[p].state \in {"NONE", "COMPLETED"}
    BY <1>1 DEF MakeCompleted, Keeps
<1>2. CASE f[p].state \notin {"NONE", "COMPLETED"} /\ IsOnlyNonCompleted(f, p)
    BY <1>2, NothingKeeps DEF MakeCompleted
<1>3. CASE f[p].state \notin {"NONE", "COMPLETED"} /\ ~IsOnlyNonCompleted(f, p)
    BY <1>3, ReselectKeeps DEF MakeCompleted
<1> QED BY <1>1, <1>2, <1>3

\* Erasing an announcement revives nothing.
LEMMA ErasedKeeps ==
    ASSUME NEW f \in [Peer -> Announcement], NEW g \in [Peer -> Announcement], NEW p \in Peer, Keeps(f, g)
    PROVE  Keeps(f, Erased(g, p)) /\ Erased(g, p)[p].state = "NONE"
BY DEF Keeps, Erased, NoAnnouncement

\* RequestedTx revives no completed announcement.
LEMMA RequestedKeeps ==
    ASSUME NEW f \in [Peer -> Announcement], NEW p \in Peer, NEW expiry \in Time,
           f[p].state \in Candidate
    PROVE  Keeps(f, Requested(f, p, expiry))
<1> DEFINE g == Requested(f, p, expiry)
<1>1. \A q \in Peer : q # p => g[q].state \in {f[q].state, Superseded(f, q)}
    BY DEF Requested, Announcement
<1>2. \A q \in Peer : f[q].state \in {"NONE", "COMPLETED"} => Superseded(f, q) = f[q].state
    BY DEF Superseded
<1>3. SUFFICES Keeps(f, g)
    OBVIOUS
<1> HIDE DEF g
<1> QED BY <1>1, <1>2 DEF Keeps, Candidate

-----------------------------------------------------------------------------
(* The induction.                                                          *)

\* What a step may do to the announcements.
Typed == ann' \in [Tx -> [Peer -> Announcement]]
Kept == \A t \in Tx, p \in Peer :
            /\ ann[t][p].state = "COMPLETED" => ann'[t][p].state \in {"COMPLETED", "NONE"}
            /\ p \in gone /\ ann[t][p].state = "NONE" => ann'[t][p].state = "NONE"
Ok == Typed /\ SanityCheck' /\ Kept

\* One transaction's announcements are replaced by typed and sane ones.
LEMMA ReplaceOk ==
    ASSUME TrackerIsSane, NEW t \in Tx, NEW f \in [Peer -> Announcement], Sane(f, t), Replace(t, f)
    PROVE  /\ Typed /\ SanityCheck'
           /\ ann'[t] = f /\ \A u \in Tx : u # t => ann'[u] = ann[u]
<1>1. Typed /\ ann'[t] = f /\ \A u \in Tx : u # t => ann'[u] = ann[u]
    BY DEF Replace, TrackerIsSane, TypeOK, Typed
<1>2. ASSUME NEW u \in Tx PROVE Sane(ann'[u], u)
    BY <1>1 DEF TrackerIsSane, SanityCheck
<1> QED BY <1>1, <1>2 DEF SanityCheck

\* Putting new announcements of a transaction in place is a step that NotAskedTwice
\* allows.
LEMMA ReplaceKeeps ==
    ASSUME TrackerIsSane, NEW t \in Tx, NEW f \in [Peer -> Announcement], Sane(f, t), Replace(t, f),
           Keeps(ann[t], f)
    PROVE  Ok
<1>1. /\ Typed /\ SanityCheck'
      /\ ann'[t] = f /\ \A u \in Tx : u # t => ann'[u] = ann[u]
    BY ReplaceOk
<1> QED BY <1>1 DEF Ok, Kept, Keeps

\* ChangeAndReselect makes nobody wait but the announcement it is called for,
\* and that one at its old time.
LEMMA ReselectWaits ==
    ASSUME NEW t \in Tx, NEW f \in [Peer -> Announcement], NEW p \in Peer,
           f[p].state \in Selected \cup {"READY", "DELAYED"},
           NEW g \in ChangeAndReselect(f, t, p, "DELAYED")
    PROVE  /\ \A q \in Peer : g[q].state \in Waiting => q = p \/ g[q] = f[q]
           /\ g[p].time = f[p].time
<1>1. CASE f[p].state \in Selected /\ Has(f, "READY")
    <2>1. PICK top \in TopReady(f, t) : g = SetState(SetState(f, top, "BEST"), p, "DELAYED")
        BY <1>1 DEF ChangeAndReselect
    <2> DEFINE h == SetState(f, top, "BEST")
    <2>2. top \in Peer /\ f[top].state = "READY" /\ top # p
        BY <2>1, <1>1 DEF TopReady, Selected
    <2>3. /\ h \in [Peer -> Announcement] /\ h[top].state = "BEST"
          /\ \A q \in Peer : q # top => h[q] = f[q]
        BY <2>2, SetStateFacts DEF State
    <2>4. /\ \A q \in Peer : q # p => g[q] = h[q]
          /\ g[p].time = h[p].time
        BY <2>1, <2>3 DEF SetState, State, Announcement
    <2> QED BY <2>2, <2>3, <2>4 DEF Waiting
<1>2. CASE ~(f[p].state \in Selected /\ Has(f, "READY"))
    <2>1. g = SetState(f, p, "DELAYED")
        BY <1>2 DEF ChangeAndReselect
    <2> QED BY <2>1 DEF SetState, Announcement
<1> QED BY <1>1, <1>2

\* TrackerIsSane holds initially.
LEMMA InitInv == Init => TrackerIsSane
<1> SUFFICES ASSUME Init PROVE TrackerIsSane
    OBVIOUS
<1>1. \A t \in Tx : Nothing \in [Peer -> Announcement] /\ Sane(Nothing, t)
    BY NothingSane, TimeAssumption
<1>2. ann \in [Tx -> [Peer -> Announcement]] /\ \A t \in Tx : ann[t] = Nothing
    BY <1>1 DEF Init
<1>3. Idle \in Op /\ Idle.loop = "none"
    BY PeerAssumption DEF Idle, Op
<1>4. TypeOK
    BY <1>2, <1>3, TimeAssumption DEF Init, TypeOK, Time, Op
<1> QED BY <1>1, <1>2, <1>3, <1>4 DEF TrackerIsSane, SanityCheck, NoneIsDue, AskedAreBest, GoneIsForgotten, Init

\* Every step keeps TrackerIsSane, and what NotAskedTwice says.
LEMMA StepInv == TrackerIsSane /\ [Next]_vars => TrackerIsSane' /\ Kept
<1> SUFFICES ASSUME TrackerIsSane, [Next]_vars PROVE TrackerIsSane' /\ Kept
    OBVIOUS
<1>0. /\ \A t \in Tx : ann[t] \in [Peer -> Announcement] /\ Sane(ann[t], t)
      /\ clock \in Time /\ back \in 0 .. MaxBack /\ gone \subseteq Peer
      /\ op \in Op /\ op.peer \in Peer /\ op.todo \subseteq Tx
    BY DEF TrackerIsSane, TypeOK, SanityCheck, Op
<1> DEFINE Rest == /\ clock' \in Time /\ back' \in 0 .. MaxBack /\ gone' \subseteq Peer
                   /\ op' \in Op
                   /\ NoneIsDue' /\ AskedAreBest' /\ GoneIsForgotten'
<1>a. SUFFICES Ok /\ Rest
    BY DEF TrackerIsSane, TypeOK, Ok, Typed, Op
<1>b. ASSUME ann' = ann PROVE Ok
    BY <1>b, <1>0 DEF SanityCheck, TrackerIsSane, TypeOK, Ok, Typed, Kept
<1>d. ASSUME Ok, gone' = gone, op.loop # "disconnect" PROVE GoneIsForgotten'
    BY <1>d, <1>0 DEF GoneIsForgotten, TrackerIsSane, Ok, Kept
<1>c. ASSUME Ok, UNCHANGED <<clock, back, gone, op>>, op.loop \notin {"disconnect", "request", "demote"} PROVE Rest
    BY <1>c, <1>0, <1>d DEF AskedAreBest, NoneIsDue
<1>1. ASSUME NEW p \in Peer, NEW t \in Tx, NEW preferred \in BOOLEAN, NEW reqtime \in Time,
             ReceivedInv(p, t, preferred, reqtime)
      PROVE  Ok /\ Rest
    <2> DEFINE a == [state |-> "DELAYED", time |-> reqtime, preferred |-> preferred]
               f == ann[t]
               g == [f EXCEPT ![p] = a]
    <2>1. f[p].state = "NONE" /\ Replace(t, g) /\ p \notin gone
        BY <1>1 DEF ReceivedInv
    <2>2. a \in Announcement /\ a.state = "DELAYED"
        BY DEF Announcement, State
    <2>3. /\ g \in [Peer -> Announcement] /\ g[p].state = "DELAYED"
          /\ \A q \in Peer : q # p => g[q] = f[q]
        BY <1>0, <2>2
    <2>4. \A q \in Peer : q # p => Priority(g, t, q) = Priority(f, t, q)
        BY <2>3 DEF Priority
    <2>5. Sane(f, t) /\ f \in [Peer -> Announcement]
        BY <1>0
    <2> HIDE DEF g
    <2>6. Sane(g, t)
        BY <2>1, <2>3, <2>4, <2>5 DEF Sane, Has, Selected
    <2>7. /\ Typed /\ SanityCheck'
          /\ ann'[t] = g /\ \A u \in Tx : u # t => ann'[u] = ann[u]
        BY <2>1, <2>3, <2>6, ReplaceOk
    <2>8. Ok
        BY <2>1, <2>3, <2>7 DEF Ok, Kept
    <2> QED BY <2>8, <1>1, <1>c DEF ReceivedInv, Quiet
<1>2. ASSUME NEW p \in Peer, NEW t \in Tx, ReceivedResponse(p, t)
      PROVE  Ok /\ Rest
    <2>1. PICK f \in MakeCompleted(ann[t], t, p) : Replace(t, f)
        BY <1>2 DEF ReceivedResponse
    <2>2. Ok
        BY <2>1, <1>0, MakeCompletedSane, MakeCompletedKeepsAll, ReplaceKeeps
    <2> QED BY <2>2, <1>2, <1>c DEF ReceivedResponse, Quiet
<1>3. ASSUME NEW p \in Peer, NEW t \in Tx, NEW expiry \in Time, RequestedTx(p, t, expiry)
      PROVE  Ok /\ Rest
    <2>1. Ok
        BY <1>0, <1>3, RequestedSane, RequestedKeeps, ReplaceKeeps DEF RequestedTx
    <2> QED BY <2>1, <1>3, <1>c DEF RequestedTx, Quiet
<1>4. ASSUME NEW t \in Tx, ForgetTxHash(t) PROVE Ok /\ Rest
    <2>1. Ok
        BY <1>0, <1>4, NothingSane, TimeAssumption, NothingKeeps, ReplaceKeeps DEF ForgetTxHash
    <2> QED BY <2>1, <1>4, <1>c DEF ForgetTxHash, Quiet
<1>5. ASSUME NEW p \in Peer, DisconnectedPeer(p) PROVE Ok /\ Rest
    <2>1. /\ op' = [loop |-> "disconnect", peer |-> p, todo |-> {t \in Tx : ann[t][p].state # "NONE"}]
          /\ gone' = gone \cup {p} /\ UNCHANGED <<ann, clock, back>> /\ op.loop = "none"
        BY <1>5 DEF DisconnectedPeer, Quiet
    <2>2. op' \in Op /\ op'.loop = "disconnect" /\ op'.peer = p
          /\ op'.todo = {t \in Tx : ann[t][p].state # "NONE"}
        BY <2>1 DEF Op
    <2>3. GoneIsForgotten'
        BY <2>1, <2>2 DEF GoneIsForgotten, TrackerIsSane
    <2> QED BY <2>1, <2>2, <2>3, <1>0, <1>b DEF AskedAreBest, NoneIsDue
<1>6. ASSUME NEW p \in Peer, GetRequestable(p) PROVE Ok /\ Rest
    <2>1. op' \in Op /\ op'.loop = "promote" /\ op.loop = "none"
        BY <1>6 DEF GetRequestable, Quiet, Op
    <2> QED BY <2>1, <1>6, <1>0, <1>b, <1>d DEF GetRequestable, AskedAreBest, NoneIsDue
<1>7. ASSUME NEW t \in Tx, DisconnectStep(t) PROVE Ok /\ Rest
    <2>1. PICK f \in MakeCompleted(ann[t], t, op.peer) : Replace(t, Erased(f, op.peer))
        BY <1>7 DEF DisconnectStep
    <2>2. /\ f \in [Peer -> Announcement] /\ Sane(f, t) /\ Keeps(ann[t], f)
          /\ f[op.peer].state \in {"NONE", "COMPLETED"}
        BY <2>1, <1>0, MakeCompletedSane, MakeCompletedKeepsAll
    <2> DEFINE g == Erased(f, op.peer)
    <2>3. /\ g \in [Peer -> Announcement] /\ Sane(g, t)
          /\ Keeps(ann[t], g) /\ g[op.peer].state = "NONE"
        BY <2>2, <1>0, ErasedSane, ErasedKeeps
    <2>4. Replace(t, g)
        BY <2>1
    <2> HIDE DEF g
    <2>5. Ok /\ ann'[t] = g
        BY <2>3, <2>4, ReplaceOk, ReplaceKeeps
    <2>6. /\ op.loop = "disconnect" /\ UNCHANGED <<clock, back, gone>>
          /\ op' \in Op /\ op'.loop = op.loop /\ op'.peer = op.peer /\ op'.todo = op.todo \ {t}
        BY <1>7, <1>0 DEF DisconnectStep, Op
    <2>7. GoneIsForgotten'
        BY <2>3, <2>5, <2>6, <1>0 DEF GoneIsForgotten, TrackerIsSane, Ok, Kept
    <2> QED BY <2>5, <2>6, <2>7, <1>0 DEF AskedAreBest, NoneIsDue
<1>8. ASSUME NEW t \in Tx, RequestStep(t) PROVE Ok /\ Rest
    <2>1. /\ op.loop = "request" /\ t \in op.todo /\ UNCHANGED <<clock, back, gone>>
          /\ op' \in Op /\ op'.loop = op.loop /\ op'.peer = op.peer /\ op'.todo = op.todo \ {t}
        BY <1>8, <1>0 DEF RequestStep, Op
    <2>2. /\ ann[t][op.peer].state \in Candidate
          /\ Expiry \in Time
        BY <2>1, <1>0, ExpiryIsTime DEF TrackerIsSane, AskedAreBest, Candidate
    <2>3. PICK f \in {Nothing, Requested(ann[t], op.peer, Expiry)} : Replace(t, f)
        BY <1>8 DEF RequestStep
    <2>4. f \in [Peer -> Announcement] /\ Sane(f, t) /\ Keeps(ann[t], f)
        BY <2>2, <2>3, <1>0, NothingSane, TimeAssumption, NothingKeeps, RequestedSane, RequestedKeeps
    <2>5. Ok /\ \A u \in Tx : u # t => ann'[u] = ann[u]
        BY <2>3, <2>4, ReplaceOk, ReplaceKeeps
    <2>6. AskedAreBest'
        BY <2>1, <2>5, <1>0 DEF AskedAreBest, TrackerIsSane
    <2> QED BY <2>1, <2>5, <2>6, <1>0, <1>d DEF NoneIsDue
<1>9. ASSUME NEW p \in Peer, NEW t \in Tx, PromoteStep(p, t) PROVE Ok /\ Rest
    <2>1. CASE ann[t][p].state = "DELAYED"
        <3>1. Ok
            BY <2>1, <1>0, <1>9, PromoteSane, PromoteKeeps, ReplaceKeeps DEF PromoteStep
        <3> QED BY <3>1, <1>9, <1>c DEF PromoteStep
    <2>2. CASE ann[t][p].state # "DELAYED"
        <3>1. PICK f \in MakeCompleted(ann[t], t, p) : Replace(t, f)
            BY <2>2, <1>9 DEF PromoteStep
        <3>2. Ok
            BY <3>1, <1>0, MakeCompletedSane, MakeCompletedKeepsAll, ReplaceKeeps
        <3> QED BY <3>2, <1>9, <1>c DEF PromoteStep
    <2> QED BY <2>1, <2>2
<1>10. ASSUME NEW p \in Peer, NEW t \in Tx, DemoteStep(p, t) PROVE Ok /\ Rest
    <2>1. PICK f \in ChangeAndReselect(ann[t], t, p, "DELAYED") : Replace(t, f)
        BY <1>10 DEF DemoteStep
    <2>2. /\ ann[t][p].state \in Selected \cup {"READY", "DELAYED"}
          /\ ann[t][p].state \notin {"NONE", "COMPLETED"}
        BY <1>10 DEF DemoteStep, Early, Selectable, Selected
    <2>3. f \in [Peer -> Announcement] /\ Sane(f, t) /\ Keeps(ann[t], f)
        BY <2>1, <2>2, <1>0, ReselectSane, ReselectKeeps
    <2>4. Ok /\ ann'[t] = f /\ \A u \in Tx : u # t => ann'[u] = ann[u]
        BY <2>1, <2>3, ReplaceOk, ReplaceKeeps
    <2>5. /\ op.loop = "demote" /\ UNCHANGED <<clock, back, gone, op>>
          /\ ann[t][p].time > clock
        BY <1>10 DEF DemoteStep, Early
    <2>6. \A q \in Peer : f[q].state \in Waiting => q = p \/ f[q] = ann[t][q]
        BY <2>1, <2>2, <1>0, ReselectWaits
    <2>7. f[p].time = ann[t][p].time
        BY <2>1, <2>2, <1>0, ReselectWaits
    <2>8. NoneIsDue'
        BY <2>3, <2>4, <2>5, <2>6, <2>7, <1>0 DEF NoneIsDue, Due, TrackerIsSane, Announcement, Time
    <2> QED BY <2>4, <2>5, <2>8, <1>0, <1>d DEF AskedAreBest
<1>11. ASSUME PromoteEnd PROVE Ok /\ Rest
    <2>1. op' \in Op /\ op'.loop = "demote" /\ op.loop = "promote"
        BY <1>11, <1>0 DEF PromoteEnd, Op
    <2> QED BY <2>1, <1>11, <1>0, <1>b, <1>d DEF PromoteEnd, AskedAreBest, NoneIsDue, Due
<1>12. ASSUME DemoteEnd PROVE Ok /\ Rest
    <2>1. /\ op' \in Op /\ op.loop = "demote" /\ op'.loop = "request" /\ op'.peer = op.peer
          /\ op'.todo = {t \in Tx : ann[t][op.peer].state = "BEST"}
        BY <1>12, <1>0 DEF DemoteEnd, Op
    <2> QED BY <2>1, <1>12, <1>0, <1>b, <1>d DEF DemoteEnd, AskedAreBest, NoneIsDue
<1>13. ASSUME CallEnd PROVE Ok /\ Rest
    <2>1. /\ op' \in Op /\ op'.loop = "none" /\ op.todo = {}
          /\ UNCHANGED <<ann, clock, back, gone>>
        BY <1>13, PeerAssumption DEF CallEnd, Idle, Op
    <2>2. GoneIsForgotten'
        BY <2>1 DEF GoneIsForgotten, TrackerIsSane
    <2> QED BY <2>1, <2>2, <1>0, <1>b DEF AskedAreBest, NoneIsDue
<1>14. ASSUME Tick \/ SetBack PROVE Ok /\ Rest
    <2>1. /\ UNCHANGED <<ann, gone, op>> /\ op.loop = "none"
          /\ clock' \in Time /\ back' \in 0 .. MaxBack
        BY <1>14, <1>0, TimeAssumption DEF Tick, SetBack, Time, Quiet
    <2> QED BY <2>1, <1>0, <1>b, <1>d DEF AskedAreBest, NoneIsDue
<1>15. ASSUME UNCHANGED vars PROVE Ok /\ Rest
    <2>1. NoneIsDue' /\ AskedAreBest' /\ GoneIsForgotten'
        BY <1>15 DEF vars, NoneIsDue, Due, AskedAreBest, GoneIsForgotten, TrackerIsSane
    <2> QED BY <2>1, <1>15, <1>b, <1>0 DEF vars
<1> QED
    BY <1>1, <1>2, <1>3, <1>4, <1>5, <1>6, <1>7, <1>8, <1>9, <1>10, <1>11, <1>12, <1>13, <1>14, <1>15
    DEF Next, LoopStep

\* The asserts of TxRequestTracker hold, the transactions GetRequestable returns
\* are still the best when they are asked for, and nothing is left of a
\* disconnected peer (assert(m_txrequest.Size() == 0)), for every number of peers
\* and transactions, every priority function and every clock.
THEOREM TrackerIsSaneHolds == Spec => []TrackerIsSane
BY InitInv, StepInv, PTL DEF Spec

\* A peer whose request was answered or expired is not asked again.
THEOREM NotAskedTwiceHolds == Spec => NotAskedTwice
<1>1. Kept => \A p \in Peer, t \in Tx :
            ann[t][p].state = "COMPLETED" => ann'[t][p].state \in {"COMPLETED", "NONE"}
    BY DEF Kept
<1> QED BY InitInv, StepInv, <1>1, PTL DEF Spec, NotAskedTwice

=============================================================================
