---------------------------- MODULE InternalMiner ----------------------------
(***************************************************************************)
(* The miner inside the node, BlockMining of src/src/node/miner.cpp: the   *)
(* setmining call (Minings), the detached controller thread it starts      *)
(* (GenerateBlocks), the detached workers the controller starts in every   *)
(* iteration (GenerateBlock, ScanHash, ProcessBlockFound), and a message   *)
(* handler that connects blocks of the network.                            *)
(*                                                                         *)
(* m_flag_mining_busy and m_flag_active_threads are read and written       *)
(* without a lock in several places.  m_flag_active_threads is a           *)
(* vector<bool>: writing one flag loads a word of flags and stores it      *)
(* back, so every write is two steps here, with g_lock held or not as the  *)
(* code has it.  The tip is a number that grows with every new tip.        *)
(***************************************************************************)
EXTENDS Integers, FiniteSets

CONSTANTS
    ProcLimits,     \* values of nGenProcLimit; every call passes the same one
    Controller,     \* controller threads
    Worker,         \* worker threads, detached and never joined
    Caller,         \* RPC threads
    SleepIsEnough,  \* every new worker runs before the controller's Sleep(1000) ends
    MaxOn, MaxOff,  \* bounds on the setmining calls
    MaxTip          \* bound on the tips

ASSUME MinerAssumption ==
    /\ ProcLimits \subseteq Nat \ {0} /\ SleepIsEnough \in BOOLEAN
    /\ MaxOn \in Nat /\ MaxOff \in Nat /\ MaxTip \in Nat

VARIABLES
    busy,       \* m_flag_mining_busy
    active,     \* m_flag_active_threads, all of one word
    size,       \* its size
    gLock,      \* owner of g_lock
    csMain,     \* owner of cs_main
    chainMutex, \* owner of m_chainstate_mutex
    tip,        \* the active tip
    mined,      \* parents of the blocks of this miner that were connected
    ctl,        \* state of each controller
    work,       \* state of each worker
    net,        \* state of the message handler
    call,       \* state of each RPC thread
    used        \* setmining calls so far, and the limit they pass

vars == <<busy, active, size, gLock, csMain, chainMutex, tip, mined, ctl, work, net, call, used>>
locks == <<gLock, csMain, chainMutex>>
flags == <<active, size>>

Nobody == "nobody"
ProcLimit == used.limit
Slot == 0 .. ProcLimit - 1
NoWorker == [pc |-> "none", th |-> 0, prev |-> 0, parent |-> 0, word |-> [n \in Slot |-> FALSE]]

At(w, label) == work[w].pc = label
Go(w, label) == work' = [work EXCEPT ![w].pc = label]
Live == {w \in Worker : work[w].pc # "none"}

-----------------------------------------------------------------------------
(* Minings: setmining true or false, from any RPC thread.                  *)

TurnOff ==
    /\ used.off < MaxOff
    /\ busy' = FALSE
    /\ used' = [used EXCEPT !.off = @ + 1]
    /\ UNCHANGED <<flags, locks, tip, mined, ctl, work, net, call>>

\* The check and the assignment of m_flag_mining_busy are two steps.
TurnOn(r) ==
    /\ call[r] = "idle" /\ used.on < MaxOn
    /\ ~busy
    /\ call' = [call EXCEPT ![r] = "set"]
    /\ used' = [used EXCEPT !.on = @ + 1]
    /\ UNCHANGED <<busy, flags, locks, tip, mined, ctl, work, net>>

StartController(r, c) ==
    /\ call[r] = "set"
    /\ ctl[c].pc = "none"
    /\ busy' = TRUE
    /\ ctl' = [ctl EXCEPT ![c] = [pc |-> "clear", n |-> 0]]
    /\ call' = [call EXCEPT ![r] = "idle"]
    /\ UNCHANGED <<flags, locks, tip, mined, work, net, used>>

-----------------------------------------------------------------------------
(* GenerateBlocks.                                                         *)

ControllerGoes(c, label) == ctl' = [ctl EXCEPT ![c].pc = label]

Clear(c) ==
    /\ ctl[c].pc = "clear"
    /\ size' = 0
    /\ ControllerGoes(c, "cleared")
    /\ UNCHANGED <<busy, active, locks, tip, mined, work, net, call, used>>

\* The push_back loop, one slot at a time; the assert on an empty vector is
\* before the first.
PushBack(c) ==
    /\ ctl[c].pc \in {"cleared", "push"}
    /\ size' = size + 1
    /\ active' = [n \in Slot |-> IF n = size THEN TRUE ELSE active[n]]
    /\ ctl' = [ctl EXCEPT ![c] = [pc |-> IF @.n + 1 = ProcLimit THEN "while" ELSE "push", n |-> @.n + 1]]
    /\ UNCHANGED <<busy, locks, tip, mined, work, net, call, used>>

\* while (m_flag_mining_busy)
While(c) ==
    /\ ctl[c].pc = "while"
    /\ ControllerGoes(c, IF busy THEN "wait" ELSE "none")
    /\ UNCHANGED <<busy, flags, locks, tip, mined, work, net, call, used>>

\* Mutant of WaitDone: the flags are not waited for.
WaitDoneNever(c) ==
    /\ ctl[c].pc = "wait"
    /\ ControllerGoes(c, IF busy THEN "spawn" ELSE "none")
    /\ UNCHANGED <<busy, flags, locks, tip, mined, work, net, call, used>>

\* The wait for all flags, by polling; then the second look at busy.
WaitDone(c) ==
    /\ ctl[c].pc = "wait"
    /\ SleepIsEnough => \A w \in Worker : work[w].pc \notin {"start", "started"}
    /\ \A n \in Slot : active[n] \/ n >= size     \* past the end: anything is read
    /\ ControllerGoes(c, IF busy THEN "spawn" ELSE "none")
    /\ UNCHANGED <<busy, flags, locks, tip, mined, work, net, call, used>>

Spawn(c) ==
    /\ ctl[c].pc = "spawn"
    /\ gLock = Nobody
    /\ \E new \in [Slot -> Worker \ Live] :
        /\ \A m, n \in Slot : m # n => new[m] # new[n]
        /\ work' = [w \in Worker |->
                        IF \E n \in Slot : new[n] = w
                        THEN [NoWorker EXCEPT !.pc = "start", !.th = CHOOSE n \in Slot : new[n] = w]
                        ELSE work[w]]
    /\ ControllerGoes(c, "while")
    /\ UNCHANGED <<busy, flags, locks, tip, mined, net, call, used>>

-----------------------------------------------------------------------------
(* GenerateBlock.  "load" and "store" are the two halves of a write of the *)
(* worker's flag; the locked form holds g_lock from one to the other.      *)

\* The store half, for the flag of worker w.
Flagged(w, value) == active' = [n \in Slot |-> IF n = work[w].th THEN value ELSE work[w].word[n]]

\* Begin a locked write; the worker goes on at label.
LoadLocked(w, label) ==
    /\ gLock = Nobody
    /\ gLock' = w
    /\ work' = [work EXCEPT ![w] = [@ EXCEPT !.pc = label, !.prev = 0, !.parent = 0, !.word = active]]

\* A worker begins: m_flag_active_threads[th] = false.
StartWorker(w) ==
    /\ At(w, "start")
    /\ LoadLocked(w, "started")
    /\ UNCHANGED <<busy, flags, csMain, chainMutex, tip, mined, ctl, net, call, used>>

Started(w) ==
    /\ At(w, "started")
    /\ Flagged(w, FALSE)
    /\ gLock' = Nobody
    /\ work' = [work EXCEPT ![w].pc = "loop", ![w].word = NoWorker.word]
    /\ UNCHANGED <<busy, size, csMain, chainMutex, tip, mined, ctl, net, call, used>>

\* while (m_flag_mining_busy): the tip is read before the template is made.
Loop(w) ==
    /\ At(w, "loop")
    /\ work' = [work EXCEPT ![w] = [@ EXCEPT !.pc = IF busy THEN "template" ELSE "quit",
                                             !.prev = tip, !.parent = 0]]
    /\ UNCHANGED <<busy, flags, locks, tip, mined, ctl, net, call, used>>

\* CreateNewBlock, under cs_main, on the tip of that moment.
CreateNewBlock(w) ==
    /\ At(w, "template")
    /\ csMain = Nobody
    /\ work' = [work EXCEPT ![w].pc = "scan", ![w].parent = tip]
    /\ UNCHANGED <<busy, flags, locks, tip, mined, ctl, net, call, used>>

\* No peers, initial download, no template, new transactions, shutdown: the
\* worker gives up its turn.
GiveUp(w) ==
    /\ work[w].pc \in {"template", "scan"}
    /\ Go(w, "quit")
    /\ UNCHANGED <<busy, flags, locks, tip, mined, ctl, net, call, used>>

\* A runtime_error (TestBlockValidity in CreateNewBlock): mining goes off.
Throw(w) ==
    /\ At(w, "template")
    /\ gLock = Nobody
    /\ busy' = FALSE
    /\ Go(w, "quit")
    /\ UNCHANGED <<flags, locks, tip, mined, ctl, net, call, used>>

\* ScanHash without success, and the looks at the flags after it.  Exit A
\* writes the flag without g_lock, exit B finds it written already.
ScanHash(w) ==
    /\ At(w, "scan")
    /\ \/ ~busy /\ Go(w, "load")
       \/ busy /\ gLock = Nobody /\ active[work[w].th] /\ work' = [work EXCEPT ![w] = NoWorker]
       \/ Go(w, "loop")       \* the nonces are exhausted, or the inner while ends
    /\ UNCHANGED <<busy, flags, locks, tip, mined, ctl, net, call, used>>

\* The look at the tip under cs_main; when it has moved, g_lock is taken with
\* cs_main held.
LookAtTip(w) ==
    /\ At(w, "scan")
    /\ csMain = Nobody
    /\ work[w].prev # tip
    /\ csMain' = w
    /\ Go(w, "stale")
    /\ UNCHANGED <<busy, flags, gLock, chainMutex, tip, mined, ctl, net, call, used>>

\* A locked write of true at the end of a turn, with cs_main held or not.
Quit(w) ==
    /\ work[w].pc \in {"quit", "stale"}
    /\ LoadLocked(w, "quitting")
    /\ UNCHANGED <<busy, flags, csMain, chainMutex, tip, mined, ctl, net, call, used>>

Quitting(w) ==
    /\ At(w, "quitting")
    /\ Flagged(w, TRUE)
    /\ gLock' = Nobody
    /\ csMain' = IF csMain = w THEN Nobody ELSE csMain
    /\ work' = [work EXCEPT ![w] = NoWorker]
    /\ UNCHANGED <<busy, size, chainMutex, tip, mined, ctl, net, call, used>>

\* A hash below the target: g_lock, then cs_main, then ProcessBlockFound.
Found(w) ==
    /\ At(w, "scan")
    /\ gLock = Nobody
    /\ gLock' = w
    /\ Go(w, "found")
    /\ UNCHANGED <<busy, flags, csMain, chainMutex, tip, mined, ctl, net, call, used>>

FoundLockMain(w) ==
    /\ At(w, "found")
    /\ csMain = Nobody
    /\ csMain' = w
    /\ Go(w, "submit")
    /\ UNCHANGED <<busy, flags, gLock, chainMutex, tip, mined, ctl, net, call, used>>

\* Mutant of IsStale: the tip is not looked at again.
IsStaleNever(w) == FALSE

\* "Mining Generated block is stale"
IsStale(w) == work[w].parent # tip

\* The end of the scope of both locks.
Release(w) == gLock' = Nobody /\ csMain' = Nobody /\ Go(w, "load")

\* ProcessBlockFound, with both locks held.  ProcessNewBlock takes
\* m_chainstate_mutex and connects the block, or refuses it.
ProcessBlockFound(w) ==
    /\ At(w, "submit")
    /\ \/ UNCHANGED <<tip, mined>>
       \/ /\ ~IsStale(w) /\ tip < MaxTip
          /\ tip' = tip + 1
          /\ mined' = mined \cup {work[w].parent}
    /\ IsStale(w) \/ chainMutex = Nobody
    /\ Release(w)
    /\ UNCHANGED <<busy, flags, chainMutex, ctl, net, call, used>>

\* The write of the flag without g_lock, after a block or at exit A.
Load(w) ==
    /\ At(w, "load")
    /\ work' = [work EXCEPT ![w] = [@ EXCEPT !.pc = "store", !.prev = 0, !.parent = 0, !.word = active]]
    /\ UNCHANGED <<busy, flags, locks, tip, mined, ctl, net, call, used>>

Store(w) ==
    /\ At(w, "store")
    /\ Flagged(w, TRUE)
    /\ work' = [work EXCEPT ![w] = NoWorker]
    /\ UNCHANGED <<busy, size, locks, tip, mined, ctl, net, call, used>>

-----------------------------------------------------------------------------
(* A message handler in ProcessNewBlock: m_chainstate_mutex, then cs_main. *)

NetBegin ==
    /\ net = "idle" /\ chainMutex = Nobody /\ tip < MaxTip
    /\ chainMutex' = "net"
    /\ net' = "activate"
    /\ UNCHANGED <<busy, flags, gLock, csMain, tip, mined, ctl, work, call, used>>

NetConnect ==
    /\ net = "activate" /\ csMain = Nobody
    /\ chainMutex' = Nobody
    /\ tip' = IF tip < MaxTip THEN tip + 1 ELSE tip
    /\ net' = "idle"
    /\ UNCHANGED <<busy, flags, gLock, csMain, mined, ctl, work, call, used>>

-----------------------------------------------------------------------------

Init ==
    /\ busy = FALSE
    /\ used \in [on : {0}, off : {0}, limit : ProcLimits]
    /\ active = [n \in Slot |-> FALSE] /\ size = 0
    /\ gLock = Nobody /\ csMain = Nobody /\ chainMutex = Nobody
    /\ tip = 0 /\ mined = {}
    /\ ctl = [c \in Controller |-> [pc |-> "none", n |-> 0]]
    /\ work = [w \in Worker |-> NoWorker]
    /\ net = "idle"
    /\ call = [r \in Caller |-> "idle"]

ControllerNext(c) == Clear(c) \/ PushBack(c) \/ While(c) \/ WaitDone(c) \/ Spawn(c)
WorkerNext(w) ==
    \/ StartWorker(w) \/ Started(w) \/ Loop(w) \/ CreateNewBlock(w) \/ GiveUp(w) \/ Throw(w)
    \/ ScanHash(w) \/ LookAtTip(w) \/ Quit(w) \/ Quitting(w)
    \/ Found(w) \/ FoundLockMain(w) \/ ProcessBlockFound(w) \/ Load(w) \/ Store(w)
CallerNext(r) == TurnOn(r) \/ \E c \in Controller : StartController(r, c)

Next ==
    \/ TurnOff
    \/ \E r \in Caller : CallerNext(r)
    \/ \E c \in Controller : ControllerNext(c)
    \/ \E w \in Worker : WorkerNext(w)
    \/ NetBegin \/ NetConnect

Spec == Init /\ [][Next]_vars

\* Every thread keeps running: the scheduler is fair, and so are the locks.
FairSpec ==
    /\ Spec
    /\ \A c \in Controller : WF_vars(ControllerNext(c))
    /\ \A w \in Worker : SF_vars(WorkerNext(w))
    /\ SF_vars(NetConnect)

-----------------------------------------------------------------------------
(* Properties.                                                             *)

TypeOK ==
    /\ busy \in BOOLEAN /\ active \in [Slot -> BOOLEAN] /\ size \in Nat
    /\ tip \in 0 .. MaxTip /\ mined \subseteq 0 .. MaxTip
    /\ {gLock, csMain} \subseteq Worker \cup {Nobody} /\ chainMutex \in {Nobody, "net"}
    /\ \A c \in Controller :
            ctl[c].pc \in {"none", "clear", "cleared", "push", "while", "wait", "spawn"}
    /\ \A w \in Worker :
            /\ gLock = w <=> work[w].pc \in {"started", "quitting", "found", "submit"}
            /\ csMain = w => work[w].pc \in {"stale", "quitting", "submit"}

\* "Set the processor limit for when mining-coins is on" (setmining): with the
\* limit 1 no more than one worker is running.
AtMostProcLimit ==
    ProcLimit = 1 => Cardinality({w \in Live : ~At(w, "start")}) <= ProcLimit

\* A found block is connected only on the tip it was made for: the miner never
\* replaces a tip that another worker or a peer found first (ProcessBlockFound
\* looks at the tip and calls ProcessNewBlock under one cs_main).
MinedOnTip == [][\A p \in mined' \ mined : p = tip]_vars

\* A flag that says its slot is free tells the truth: the one worker of the
\* slot is not hashing.  With more than one worker a write without g_lock may
\* bring back the old flag of another slot, which is in the same word.
FlagIsTrue ==
    ProcLimit = 1 =>
        \A w \in Live : work[w].pc \in {"loop", "template", "scan", "found", "submit"} =>
            ~active[work[w].th]

\* The vectors are never shorter than a flag that is read or written
\* (m_flag_active_threads[th] is not range-checked).
FlagInRange == \A w \in Live : work[w].th < size

\* The flags and the workers they stand for agree: every worker has a flag in
\* range, a free flag has no hashing worker, no more workers run than the limit
\* allows, and g_lock and cs_main are held exactly where the code holds them.
FlagsMatchWorkers == TypeOK /\ AtMostProcLimit /\ FlagIsTrue /\ FlagInRange

-----------------------------------------------------------------------------
(* What does not hold (README, section 4).                                 *)

\* "off to turn off" (setmining): once mining is off for good, no worker runs.
OffTurnsOff == []<>busy \/ <>[](Live = {})

=============================================================================
