------------------------------- MODULE BanMan --------------------------------
(***************************************************************************)
(* The ban list and its file (src/src/banman.cpp, CBanDB).  The list is    *)
(* guarded by m_cs_banned; a dump takes a copy under it and writes the copy*)
(* without it, one dump at a time (dump_mutex), while other threads go on. *)
(* A write may fail, and the node may crash at any step; a clean shutdown  *)
(* is a dump (~BanMan) and then a crash.                                   *)
(***************************************************************************)
EXTENDS Integers, FiniteSets, TLC

CONSTANTS
    Subnet,
    BanThread,         \* threads that call BanMan
    MaxTime            \* bound: ticks of the clock

VARIABLES
    m_banned,          \* subnet -> nBanUntil
    m_is_dirty,
    banFile,           \* banlist.json, readable or not
    clock,
    banPc,             \* of each thread: "idle", "dump", "write"
    banmap,            \* of each thread: the copy it writes
    constructed        \* the constructor, which dumps, has returned

banVars == <<m_banned, m_is_dirty, banFile, clock, banPc, banmap, constructed>>
None == <<>>
NoFile == [readable |-> FALSE, bans |-> None]
FileOf(list) == [readable |-> TRUE, bans |-> list]

\* SweepBanned, and whether it set m_is_dirty.
Swept(list) == [s \in {s \in DOMAIN list : clock <= list[s]} |-> list[s]]
SweptDirty(list, dirty) == dirty \/ Swept(list) # list

\* In the constructor after LoadBanlist; DumpBanlist comes next.
Constructing == {[u \in BanThread |-> IF u = t THEN "dump" ELSE "idle"] : t \in BanThread}
BanInit ==
    /\ banFile = NoFile /\ clock = 0 /\ m_banned = None /\ m_is_dirty = TRUE
    /\ banPc \in Constructing /\ constructed = FALSE
    /\ banmap = [t \in BanThread |-> None]
Idle(t) == constructed /\ banPc[t] = "idle"
-----------------------------------------------------------------------------
\* Calls; each but GetBanned goes on to DumpBanlist.

\* A longer ban replaces a shorter one; otherwise Ban returns.
Ban(t, s, nBanUntil) ==
    /\ Idle(t)
    /\ s \in DOMAIN m_banned => m_banned[s] < nBanUntil
    /\ m_banned' = (s :> nBanUntil) @@ m_banned /\ m_is_dirty' = TRUE
    /\ banPc' = [banPc EXCEPT ![t] = "dump"]
    /\ UNCHANGED <<banFile, clock, banmap, constructed>>
Unban(t, s) ==
    /\ Idle(t) /\ s \in DOMAIN m_banned
    /\ m_banned' = [x \in DOMAIN m_banned \ {s} |-> m_banned[x]] /\ m_is_dirty' = TRUE
    /\ banPc' = [banPc EXCEPT ![t] = "dump"]
    /\ UNCHANGED <<banFile, clock, banmap, constructed>>
ClearBanned(t) ==
    /\ Idle(t)
    /\ m_banned' = None /\ m_is_dirty' = TRUE
    /\ banPc' = [banPc EXCEPT ![t] = "dump"]
    /\ UNCHANGED <<banFile, clock, banmap, constructed>>
GetBanned ==
    /\ constructed
    /\ m_banned' = Swept(m_banned) /\ m_is_dirty' = SweptDirty(m_banned, m_is_dirty)
    /\ UNCHANGED <<banFile, clock, banPc, banmap, constructed>>
\* The scheduler, every DUMP_BANS_INTERVAL.
DumpDue(t) ==
    /\ Idle(t) /\ banPc' = [banPc EXCEPT ![t] = "dump"]
    /\ UNCHANGED <<m_banned, m_is_dirty, banFile, clock, banmap, constructed>>

\* DumpBanlist, under both mutexes: the copy is taken and m_is_dirty reset.
DumpStart(t) ==
    /\ banPc[t] = "dump" /\ \A u \in BanThread : banPc[u] # "write"
    /\ m_banned' = Swept(m_banned)
    /\ IF SweptDirty(m_banned, m_is_dirty)
       THEN /\ m_is_dirty' = FALSE
            /\ banmap' = [banmap EXCEPT ![t] = Swept(m_banned)]
            /\ banPc' = [banPc EXCEPT ![t] = "write"] /\ UNCHANGED constructed
       ELSE /\ banPc' = [banPc EXCEPT ![t] = "idle"] /\ constructed' = TRUE
            /\ UNCHANGED <<m_is_dirty, banmap>>
    /\ UNCHANGED <<banFile, clock>>

\* What m_is_dirty is after a write; mutant: the write decides alone.
DirtyByWrite(good) == ~good
DirtyAfter(good) == m_is_dirty \/ ~good
\* The write, with m_cs_banned free; if it fails the list is dirty again.
DumpWrite(t, good) ==
    /\ banPc[t] = "write"
    /\ banFile' = IF good THEN FileOf(banmap[t]) ELSE banFile
    /\ m_is_dirty' = DirtyAfter(good)
    /\ banPc' = [banPc EXCEPT ![t] = "idle"] /\ banmap' = [banmap EXCEPT ![t] = None]
    /\ constructed' = TRUE
    /\ UNCHANGED <<m_banned, clock>>

\* The file is written in place: a crash amid a write may leave half of it, or
\* all.  LoadBanlist reads what there is.
CrashAndStart ==
    /\ banFile' \in {banFile} \cup UNION {{NoFile, FileOf(banmap[t])} :
                          t \in {t \in BanThread : banPc[t] = "write"}}
    /\ m_banned' = Swept(banFile'.bans)
    /\ m_is_dirty' = SweptDirty(banFile'.bans, ~banFile'.readable)
    /\ banPc' \in Constructing /\ constructed' = FALSE
    /\ banmap' = [t \in BanThread |-> None]
    /\ UNCHANGED clock
Tick ==
    /\ clock < MaxTime /\ clock' = clock + 1
    /\ UNCHANGED <<m_banned, m_is_dirty, banFile, banPc, banmap, constructed>>

BanNext ==
    \/ \E t \in BanThread :
         \/ \E s \in Subnet : Unban(t, s) \/ \E until \in 1 .. MaxTime : Ban(t, s, until)
         \/ ClearBanned(t) \/ DumpDue(t) \/ DumpStart(t) \/ \E good \in BOOLEAN : DumpWrite(t, good)
    \/ GetBanned \/ CrashAndStart \/ Tick
-----------------------------------------------------------------------------
\* m_is_dirty tells the truth: unless it is set, what the file holds, or is about
\* to be given by the one thread that writes, is the list, whichever calls and
\* dumps overlap (DumpBanlist resets the flag with the copy, not with the write).
BanFileIsRight ==
    LET writing == {t \in BanThread : banPc[t] = "write"} IN
    /\ Cardinality(writing) <= 1
    /\ ~m_is_dirty => IF writing = {} THEN banFile = FileOf(m_banned)
                      ELSE \A t \in writing : banmap[t] = m_banned
=============================================================================
