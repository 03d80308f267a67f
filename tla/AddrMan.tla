------------------------------- MODULE AddrMan -------------------------------
(***************************************************************************)
(* The address manager (src/src/addrman.cpp): addresses heard of sit in    *)
(* slots of the new table, up to a limit of slots each, and those that     *)
(* answered in one slot of the tried table.  Every public call holds cs    *)
(* throughout and is one action.                                           *)
(*                                                                         *)
(* Hashes are CONSTANT functions.  Times, attempt counts and services only *)
(* decide whether an entry is terrible, newer, or a collision is over: each*)
(* such test is a free choice, so Attempt_, Connected_ and SetServices_,   *)
(* which change nothing else, are not actions.                             *)
(***************************************************************************)
EXTENDS Integers, Sequences, FiniteSets, SequencesExt, TLC

CONSTANTS
    Addr, Source,
    Asmap,              \* AS maps the node may be started with
    NewBucket,          \* the buckets of the new table
    GetNewBucket,       \* [Asmap -> [Addr \X Source -> NewBucket]]
    GetBucketPosition,  \* [Addr \X NewBucket -> positions], in the new table
    GetTriedSlot,       \* [Asmap -> [Addr -> slots]]: bucket and position there
    ADDRMAN_NEW_BUCKETS_PER_ADDRESS,
    ADDRMAN_SET_TRIED_COLLISION_SIZE,
    MaxIds              \* bound: ids given out between two restarts

VARIABLE am

Empty == -1
NewSlot == NewBucket \X Range(GetBucketPosition)
TriedSlot == UNION {Range(GetTriedSlot[g]) : g \in Asmap}
SlotOf(a, b) == <<b, GetBucketPosition[<<a, b>>]>>
\* AddrInfo::GetNewBucket with the source that the entry was created with.
OwnSlot(m, i) == SlotOf(i.addr, GetNewBucket[m.asmap][<<i.addr, i.source>>])

\* vRandom, and nRandomPos with it, count from 1; ok: no assert has failed.
EmptyAddrMan(g) ==
    [asmap |-> g, mapInfo |-> <<>>, mapAddr |-> <<>>, vRandom |-> <<>>,
     vvNew |-> [s \in NewSlot |-> Empty], vvTried |-> [s \in TriedSlot |-> Empty],
     nNew |-> 0, nTried |-> 0, nIdCount |-> 0, m_tried_collisions |-> {}, ok |-> TRUE]
Without(f, x) == Restrict(f, DOMAIN f \ {x})
-----------------------------------------------------------------------------
\* The private operations.

\* The entry gets the next id, and its place at the end of vRandom.
Create(m, i) ==
    LET id == m.nIdCount IN
    [m EXCEPT !.nIdCount = @ + 1, !.vRandom = Append(@, id),
              !.mapAddr = (i.addr :> id) @@ @,
              !.mapInfo = (id :> [i EXCEPT !.nRandomPos = Len(m.vRandom) + 1]) @@ @]
Info(a, s) ==
    [addr |-> a, source |-> s, nRefCount |-> 0, fInTried |-> FALSE, nRandomPos |-> 0]

SwapRandom(m, p, q) ==
    LET idP == m.vRandom[p]  idQ == m.vRandom[q] IN
    [m EXCEPT !.mapInfo[idP].nRandomPos = q, !.mapInfo[idQ].nRandomPos = p,
              !.vRandom[p] = idQ, !.vRandom[q] = idP]

Delete(m, id) ==
    LET i == m.mapInfo[id]  s == SwapRandom(m, i.nRandomPos, Len(m.vRandom)) IN
    [s EXCEPT !.ok = @ /\ ~i.fInTried /\ i.nRefCount = 0,
              !.vRandom = Front(@), !.mapAddr = Without(@, i.addr),
              !.mapInfo = Without(@, id), !.nNew = @ - 1]

ClearNew(m, slot) ==
    IF m.vvNew[slot] = Empty THEN m ELSE
    LET id == m.vvNew[slot]
        c == [m EXCEPT !.ok = @ /\ m.mapInfo[id].nRefCount > 0,
                       !.mapInfo[id].nRefCount = @ - 1, !.vvNew[slot] = Empty]
    IN IF c.mapInfo[id].nRefCount = 0 THEN Delete(c, id) ELSE c

\* The entry in the tried slot goes back to the slot of its source in the new
\* table, whoever is there.
EvictTried(m, slot) ==
    IF m.vvTried[slot] = Empty THEN m ELSE
    LET old == m.vvTried[slot]
        back == OwnSlot(m, m.mapInfo[old])
        c == ClearNew([m EXCEPT !.mapInfo[old].fInTried = FALSE,
                                !.vvTried[slot] = Empty, !.nTried = @ - 1], back)
    IN [c EXCEPT !.ok = @ /\ c.vvNew[back] = Empty, !.mapInfo[old].nRefCount = 1,
                 !.vvNew[back] = old, !.nNew = @ + 1]

\* The first loop walks the buckets from that of the source, and stops when
\* nRefCount slots were found.
MakeTried(m, id) ==
    LET i == m.mapInfo[id]
        slot == GetTriedSlot[m.asmap][i.addr]
        start == OwnSlot(m, i)[1]
        held == {b \in NewBucket : m.vvNew[SlotOf(i.addr, b)] = id}
        Rank(b) == (b - start) % Cardinality(NewBucket)
        cleared == {b \in held : Cardinality({c \in held : Rank(c) < Rank(b)}) < i.nRefCount}
        c == [m EXCEPT !.vvNew = [s \in NewSlot |->
                            IF s[1] \in cleared /\ s = SlotOf(i.addr, s[1]) THEN Empty ELSE @[s]],
                       !.mapInfo[id].nRefCount = @ - Cardinality(cleared),
                       !.nNew = @ - 1, !.ok = @ /\ i.nRefCount = Cardinality(cleared)]
        e == EvictTried(c, slot)
    IN [e EXCEPT !.ok = @ /\ e.vvTried[slot] = Empty, !.vvTried[slot] = id,
                 !.nTried = @ + 1, !.mapInfo[id].fInTried = TRUE]
-----------------------------------------------------------------------------
\* Adding an address.

\* The early returns for a known address: not newer or the dice (one in
\* 2^nRefCount) against it, both of which are `unlucky`; in tried; or in enough
\* slots.
NotWanted(m, a, unlucky) ==
    /\ a \in DOMAIN m.mapAddr
    /\ LET i == m.mapInfo[m.mapAddr[a]] IN
       unlucky \/ i.fInTried \/ i.nRefCount = ADDRMAN_NEW_BUCKETS_PER_ADDRESS

\* May id have the slot? (It takes it from an entry that is terrible, or that
\* has another slot when id has none.)
MayInsert(m, id, slot, terrible) ==
    \/ m.vvNew[slot] = Empty \/ terrible
    \/ m.mapInfo[m.vvNew[slot]].nRefCount > 1 /\ m.mapInfo[id].nRefCount = 0

Insert(m, id, slot) ==
    [ClearNew(m, slot) EXCEPT !.mapInfo[id].nRefCount = @ + 1, !.vvNew[slot] = id]

AddSingle(m, a, s, unlucky, terrible) ==
    IF NotWanted(m, a, unlucky) THEN m ELSE
    LET c == IF a \in DOMAIN m.mapAddr THEN m
             ELSE [Create(m, Info(a, s)) EXCEPT !.nNew = @ + 1]
        id == c.mapAddr[a]
        slot == SlotOf(a, GetNewBucket[c.asmap][<<a, s>>])
    IN IF c.vvNew[slot] = id THEN c
       ELSE IF MayInsert(c, id, slot, terrible) THEN Insert(c, id, slot)
       ELSE IF c.mapInfo[id].nRefCount = 0 THEN Delete(c, id) ELSE c
-----------------------------------------------------------------------------
\* An address answered.

Good_(m, a, test_before_evict) ==
    IF \/ a \notin DOMAIN m.mapAddr \/ m.mapInfo[m.mapAddr[a]].fInTried
       \/ m.mapInfo[m.mapAddr[a]].nRefCount = 0
    THEN m ELSE
    LET id == m.mapAddr[a] IN
    IF test_before_evict /\ m.vvTried[GetTriedSlot[m.asmap][a]] # Empty
    THEN IF Cardinality(m.m_tried_collisions) < ADDRMAN_SET_TRIED_COLLISION_SIZE
         THEN [m EXCEPT !.m_tried_collisions = @ \cup {id}] ELSE m
    ELSE MakeTried(m, id)

\* One collision: "recent" if the tried entry succeeded not long ago, "failed"
\* if it was tested since, or could not be in time, "wait" otherwise.  An entry
\* that this pass over the collisions moved to tried is recent.
Verdict == {"recent", "failed", "wait"}
ResolveCollision(m, id, verdict, pass) ==
    LET erased == [m EXCEPT !.m_tried_collisions = @ \ {id}] IN
    IF id \notin DOMAIN m.mapInfo THEN erased ELSE
    LET a == m.mapInfo[id].addr
        old == m.vvTried[GetTriedSlot[m.asmap][a]]
    IN IF old # Empty /\ (old \in pass \/ verdict = "recent") THEN erased
       ELSE IF old = Empty \/ verdict = "failed" THEN Good_(erased, a, FALSE) ELSE m

ResolveCollisions_(m, verdict) ==
    LET pass == m.m_tried_collisions IN
    FoldLeft(LAMBDA x, id : ResolveCollision(x, id, verdict[id], pass), m,
             SetToSortSeq(pass, <))

\* mapInfo[] makes an entry where there is none.
SelectTriedCollision_(m, id) ==
    IF id \notin DOMAIN m.mapInfo THEN [m EXCEPT !.m_tried_collisions = @ \ {id}] ELSE
    LET old == m.vvTried[GetTriedSlot[m.asmap][m.mapInfo[id].addr]] IN
    [m EXCEPT !.mapInfo = @ @@ (old :> Info("none", "none"))]

\* swaps[n]: the place that the n-th round of the loop draws.
GetAddr_(m, swaps) ==
    FoldLeft(LAMBDA x, n : SwapRandom(x, n, swaps[n]), m, [n \in DOMAIN swaps |-> n])
-----------------------------------------------------------------------------
\* Serialize and Unserialize: entries are numbered anew in the order in which
\* mapInfo, an unordered map, is walked; those of the new table first.

NewIds(m, order) == SelectSeq(order, LAMBDA id : m.mapInfo[id].nRefCount # 0)
TriedIds(m, order) == SelectSeq(order, LAMBDA id : m.mapInfo[id].fInTried)

\* mapUnkIds: how many entries of the new table come before id; mutant: how
\* many entries.
Before(order, id) ==
    {order[k] : k \in 1 .. (CHOOSE n \in DOMAIN order : order[n] = id) - 1}
IndexInMapInfo(m, order, id) == Cardinality(Before(order, id))
IndexOfId(m, order, id) ==
    Cardinality({x \in Before(order, id) : m.mapInfo[x].nRefCount # 0})

\* What is in the slots of each bucket, in order.
BucketEntries(m, order) ==
    LET slots == SetToSortSeq({s \in NewSlot : m.vvNew[s] # Empty},
                              LAMBDA s, t : s[1] < t[1] \/ (s[1] = t[1] /\ s[2] < t[2]))
    IN [n \in DOMAIN slots |-> <<slots[n][1], IndexOfId(m, order, m.vvNew[slots[n]])>>]

LoadTried(m, i) ==
    LET slot == GetTriedSlot[m.asmap][i.addr] IN
    IF m.vvTried[slot] # Empty THEN [m EXCEPT !.nTried = @ - 1] ELSE
    LET c == Create(m, [i EXCEPT !.fInTried = TRUE]) IN
    [c EXCEPT !.vvTried[slot] = m.nIdCount]

\* The slot of before if the AS map is that of before and the slot is free;
\* otherwise the slot of the source, if that is free.
LoadNew(m, entry, restore_bucketing) ==
    LET i == m.mapInfo[entry[2]]
        before == SlotOf(i.addr, entry[1])
        slot == IF restore_bucketing /\ m.vvNew[before] = Empty THEN before ELSE OwnSlot(m, i)
    IN IF \/ entry[2] >= m.nNew \/ i.nRefCount >= ADDRMAN_NEW_BUCKETS_PER_ADDRESS
          \/ m.vvNew[slot] # Empty
       THEN m ELSE [m EXCEPT !.vvNew[slot] = entry[2], !.mapInfo[entry[2]].nRefCount = @ + 1]

Unserialize(m, order, g) ==
    LET Fresh(id) == Info(m.mapInfo[id].addr, m.mapInfo[id].source)
        news == FoldLeft(LAMBDA x, id : Create(x, Fresh(id)),
                         [EmptyAddrMan(g) EXCEPT !.nNew = m.nNew, !.nTried = m.nTried],
                         NewIds(m, order))
        trieds == FoldLeft(LAMBDA x, id : LoadTried(x, Fresh(id)), news, TriedIds(m, order))
        placed == FoldLeft(LAMBDA x, e : LoadNew(x, e, g = m.asmap), trieds, BucketEntries(m, order))
        lost == {id \in DOMAIN placed.mapInfo :
                    ~placed.mapInfo[id].fInTried /\ placed.mapInfo[id].nRefCount = 0}
    IN FoldLeft(Delete, placed, SetToSeq(lost))
-----------------------------------------------------------------------------
AddrInit == \E g \in Asmap : am = EmptyAddrMan(g)

\* Addresses of one message are added one by one.
Add(a, s) ==
    /\ a \in DOMAIN am.mapAddr \/ am.nIdCount < MaxIds
    /\ \E unlucky, terrible \in BOOLEAN : am' = AddSingle(am, a, s, unlucky, terrible)
Good(a) == am' = Good_(am, a, TRUE)
ResolveCollisions ==
    \E verdict \in [am.m_tried_collisions -> Verdict] : am' = ResolveCollisions_(am, verdict)
SelectTriedCollision ==
    \E id \in am.m_tried_collisions : am' = SelectTriedCollision_(am, id)
GetAddr ==
    \E n \in DOMAIN am.vRandom : \E swaps \in [1 .. n -> DOMAIN am.vRandom] :
        /\ \A k \in 1 .. n : swaps[k] >= k
        /\ am' = GetAddr_(am, swaps)

\* DumpAddresses at shutdown, LoadAddrman at the next start.  (After a crash the
\* node starts with an older dump: where it would be had it shut down then.)
Restart ==
    \E order \in SetToSeqs(DOMAIN am.mapInfo), g \in Asmap : am' = Unserialize(am, order, g)

AddrNext ==
    /\ am.ok
    /\ \/ \E a \in Addr : Good(a) \/ \E s \in Source : Add(a, s)
       \/ ResolveCollisions \/ SelectTriedCollision \/ GetAddr \/ Restart
-----------------------------------------------------------------------------
\* CheckAddrman's conditions, by the codes that it returns.
CheckAddrman(m) ==
    LET ids == DOMAIN m.mapInfo
        tried == {id \in ids : m.mapInfo[id].fInTried}
    IN /\ Len(m.vRandom) = m.nTried + m.nNew                                \* -7
       /\ \A id \in ids : LET i == m.mapInfo[id] IN
            /\ i.nRefCount \in (IF i.fInTried THEN {0}
                                ELSE 1 .. ADDRMAN_NEW_BUCKETS_PER_ADDRESS)  \* -2, -3, -4
            /\ i.addr \in DOMAIN m.mapAddr /\ m.mapAddr[i.addr] = id        \* -5
            /\ i.nRandomPos \in DOMAIN m.vRandom /\ m.vRandom[i.nRandomPos] = id  \* -14
            /\ i.nRefCount = Cardinality({s \in NewSlot : m.vvNew[s] = id}) \* -12, -15
            /\ {s \in TriedSlot : m.vvTried[s] = id}                        \* -11, -13, -17, -18
               = (IF i.fInTried THEN {GetTriedSlot[m.asmap][i.addr]} ELSE {})
       /\ m.nTried = Cardinality(tried) /\ m.nNew = Cardinality(ids \ tried)   \* -9, -10
       /\ \A s \in TriedSlot : m.vvTried[s] \in tried \cup {Empty}          \* -11
       /\ \A s \in NewSlot : m.vvNew[s] # Empty =>
            /\ m.vvNew[s] \in ids \ tried                                   \* -12
            /\ s = SlotOf(m.mapInfo[m.vvNew[s]].addr, s[1])                 \* -19

\* The conditions of CheckAddrman hold and no assert has failed; and an address
\* waiting for the tried entry in its way (Good_) still has one in its way, so
\* that SelectTriedCollision never makes up an entry.
TablesAgree ==
    /\ am.ok /\ CheckAddrman(am)
    /\ \A id \in am.m_tried_collisions \cap DOMAIN am.mapInfo :
         am.vvTried[GetTriedSlot[am.asmap][am.mapInfo[id].addr]] \notin {Empty, id}

\* Where each address is.
AddrView(m) ==
    [a \in DOMAIN m.mapAddr |->
        <<{s \in NewSlot : m.vvNew[s] = m.mapAddr[a]},
          {s \in TriedSlot : m.vvTried[s] = m.mapAddr[a]}>>]

\* Written by Serialize and read by Unserialize with the same AS map, every
\* address is back in all of its slots, in whichever order mapInfo is walked.
RestartKeepsAddresses ==
    \A order \in SetToSeqs(DOMAIN am.mapInfo) :
        AddrView(Unserialize(am, order, am.asmap)) = AddrView(am)

\* After any calls of the address manager both tables, the counters, vRandom and
\* the collisions agree, and a restart would lose nothing of it.
AddrManIsRight == TablesAgree /\ RestartKeepsAddresses
=============================================================================
