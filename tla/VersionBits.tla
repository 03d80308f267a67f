----------------------------- MODULE VersionBits -----------------------------
(***************************************************************************)
(* The state of a soft fork deployment (src/src/versionbits.cpp): the      *)
(* cache of states at the last block of every period, filled by queries    *)
(* about any block, on any branch and in any order.                        *)
(*                                                                         *)
(* Which blocks signal, and the parameters of the deployment, are chosen   *)
(* at the start.                                                           *)
(***************************************************************************)
EXTENDS BlockTree, Sequences, SequencesExt

CONSTANTS
    nPeriod,        \* nMinerConfirmationWindow
    nThreshold,     \* nRuleChangeActivationThreshold
    MedianTime,     \* GetMedianTimePast of each block
    Deployments     \* records [start, timeout, minHeight]: BIP9Deployment

ASSUME PeriodAssumption ==
    nPeriod \in Nat \ {0} /\ nThreshold \in 1 .. nPeriod
ASSUME TimeAssumption ==
    \A b \in Block \ {Genesis} : MedianTime[Prev[b]] <= MedianTime[b]

ALWAYS_ACTIVE == -1
NEVER_ACTIVE == -2

VARIABLES
    signals,        \* the blocks for which Condition holds
    deployment,
    cache           \* ThresholdConditionCache: a function on period ends and Nil

versionVars == <<signals, deployment, cache>>
-----------------------------------------------------------------------------
\* GetAncestor(h) where it may be nullptr.
AncestorOrNil(b, h) == IF h < 0 THEN Nil ELSE GetAncestor(b, h)

\* The last block of the last period that is complete at b.
PeriodEnd(b) ==
    IF b = Nil THEN Nil ELSE AncestorOrNil(b, Height[b] - ((Height[b] + 1) % nPeriod))
PeriodEnds(b) ==
    IF b = Nil THEN {} ELSE {e \in Path[b] : (Height[e] + 1) % nPeriod = 0}

\* How many blocks of the period that ends with b signal.
Signalling(b, n) == Cardinality({c \in Path[b] \cap signals : Height[c] > Height[b] - n})

NextState(state, e) ==
    CASE state = "DEFINED" ->
            IF MedianTime[e] >= deployment.start THEN "STARTED" ELSE "DEFINED"
      [] state = "STARTED" ->
            IF Signalling(e, nPeriod) >= nThreshold THEN "LOCKED_IN"
            ELSE IF MedianTime[e] >= deployment.timeout THEN "FAILED" ELSE "STARTED"
      [] state = "LOCKED_IN" ->
            IF Height[e] + 1 >= deployment.minHeight THEN "ACTIVE" ELSE "LOCKED_IN"
      [] OTHER -> state

Put(f, x, v) == [y \in DOMAIN f \cup {x} |-> IF y = x THEN v ELSE f[y]]

\* The walk of GetStateFor back from e ends at a block that is cached, that is
\* before the start time, or before the first period.
StopsAtHeight(known, b) ==
    \/ \E c \in DOMAIN known \ {Nil} : Height[c] = Height[b]
    \/ MedianTime[b] < deployment.start
StopsAt(known, b) == b \in DOMAIN known \/ MedianTime[b] < deployment.start
WalkEnd(known, e) ==
    LET stops == {b \in PeriodEnds(e) : StopsAt(known, b)}
    IN  IF stops = {} THEN Nil ELSE Highest(stops)

\* From there forward the states are computed and cached.
GetStateFor(known, b) ==
    LET e == PeriodEnd(b)
        from == WalkEnd(known, e)
        base == IF from \in DOMAIN known THEN known ELSE Put(known, from, "DEFINED")
        vToCompute == {c \in PeriodEnds(e) : from = Nil \/ Height[c] > Height[from]}
        compute(acc, c) == LET s == NextState(acc.state, c)
                           IN  [state |-> s, cache |-> Put(acc.cache, c, s)]
    IN  IF deployment.start = ALWAYS_ACTIVE THEN [state |-> "ACTIVE", cache |-> known]
        ELSE IF deployment.start = NEVER_ACTIVE THEN [state |-> "FAILED", cache |-> known]
        ELSE FoldLeft(compute, [state |-> base[from], cache |-> base],
                      SetToSortSeq(vToCompute, LAMBDA x, y : Height[x] < Height[y]))

\* GetStateSinceHeightFor: back over the period ends that have the state of b.
\* The queries it makes on the way are answered from the cache of the first.
SinceHeight(known, b) ==
    LET first == GetStateFor(known, b)
        e == PeriodEnd(b)
        differ == {c \in PeriodEnds(e) : GetStateFor(first.cache, c).state # first.state}
        same == {c \in PeriodEnds(e) : \A d \in differ : Height[c] > Height[d]}
        oldest == CHOOSE c \in same : \A d \in same : Height[c] <= Height[d]
    IN  IF deployment.start \in {ALWAYS_ACTIVE, NEVER_ACTIVE} \/ first.state = "DEFINED"
        THEN 0 ELSE Height[oldest] + 1

\* GetStateStatisticsFor of the period b is in.
Statistics(b) ==
    LET elapsed == 1 + (Height[b] % nPeriod)
        count == Signalling(b, elapsed)
    IN  [elapsed |-> elapsed, count |-> count, possible |-> nPeriod - nThreshold >= elapsed - count]
-----------------------------------------------------------------------------
VersionInit ==
    /\ signals \in SUBSET Block
    /\ deployment \in Deployments
    /\ cache = <<>>

\* State, StateSinceHeight and ComputeBlockVersion for the block after b: each
\* leaves the cache of GetStateFor.
Query(b) ==
    /\ cache' = GetStateFor(cache, b).cache
    /\ UNCHANGED <<signals, deployment>>

\* Clear, at the end of the process.
ClearCache ==
    /\ cache' = <<>>
    /\ UNCHANGED <<signals, deployment>>

VersionNext == (\E b \in Block \cup {Nil} : Query(b)) \/ ClearCache

VersionSpec == VersionInit /\ [][VersionNext]_versionVars
-----------------------------------------------------------------------------
\* What the state of the block after b is, from the blocks alone: signalling is
\* counted in the periods after the one in which the start time has passed,
\* until one reaches the threshold or ends after the timeout, whichever is
\* first; the rules are in force from the next period at or above minHeight.
Earliest(S) == IF S = {} THEN Nil ELSE CHOOSE e \in S : \A c \in S : Height[e] <= Height[c]
After(S, e) == {c \in S : Height[c] > Height[e]}

StateByDefinition(b) ==
    LET ends == PeriodEnds(b)
        started == Earliest({e \in ends : MedianTime[e] >= deployment.start})
        counted == IF started = Nil THEN {} ELSE After(ends, started)
        decided == Earliest({e \in counted : \/ Signalling(e, nPeriod) >= nThreshold
                                             \/ MedianTime[e] >= deployment.timeout})
        locked == decided # Nil /\ Signalling(decided, nPeriod) >= nThreshold
    IN  CASE deployment.start = ALWAYS_ACTIVE -> "ACTIVE"
          [] deployment.start = NEVER_ACTIVE -> "FAILED"
          [] OTHER ->
               IF started = Nil THEN "DEFINED"
               ELSE IF decided = Nil THEN "STARTED"
               ELSE IF ~locked THEN "FAILED"
               ELSE IF \E e \in After(ends, decided) : Height[e] + 1 >= deployment.minHeight
               THEN "ACTIVE" ELSE "LOCKED_IN"

\* Type invariant.
VersionTypeOK ==
    /\ signals \subseteq Block
    /\ DOMAIN cache \subseteq Block \cup {Nil}
    /\ \A e \in DOMAIN cache :
          cache[e] \in {"DEFINED", "STARTED", "LOCKED_IN", "ACTIVE", "FAILED"}

\* Whatever was asked before, of this branch or another, GetStateFor answers
\* with the state that the blocks define.
StatesAreRight == \A b \in Block : GetStateFor(cache, b).state = StateByDefinition(b)

\* GetStateSinceHeightFor gives the first height that had the state b + 1 has.
SinceIsFirst ==
    \A b \in Block :
       LET state == StateByDefinition(b)
           since == SinceHeight(cache, b)
       IN  deployment.start >= 0 /\ state # "DEFINED" =>
             /\ \A a \in Path[b] : Height[a] + 1 >= since <=> StateByDefinition(a) = state
             /\ since % nPeriod = 0

\* GetStateStatisticsFor is a forecast for a started deployment: when it no
\* longer says possible the period will not lock in, and at the end of the
\* period it says which way it went.
StatisticsForetell ==
    \A c \in Block \ {Genesis} :
       deployment.start >= 0 /\ PeriodEnd(c) = c /\ StateByDefinition(Prev[c]) = "STARTED" =>
         /\ Statistics(c).possible <=> StateByDefinition(c) = "LOCKED_IN"
         /\ StateByDefinition(c) = "LOCKED_IN" =>
               \A b \in Path[c] : Height[c] - Height[b] < nPeriod => Statistics(b).possible

\* The cached states of a deployment answer every query, about any block and
\* after any other queries, as the blocks alone would.
VersionBitsAreRight == VersionTypeOK /\ StatesAreRight /\ SinceIsFirst /\ StatisticsForetell
=============================================================================
