------------------------------ MODULE MC_Mining ------------------------------
(* What a miner needs: the threads of the node's own miner, the target of the *)
(* next block, and the deployments its version signals.  They share no state; *)
(* one of them is explored while the others rest.                             *)
EXTENDS InternalMiner, Midas, VersionBits, TLC

CONSTANTS w1, w2, c1, r1
Symmetry == Permutations(Worker)

\* A chain of 18 blocks that is on schedule.
OnSchedule == [times |-> [i \in 1 .. 18 |-> 100000 + i * Spacing], target |-> Compact(2 ^ (Width - 4))]

\* Blocks after their parent's time, or before it.
SomeSteps == {-300, 300, 606, 2400}

\* Periods of two blocks, on two branches from block 3 on.  The first period,
\* which is over before signals count, signals in both blocks or in neither.
MCTreePrev == [b \in 1 .. 7 |-> IF b = 6 THEN 3 ELSE b - 1]
\* Blocks 6 and 7 are later than the blocks of the other branch.
MCMedianTime == [b \in 0 .. 7 |-> b]
MCTreeProof == [b \in 0 .. 7 |-> 1]
MCDeployments ==
    [start : {1, 2}, timeout : {3, 6}, minHeight : {0, 8}]
    \cup [start : {ALWAYS_ACTIVE, NEVER_ACTIVE}, timeout : {3}, minHeight : {0}]

VARIABLE part
mcVars == <<vars, midasVars, versionVars, part>>
MCInit ==
    /\ part \in {"miner", "target", "version"}
    /\ Init /\ MidasInit /\ VersionInit
    /\ part # "miner" => used.limit = 1
    /\ 0 \in signals <=> 1 \in signals
    /\ part # "version" => signals = {} /\ deployment.start = NEVER_ACTIVE
MCNext ==
    /\ UNCHANGED part
    /\ \/ part = "miner" /\ Next /\ UNCHANGED <<midasVars, versionVars>>
       \/ part = "target" /\ MidasNext /\ UNCHANGED <<vars, versionVars>>
       \/ part = "version" /\ VersionNext /\ UNCHANGED <<vars, midasVars>>
MCSpec == MCInit /\ [][MCNext]_mcVars
=============================================================================
