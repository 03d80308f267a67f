-------------------------------- MODULE Midas --------------------------------
(***************************************************************************)
(* MIDAS, the difficulty adjustment of src/src/pow.cpp, and a chain whose  *)
(* blocks follow it: GetNextWorkRequired with the averages of              *)
(* avgRecentTimestamps and the compact form of a target.                   *)
(*                                                                         *)
(* Times and intervals are the code's, in seconds.  Targets are scaled:    *)
(* Width bits for 256, digits of Digit values for bytes, and Unit for the  *)
(* 10000 of difficultyfactor, so that a target keeps the code's shape (a   *)
(* mantissa of three digits, a product modulo 2^Width).                    *)
(***************************************************************************)
EXTENDS Integers, Sequences, FiniteSets

CONSTANTS
    Spacing, Timespan,  \* nPowTargetSpacing, nPowTargetTimespan
    Width, Digit, Unit,
    Start,              \* [times, target]: the chain at the beginning
    Steps,              \* what a block's time may differ from its parent's
    MaxBlocks           \* bound on the blocks that are added

ASSUME MidasAssumption ==
    /\ Spacing \in Nat \ {0} /\ Timespan \in Nat /\ Timespan >= Spacing
    /\ Width \in Nat \ {0} /\ Digit \in Nat \ {0, 1} /\ Unit \in Nat \ {0}
    /\ Steps \subseteq Int /\ MaxBlocks \in Nat

VARIABLES
    times,      \* GetBlockTime of the last blocks, the tip at the end
    height,     \* blocks added so far
    target      \* what the nBits of the tip stands for

midasVars == <<times, height, target>>

PowLimit == 2 ^ (Width - 1) - 1
DifficultyAdjustmentInterval == Timespan \div Spacing
Smaller(a, b) == IF a < b THEN a ELSE b
Least(S) == CHOOSE x \in S : \A y \in S : x <= y
Greatest(S) == CHOOSE x \in S : \A y \in S : y <= x

\* The division of C++: towards zero.
Quotient(a, b) == IF a >= 0 THEN a \div b ELSE -((-a) \div b)

-----------------------------------------------------------------------------
(* The compact form.                                                       *)

\* Digits of t (0 for 0).
Size(t) == CHOOSE n \in 0 .. Width : t < Digit ^ n /\ (n > 0 => t >= Digit ^ (n - 1))

\* SetCompact(GetCompact(t)): the first three digits, or two if the first of
\* the three would set the sign bit.
Compact(t) ==
    LET shift == IF Size(t) <= 3 THEN 1 ELSE Digit ^ (Size(t) - 3)
        first == t \div shift
    IN  IF first >= (Digit ^ 3) \div 2
        THEN (first \div Digit) * Digit * shift
        ELSE first * shift

-----------------------------------------------------------------------------
(* GetNextWorkRequired, for the block after the last of ts.                *)

\* How many of the 17 intervals there are.
Count(ts) == Smaller(Len(ts) - 1, 17)

\* The differences of avgRecentTimestamps add up to the one between the ends.
Avg(ts, k) ==
    LET m == Smaller(Count(ts), k)
    IN  IF m = 0 THEN Spacing ELSE Quotient(ts[Len(ts)] - ts[Len(ts) - m], m)

Now(ts) == ts[Len(ts)]
BlockHeightTime(ts) == ts[Len(ts) - Count(ts)] + Count(ts) * Spacing

FastInterval == (Spacing * 9) \div 10
SlowInterval == (Spacing * 11) \div 10

\* Mutant of IntervalDesired: slow and fast swapped.
IntervalDesiredSwapped(ts) ==
    LET late == Now(ts) - BlockHeightTime(ts)
        n == DifficultyAdjustmentInterval
    IN  IF late >= n THEN SlowInterval
        ELSE IF late <= -n THEN FastInterval
        ELSE IF late > 0 THEN ((n - late) * Spacing + late * SlowInterval) \div n
        ELSE IF late < 0 THEN ((n + late) * Spacing - late * FastInterval) \div n
        ELSE Spacing

\* The interval regulated on: 10% shorter when the chain is late, 10% longer
\* when it is early, interpolated while the difference is below n.
IntervalDesired(ts) ==
    LET late == Now(ts) - BlockHeightTime(ts)
        n == DifficultyAdjustmentInterval
    IN  IF late > 0 /\ late < n THEN ((n - late) * Spacing + late * FastInterval) \div n
        ELSE IF late < 0 /\ late > -n THEN ((n + late) * Spacing - late * SlowInterval) \div n
        ELSE IF late < 0 THEN SlowInterval
        ELSE IF late > 0 THEN FastInterval
        ELSE Spacing

Toofast(ts) == (IntervalDesired(ts) * 2) \div 3
Tooslow(ts) == (IntervalDesired(ts) * 3) \div 2

\* All averages of S are below, or above, x.
Below(ts, S, x) == \A k \in S : Avg(ts, k) < x
Above(ts, S, x) == \A k \in S : Avg(ts, k) > x

EmergencyIncrease(ts) ==
    Below(ts, {5, 7, 9}, Toofast(ts)) /\ Below(ts, {17}, IntervalDesired(ts))
EmergencyReduction(ts) ==
    Above(ts, {5, 7, 9}, Tooslow(ts)) /\ Above(ts, {17}, IntervalDesired(ts))
Increase(ts) == Below(ts, {5, 7, 9, 17}, IntervalDesired(ts))

\* Mutant of Reduction: any interval may ask for it.
ReductionAny(ts) == \E k \in {5, 7, 9, 17} : Above(ts, {k}, IntervalDesired(ts))

Reduction(ts) == Above(ts, {5, 7, 9, 17}, IntervalDesired(ts))

\* The comparisons of the code pick the average closest to the nominal one:
\* the largest for an increase, the smallest for a reduction.
Regulated(x, reg) == Quotient(Unit * 4 * x, reg + 3 * x)

DifficultyFactor(ts) ==
    LET avgs(S) == {Avg(ts, k) : k \in S} IN
    IF EmergencyIncrease(ts) THEN Regulated(Toofast(ts), Greatest(avgs({5, 7, 9})))
    ELSE IF EmergencyReduction(ts) THEN Regulated(Tooslow(ts), Least(avgs({5, 7, 9})))
    ELSE IF Increase(ts) THEN Regulated(IntervalDesired(ts), Greatest(avgs({5, 7, 9, 17})))
    ELSE IF Reduction(ts) THEN Regulated(IntervalDesired(ts), Least(avgs({5, 7, 9, 17})))
    ELSE Unit

\* The division by a factor of 0 throws, and the limit is returned.
Adjusted(old, factor) ==
    IF factor = 0 THEN PowLimit
    ELSE Smaller(IF factor = Unit THEN old ELSE ((old \div factor) * Unit) % 2 ^ Width, PowLimit)

GetNextWorkRequired(ts, old) == Compact(Adjusted(old, DifficultyFactor(ts)))

-----------------------------------------------------------------------------
(* A chain of blocks that follow the rule.                                 *)

\* Of at most 11 times, the middle one.
MedianTimePast(ts) ==
    LET last == SubSeq(ts, IF Len(ts) > 11 THEN Len(ts) - 10 ELSE 1, Len(ts))
        ind == 1 .. Len(last)
        Before(i, j) == last[i] < last[j] \/ (last[i] = last[j] /\ i < j)
    IN  last[CHOOSE i \in ind : Cardinality({j \in ind : Before(j, i)}) = Len(last) \div 2]

MidasInit == times = Start.times /\ height = 0 /\ target = Start.target

\* A block with an allowed time; the last 18 times are all the rule looks at.
AddBlock(step) ==
    /\ height < MaxBlocks
    /\ Now(times) + step > MedianTimePast(times)
    /\ times' = LET ts == Append(times, Now(times) + step)
                IN  IF Len(ts) > 18 THEN Tail(ts) ELSE ts
    /\ target' = GetNextWorkRequired(times, target)
    /\ height' = height + 1

MidasNext == \E step \in Steps : AddBlock(step)
MidasSpec == MidasInit /\ [][MidasNext]_midasVars

-----------------------------------------------------------------------------
(* Properties.                                                             *)

\* A target is one that nBits can hold, and within the limit.
MidasTypeOK ==
    /\ target \in 0 .. PowLimit /\ Compact(target) = target
    /\ height \in 0 .. MaxBlocks /\ Len(times) \in 1 .. 18

\* "If it's more behind, MIDAS will be trying to make block times about 10%
\* faster than nominal, and if it's more ahead, ... about 10% slower ... exactly
\* the nominal block time whenever there's an exact correspondence" (README.md).
ScheduleSteers ==
    LET late == Now(times) - BlockHeightTime(times) IN
    /\ IntervalDesired(times) \in FastInterval .. SlowInterval
    /\ late > 0 <=> IntervalDesired(times) < Spacing
    /\ late < 0 <=> IntervalDesired(times) > Spacing

\* "making adjustments only when there is agreement as judged by several
\* intervals as to which way" (README.md): the target moves only if all four
\* averages lie on the same side of the interval regulated on, and towards it.
Agreement ==
    [][/\ target' < target => \A k \in {5, 7, 9, 17} : Avg(times, k) < IntervalDesired(times)
       /\ target' > target => \A k \in {5, 7, 9, 17} : Avg(times, k) > IntervalDesired(times)]_midasVars

\* "in non-emergencies it's got a ... gradual and well-damped adjustment"
\* (README.md): without an emergency a target moves by an eighth at most, and one
\* digit of rounding.
Gradual ==
    [][~EmergencyIncrease(times) /\ ~EmergencyReduction(times) =>
            /\ target' * 8 >= (target - Unit) * 7 - 8 * (target \div (Digit ^ 2))
            /\ target' * 8 <= target * 9 + 8 * Unit]_midasVars

\* "Emergency adjustments if needed usually kick in within ten blocks"
\* (README.md): nine intervals of at most half the nominal one, with none over
\* the nominal one before, are an emergency.
KicksIn ==
    LET step(i) == times[i] - times[i - 1]
        n == Len(times)
    IN  n > 9 =>
        ((\A i \in (n - 8) .. n : step(i) * 2 <= Spacing) /\ (\A i \in 2 .. n : step(i) <= Spacing)
            => EmergencyIncrease(times))

\* What MIDAS aims at in every reachable state: the interval it regulates on
\* leans against the schedule, a run of fast blocks is an emergency, and the
\* target it gives is one that nBits can hold.
AimsAtSchedule == MidasTypeOK /\ ScheduleSteers /\ KicksIn

\* How it gets there: only where all averages agree, and outside of emergencies
\* by an eighth at a time.
AdjustsWithCare == Agreement /\ Gradual

=============================================================================
