-------------------------- MODULE PerformanceGate --------------------------
(***************************************************************************)
(* The performance baseline and the gate on it:                            *)
(* scripts/quality/collect_performance_baseline and                        *)
(* check_performance_gate.  Cases are answered one after the other; the    *)
(* report holds averages and nearest-rank percentiles of the times.        *)
(*                                                                         *)
(* What the cases show is one of Timings; the warm-up request is not         *)
(* measured, so that only its place in the dataset matters.  Times are     *)
(* whole numbers, sums are compared exactly.                               *)
(***************************************************************************)
EXTENDS Integers, Sequences, FiniteSets, RuleValues

CONSTANTS
    Timings,              \* what the cases of a dataset may show, in their order
    MaxAverage, MaxP95,   \* thresholds of the total time
    MaxFirst, MaxFirstP95 \* and of the time to the first token

\* first: None if no token came; timed: the end event told the times of the stages.
Sample == [total : Nat, first : Nat \cup {None}, timed : BOOLEAN, error : BOOLEAN]

ASSUME PerformanceAssumption ==
    /\ Timings \subseteq Seq(Sample)
    /\ {MaxAverage, MaxP95, MaxFirst, MaxFirstP95} \subseteq Nat

ASSUME NoneIsNoVerdict == None \notin {"passed", "failed"}

VARIABLES
    load,       \* what the dataset will show
    toMeasure,  \* how many of its last cases are measured, None before the start
    measured,   \* rows of the report
    performanceGate

performanceVars == <<load, toMeasure, measured, performanceGate>>

PerformanceTypeOK ==
    /\ \A i \in DOMAIN load : load[i] \in Sample
    /\ toMeasure \in {None} \cup 0..Len(load)
    /\ toMeasure # None => Len(measured) <= toMeasure
    /\ performanceGate \in {None, "passed", "failed"}

PerformanceInit ==
    /\ load \in Timings
    /\ toMeasure = None /\ measured = <<>> /\ performanceGate = None

-----------------------------------------------------------------------------
(* collect_baseline. *)

\* The first case warms the service up and is left out, unless it is the only one.
StartBaseline(warmup) ==
    /\ toMeasure = None
    /\ toMeasure' = IF warmup /\ Len(load) > 1 THEN Len(load) - 1 ELSE Len(load)
    /\ UNCHANGED <<load, measured, performanceGate>>

\* A case without a token has its first one at the end.
MeasureCase ==
    /\ toMeasure # None /\ Len(measured) < toMeasure
    /\ LET s == load[Len(load) - toMeasure + Len(measured) + 1]
       IN  measured' = Append(measured, [s EXCEPT !.first = IF @ = None THEN s.total ELSE @])
    /\ UNCHANGED <<load, toMeasure, performanceGate>>

Values(what) == [i \in DOMAIN measured |-> measured[i][what]]

Below(values, v)    == {i \in DOMAIN values : values[i] < v}
NotAbove(values, v) == {i \in DOMAIN values : values[i] <= v}

\* sorted(values)[rank - 1]: fewer than rank values are smaller, at least rank are not larger.
AtRank(values, rank) ==
    CHOOSE v \in {values[i] : i \in DOMAIN values} :
        Cardinality(Below(values, v)) < rank /\ rank <= Cardinality(NotAbove(values, v))

\* (Mutant.) The rank is rounded down.
P95Below(values) ==
    IF values = <<>> THEN 0
    ELSE AtRank(values, Smaller(Len(values), Larger(1, (95 * Len(values)) \div 100)))

\* percentile(values, 0.95): the value whose rank is 0.95 of the number, rounded up.
P95(values) ==
    IF values = <<>> THEN 0
    ELSE AtRank(values, Smaller(Len(values), Larger(1, (95 * Len(values) + 99) \div 100)))

AverageAtMost(values, maximum) == SumOf(values) <= maximum * Larger(Len(values), 1)

\* average_stage_timings has a stage as soon as one case told its times.
HasStageTimings == \E i \in DOMAIN measured : measured[i].timed

-----------------------------------------------------------------------------
(* The gate. *)

PerformancePasses ==
    /\ \A i \in DOMAIN measured : ~measured[i].error
    /\ AverageAtMost(Values("total"), MaxAverage) /\ P95(Values("total")) <= MaxP95
    /\ AverageAtMost(Values("first"), MaxFirst) /\ P95(Values("first")) <= MaxFirstP95
    /\ HasStageTimings

JudgePerformance ==
    /\ toMeasure # None /\ Len(measured) = toMeasure /\ performanceGate = None
    /\ performanceGate' = IF PerformancePasses THEN "passed" ELSE "failed"
    /\ UNCHANGED <<load, toMeasure, measured>>

PerformanceNext ==
    \/ \E warmup \in BOOLEAN : StartBaseline(warmup)
    \/ MeasureCase \/ JudgePerformance

PerformanceSpec == PerformanceInit /\ [][PerformanceNext]_performanceVars

-----------------------------------------------------------------------------
\* The percentile is what its name says: 95 of 100 cases took no longer, and no smaller time
\* of a case can be said that of.
PercentileIsNearestRank ==
    \A what \in {"total", "first"} :
        LET values == Values(what)
            Within(v) == 100 * Cardinality(NotAbove(values, v)) >= 95 * Len(values)
        IN  values # <<>> =>
              /\ Within(P95(values))
              /\ \A i \in DOMAIN values : values[i] < P95(values) => ~Within(values[i])

\* A baseline that passes says something: cases were measured, none failed, and of fewer
\* than twenty not a single one was slow, in the whole or up to its first token.
PassedIsFast ==
    performanceGate = "passed" =>
        /\ measured # <<>>
        /\ \A i \in DOMAIN measured : ~measured[i].error
        /\ Len(measured) < 20 =>
              \A i \in DOMAIN measured :
                 measured[i].total <= MaxP95 /\ measured[i].first <= MaxFirstP95

SpeedIsJudged == PerformanceTypeOK /\ PercentileIsNearestRank /\ PassedIsFast
=============================================================================
