-------------------------- MODULE ThresholdTuning --------------------------
(***************************************************************************)
(* Tuning of the two governed thresholds from labelled samples:            *)
(* scripts/intent/calibrate_thresholds.py proposes,                        *)
(* scripts/intent/evaluate_intent_policy.py and the core chain evaluation  *)
(* judge the policy in force, scripts/quality/recommend_runtime_params.py  *)
(* reads the three reports, whatever their age, and a person edits the     *)
(* configuration.  A sample is reduced to what was observed of it.         *)
(***************************************************************************)
EXTENDS RoutingPolicy, FiniteSets

CONSTANTS
    FaqGrid, IntentGrid,   \* candidate_values: the thresholds tried
    StartPolicy,           \* the thresholds in force at the start
    SampleSets,            \* bound: labelled samples, [faq, intent]
    MinPrecision, MinRecall, MaxFalseDirect,   \* ten-thousandths
    MinPositive, MinNegative, MinIntentCases,
    MaxChanges             \* bound: edits of the configuration

ASSUME GridAssumption ==
    /\ FaqGrid \subseteq 1..100 /\ IntentGrid \subseteq 1..100
    /\ FaqGrid # {} /\ IntentGrid # {} /\ IsFiniteSet(FaqGrid) /\ IsFiniteSet(IntentGrid)
    /\ StartPolicy \in [faq : 1..100, intent : 1..100]
    /\ MinPositive \in Nat

FaqSample    == [score : Nat, positive : BOOLEAN]
IntentSample == [rule : Rule, predicted : Intents, score : 0..100, history : BOOLEAN,
                 expected : Intents \cup {None}, critical : BOOLEAN]

ASSUME SamplesAssumption ==
    SampleSets \subseteq [faq : Seq(FaqSample), intent : Seq(IntentSample)]

VARIABLES
    policy,       \* faq_direct_score_threshold and model_min_score in force
    samples,      \* the labelled samples on disk
    calibration,  \* threshold_candidate_latest.json, or None
    policyReport, \* intent_policy_latest.json, or None
    chain,        \* core_chain_latest.json, or None
    advice,       \* runtime_param_recommendation_latest.json, or None
    changes       \* edits of the configuration so far

tuningVars == <<policy, samples, calibration, policyReport, chain, advice, changes>>

TuningInit ==
    /\ policy = StartPolicy
    /\ samples \in SampleSets
    /\ calibration = None /\ policyReport = None /\ chain = None /\ advice = None
    /\ changes = 0

-----------------------------------------------------------------------------
(* Calibration.                                                            *)

Share(n, d, otherwise) == IF d = 0 THEN otherwise ELSE (10000 * n) \div d

FalsePositiveCost == 4
FalseNegativeCost == 1

\* What a direct-answer threshold would have done to the samples.
BinaryAt(observed, t) ==
    LET Direct(i) == observed[i].score >= t
        N(direct, positive) == Cardinality({i \in DOMAIN observed :
                                  Direct(i) = direct /\ observed[i].positive = positive})
        tp == N(TRUE, TRUE)
        fp == N(TRUE, FALSE)
        fn == N(FALSE, TRUE)
        tn == N(FALSE, FALSE)
    IN  [threshold |-> t, precision |-> Share(tp, tp + fp, 10000), recall |-> Share(tp, tp + fn, 0),
         false |-> Share(fp, fp + tn, 0),
         loss |-> FalsePositiveCost * fp + FalseNegativeCost * fn]

Away(a, b) == IF a < b THEN b - a ELSE a - b

\* The first of two rows by a list of criteria, the smaller the better.
First(keys) ==
    LET at1 == {i \in DOMAIN keys : keys[i][1] # keys[i][2]}
        k   == CHOOSE i \in at1 : \A j \in at1 : i <= j
    IN  at1 # {} /\ keys[k][1] < keys[k][2]

FaqBeforeFarFirst(a, b, current) ==
    First(<<<<a.loss, b.loss>>, <<b.precision, a.precision>>, <<b.recall, a.recall>>,
            <<Away(b.threshold, current), Away(a.threshold, current)>>,
            <<b.threshold, a.threshold>>>>)

FaqBefore(a, b, current) ==
    First(<<<<a.loss, b.loss>>, <<b.precision, a.precision>>, <<b.recall, a.recall>>,
            <<Away(a.threshold, current), Away(b.threshold, current)>>,
            <<b.threshold, a.threshold>>>>)

Feasible(row) ==
    row.precision >= MinPrecision /\ row.recall >= MinRecall /\ row.false <= MaxFalseDirect

\* A threshold that meets the constraints if there is one, otherwise the least bad one,
\* which is reported all the same.
SelectFaqAlways(observed, current) ==
    LET rows == {BinaryAt(observed, t) : t \in FaqGrid}
        ok   == {r \in rows : Feasible(r)}
        pool == IF ok = {} THEN rows ELSE ok
    IN  [ok |-> observed # <<>>,
         row |-> CHOOSE r \in pool : \A s \in pool \ {r} : FaqBefore(r, s, current)]

SelectFaq(observed, current) ==
    LET rows == {BinaryAt(observed, t) : t \in FaqGrid}
        ok   == {r \in rows : Feasible(r)}
        pool == IF ok = {} THEN rows ELSE ok
    IN  IF observed = <<>> THEN [ok |-> FALSE, row |-> None]
        ELSE [ok |-> ok # {},
              row |-> CHOOSE r \in pool : \A s \in pool \ {r} : FaqBefore(r, s, current)]

SimulateIntentTrusting(case, minScore) ==
    IF case.score < minScore \/ case.predicted = case.rule.intent THEN case.rule.intent
    ELSE IF case.rule.reason = "default_knowledge" THEN case.predicted ELSE case.rule.intent

\* The gateway, replayed on the candidates of an earlier run with another threshold.
SimulateIntent(case, minScore) ==
    IF case.predicted = "FOLLOW_UP" /\ ~case.history THEN case.rule.intent
    ELSE IF case.score < minScore \/ case.predicted = case.rule.intent THEN case.rule.intent
    ELSE IF case.rule.reason = "default_knowledge" THEN case.predicted ELSE case.rule.intent

Labelled(cases) == {i \in DOMAIN cases : cases[i].expected # None}

IntentAt(cases, t) ==
    LET wrong == {i \in Labelled(cases) : SimulateIntent(cases[i], t) # cases[i].expected}
        grave == {i \in wrong : cases[i].critical}
    IN  [threshold |-> t, total |-> Cardinality(Labelled(cases)),
         correct |-> Cardinality(Labelled(cases) \ wrong),
         errors |-> 5 * Cardinality(grave) + Cardinality(wrong \ grave)]

IntentBefore(a, b, current) ==
    First(<<<<a.errors, b.errors>>, <<b.correct, a.correct>>,
            <<Away(a.threshold, current), Away(b.threshold, current)>>,
            <<a.threshold, b.threshold>>>>)

SelectIntent(cases, current) ==
    LET rows == {IntentAt(cases, t) : t \in IntentGrid}
        best == CHOOSE r \in rows : \A s \in rows \ {r} : IntentBefore(r, s, current)
    IN  [ok |-> best.total >= 6, row |-> best]

\* Samples whose question cannot be searched are left out and counted.
Calibrate(failed) ==
    /\ LET seen     == IF failed THEN <<>> ELSE samples.faq
           positive == Cardinality({i \in DOMAIN seen : seen[i].positive})
       IN  calibration' = [current |-> policy,
                           faq |-> SelectFaq(seen, policy.faq),
                           intent |-> SelectIntent(samples.intent, policy.intent),
                           positive |-> positive, negative |-> Len(seen) - positive,
                           failures |-> IF failed THEN Len(samples.faq) ELSE 0]
    /\ UNCHANGED <<policy, samples, policyReport, chain, advice, changes>>

-----------------------------------------------------------------------------
(* Evaluation of the policy in force.                                      *)

LiveIntent(case, minScore) ==
    Fuse(case.rule, case.predicted, case.score, case.history, minScore).intent

\* other: a critical case fails one of the checks that the thresholds do not decide.
EvaluatePolicy(other) ==
    /\ LET wrong == {i \in Labelled(samples.intent) :
                        LiveIntent(samples.intent[i], policy.intent) # samples.intent[i].expected}
       IN  policyReport' = [under |-> policy, wrong |-> wrong,
                      ok |-> ~other /\ \A i \in wrong : ~samples.intent[i].critical]
    /\ UNCHANGED <<policy, samples, calibration, chain, advice, changes>>

\* errors: questions the service failed on; what was wrong of the others is only advice.
EvaluateChain(errors) ==
    /\ chain' = [under |-> policy, errors |-> errors]
    /\ UNCHANGED <<policy, samples, calibration, policyReport, advice, changes>>

-----------------------------------------------------------------------------
(* Recommendation.                                                         *)

GlobalBlockers == chain = None \/ policyReport = None \/ chain.errors \/ ~policyReport.ok

FaqBlockers ==
    \/ ~calibration.faq.ok
    \/ calibration.positive < MinPositive \/ calibration.negative < MinNegative
    \/ calibration.failures > 0

IntentBlockers ==
    ~calibration.intent.ok \/ calibration.intent.row.total < MinIntentCases

\* A difference of exactly min_delta is one of two floats: either side of it may come out.
FarEnough(delta, rounding) == delta > 1 \/ (delta = 1 /\ rounding)

RecommendOne(current, row, blocked, rounding) ==
    IF row = None \/ blocked \/ ~FarEnough(Away(row.threshold, current), rounding) THEN None
    ELSE row.threshold

Recommend(rounding) ==
    /\ advice' =
         IF calibration = None THEN [faq |-> None, intent |-> None]
         ELSE [faq |-> RecommendOne(calibration.current.faq, calibration.faq.row,
                                    GlobalBlockers \/ FaqBlockers, rounding),
               intent |-> RecommendOne(calibration.current.intent, calibration.intent.row,
                                       GlobalBlockers \/ IntentBlockers, rounding)]
    /\ UNCHANGED <<policy, samples, calibration, policyReport, chain, changes>>

\* A person takes what is marked apply_candidate_after_review.
ApplyAdvice ==
    /\ advice # None /\ changes < MaxChanges
    /\ advice.faq # None \/ advice.intent # None
    /\ policy' = [faq    |-> IF advice.faq = None THEN policy.faq ELSE advice.faq,
                  intent |-> IF advice.intent = None THEN policy.intent ELSE advice.intent]
    /\ advice' = None
    /\ changes' = changes + 1
    /\ UNCHANGED <<samples, calibration, policyReport, chain>>

TuningNext ==
    \/ \E failed \in BOOLEAN : Calibrate(failed)
    \/ \E other \in BOOLEAN : EvaluatePolicy(other)
    \/ \E errors \in BOOLEAN : EvaluateChain(errors)
    \/ \E rounding \in BOOLEAN : Recommend(rounding)
    \/ ApplyAdvice

TuningSpec == TuningInit /\ [][TuningNext]_tuningVars

-----------------------------------------------------------------------------
(* Properties.                                                             *)

\* The calibration promises of its threshold what the policy evaluation then measures: the
\* replay of the gateway in a script and the gateway itself are two pieces of code, and an
\* evaluation under the proposed threshold, however much later, must make the same mistakes.
PromiseIsKept ==
    calibration # None /\ policyReport # None =>
        (policyReport.under.intent = calibration.intent.row.threshold =>
            Cardinality(Labelled(samples.intent) \ policyReport.wrong)
                = calibration.intent.row.correct)

\* Whatever mixture of reports the advice came from, a changed direct-answer threshold meets
\* every constraint on the samples it was calibrated with, and there were enough of them.
AdviceIsFeasible ==
    [][policy'.faq # policy.faq =>
          /\ Feasible(BinaryAt(samples.faq, policy'.faq))
          /\ Cardinality({i \in DOMAIN samples.faq : samples.faq[i].positive})
                >= MinPositive]_tuningVars

\* Tuning settles: once the proposed thresholds are in force, calibrating again with the same
\* samples proposes them again, so no series of ties makes two policies alternate.
TuningSettles ==
    calibration # None /\ calibration.failures = 0 =>
        /\ samples.faq # <<>> =>
             SelectFaq(samples.faq, calibration.faq.row.threshold).row = calibration.faq.row
        /\ SelectIntent(samples.intent, calibration.intent.row.threshold).row
             = calibration.intent.row

\* Tuning is safe: what the calibration promises the policy check finds, tuning settles, and
\* no threshold is changed for one that misses a constraint.
TuningIsSafe == [](PromiseIsKept /\ TuningSettles) /\ AdviceIsFeasible
=============================================================================
