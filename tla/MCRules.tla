------------------------------ MODULE MCRules ------------------------------
(***************************************************************************)
(* The sequential rules of the system, one component at a time: the others *)
(* rest in one of their initial states.                                    *)
(***************************************************************************)
EXTENDS RoutingPolicy, AnswerGrading, ModelTasks, RiskMerging, BenchmarkScoring,
        ThresholdTuning, TimeRules, RegressionLoop

DefaultSettings == [faq |-> 20, doc |-> 20, context |-> 4, direct |-> 72, shortFaq |-> 30,
                    complexDoc |-> 24, shortChars |-> 20, fastChars |-> 48]
DefaultStrategy == [floor |-> 62, discount |-> 8, short |-> 78, low |-> 70, medium |-> 82,
                    mediumDirect |-> 82, pricing |-> 84, compliance |-> 86, lowDirect |-> 86,
                    followUpFaq |-> 24, strongFaqDoc |-> 8, knowledgeContext |-> 5,
                    guardContext |-> 6, tableContext |-> 7]
DefaultScores == [faq |-> 82, knowledge |-> 84, sourceShape |-> 85, directShape |-> 86]
TwoSources == <<"s1", "s2">>

\* The shipped values, which Rules.cfg gives to the constants, satisfy what the proofs about
\* RoutingPolicy suppose and the code does not check.
ASSUME ShippedValuesFit == ThresholdsFit /\ SizesFit

\* FAQ scores and questions with the intents of the rules and of the model: samples a
\* threshold can be found for, and samples with none.
StartingPolicy == [faq |-> 72, intent |-> 55]
Pos(score) == [score |-> score, positive |-> TRUE]
Neg(score) == [score |-> score, positive |-> FALSE]
FaqSamples ==
    { <<Pos(90), Pos(80), Neg(60)>>, <<Pos(90), Neg(75), Neg(60), Pos(71)>>,
      <<Pos(70), Pos(74), Neg(73), Neg(50)>>, <<Neg(73), Neg(75)>>,
      <<Pos(77), Pos(77), Neg(40), Neg(76)>>, <<Pos(90), Pos(90), Neg(40), Neg(40)>> }
Sample(reason, predicted, score, history, expected, critical) ==
    [rule |-> [intent |-> "KNOWLEDGE_QUERY", score |-> 60, reason |-> reason,
               rewrite |-> FALSE],
     predicted |-> predicted, score |-> score, history |-> history, expected |-> expected,
     critical |-> critical]
IntentSamples ==
    { [i \in 1..6 |-> Sample(IF i < 5 THEN "default_knowledge" ELSE "strong_rule",
                             IF i < 4 THEN "FAQ_QUERY" ELSE "FOLLOW_UP",
                             IF i = 4 THEN 70 ELSE 50 + 2 * i, i # 4, e, i = c)] :
          e \in {"FAQ_QUERY", "KNOWLEDGE_QUERY"}, c \in {1, 4} } \cup
    { [i \in 1..6 |-> Sample("default_knowledge", "FAQ_QUERY", 50 + 2 * i, FALSE,
                             IF i > k THEN "FAQ_QUERY"
                             ELSE IF i = 3 THEN None ELSE "KNOWLEDGE_QUERY", FALSE)] :
          k \in {2, 4} }
AllSamples == [faq : FaqSamples, intent : IntentSamples]

\* Words with every unit, direction and gap, rules the model may have made of them, and dates
\* at the ends of months and years, in a leap year and at weekends.
Words(about, offset, unit) ==
    [fixed |-> None, periodic |-> FALSE, about |-> about, offset |-> offset, unit |-> unit,
     business |-> FALSE, before |-> FALSE, after |-> TRUE]
EightWordings ==
    { Words("event", 1, "month"), Words("contract_effective", 13, "month"),
      [Words("event", 3, "day") EXCEPT !.business = TRUE],
      [Words("contract_signed", 1, "year") EXCEPT !.before = TRUE, !.after = FALSE],
      [Words("event", None, "day") EXCEPT !.after = FALSE], Words("event", None, "day"),
      [Words(None, None, "day") EXCEPT !.fixed = Date(2024, 3, 1)],
      [Words("event", 1, "month") EXCEPT !.periodic = TRUE] }
SixRules ==
    { NoExplicitDate,
      [NoExplicitDate EXCEPT !.offset = 30],
      [NoExplicitDate EXCEPT !.type = "relative_to_event", !.base = "event"],
      [NoExplicitDate EXCEPT !.type = "relative_to_event", !.base = "event", !.offset = 8,
                             !.business = TRUE, !.direction = "before"],
      [NoExplicitDate EXCEPT !.type = "relative_to_event", !.base = "event", !.offset = 11,
                             !.unit = "month", !.direction = "before"],
      [NoExplicitDate EXCEPT !.type = "fixed_date"] }
TenDates ==
    { Date(2023, 12, 31), Date(2024, 1, 30), Date(2024, 1, 31), Date(2024, 2, 29),
      Date(2024, 3, 1), Date(2024, 3, 2), Date(2024, 3, 3), Date(2024, 3, 31),
      Date(2025, 1, 31), Date(2025, 2, 28) }
TwoDays == {Date(2024, 3, 1), Date(2025, 2, 28)}

\* Regression sets: five cases, the last alone in its scenario; three of different kinds,
\* one of them alone in its source; and none.
OneCase(id, scenario, source, keywords, hit) ==
    [id |-> id, scenario |-> scenario, source |-> source, keywords |-> keywords, hit |-> hit,
     origin |-> None]

ThreeDatasets ==
    { [i \in 1..5 |-> OneCase(<<"a", "b", "c", "d", "e">>[i], IF i = 5 THEN "t2" ELSE "t1",
                        TRUE, TRUE, IF i = 1 THEN "faq_direct" ELSE None)],
      <<[OneCase("a", "t1", TRUE, TRUE, None) EXCEPT !.origin = "o1"],
        OneCase("b", "t2", TRUE, FALSE, "faq_direct"),
        OneCase("c", "t2", FALSE, TRUE, "rag")>>,
      <<>> }

Seen(rank, right, covered, error) ==
    [rank |-> rank, right |-> right, inferred |-> right, covered |-> covered, error |-> error]
FiveObservations == {Seen(1, TRUE, TRUE, FALSE), Seen(2, TRUE, TRUE, FALSE),
                     Seen(0, TRUE, TRUE, FALSE), Seen(1, FALSE, FALSE, FALSE),
                     Seen(1, FALSE, TRUE, TRUE)}
ScenarioOfRated == [f \in Rated |-> "t1"]

-----------------------------------------------------------------------------

VARIABLE component

Components == {"routing", "grading", "tasks", "merging", "scoring", "tuning",
               "times", "regression"}

Init ==
    /\ component \in Components
    /\ RoutingInit
    /\ component # "routing" => text.len = 8 /\ ~text.history /\ text.selected = NoSource
    /\ GradingInit /\ TasksInit /\ MergingInit
    /\ ScoringInit
    /\ component # "scoring" => size = [gold |-> 0, predicted |-> 0]
    /\ TuningInit
    /\ component # "tuning" => samples = CHOOSE s \in AllSamples : TRUE
    /\ TimeInit
    /\ component # "times" => timeText.periodic
    /\ RegressionInit
    /\ component # "regression" => dataset = <<>>

vars == <<component, routingVars, gradingVars, tasksVars, mergingVars, scoringVars,
          tuningVars, timeVars, regressionVars>>

Next ==
    \/ /\ component = "routing" /\ RoutingNext
       /\ UNCHANGED <<component, gradingVars, tasksVars, mergingVars, scoringVars, tuningVars,
                      timeVars, regressionVars>>
    \/ /\ component = "grading" /\ GradingNext
       /\ UNCHANGED <<component, routingVars, tasksVars, mergingVars, scoringVars, tuningVars,
                      timeVars, regressionVars>>
    \/ /\ component = "tasks" /\ TasksNext
       /\ UNCHANGED <<component, routingVars, gradingVars, mergingVars, scoringVars, tuningVars,
                      timeVars, regressionVars>>
    \/ /\ component = "merging" /\ MergingNext
       /\ UNCHANGED <<component, routingVars, gradingVars, tasksVars, scoringVars, tuningVars,
                      timeVars, regressionVars>>
    \/ /\ component = "scoring" /\ ScoringNext
       /\ UNCHANGED <<component, routingVars, gradingVars, tasksVars, mergingVars, tuningVars,
                      timeVars, regressionVars>>
    \/ /\ component = "tuning" /\ TuningNext
       /\ UNCHANGED <<component, routingVars, gradingVars, tasksVars, mergingVars, scoringVars,
                      timeVars, regressionVars>>
    \/ /\ component = "times" /\ TimeNext
       /\ UNCHANGED <<component, routingVars, gradingVars, tasksVars, mergingVars, scoringVars,
                      tuningVars, regressionVars>>
    \/ /\ component = "regression" /\ RegressionNext
       /\ UNCHANGED <<component, routingVars, gradingVars, tasksVars, mergingVars, scoringVars,
                      tuningVars, timeVars>>

Spec == Init /\ [][Next]_vars
=============================================================================
