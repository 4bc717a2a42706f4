--------------------------- MODULE RegressionLoop ---------------------------
(***************************************************************************)
(* The loop that keeps answers from regressing: evaluate the regression    *)
(* set, gate the report, draft bad cases from its rows or from feedback,   *)
(* review them, promote them into the set.  scripts/evaluate_core_chain,   *)
(* quality/check_evaluation_gate, extract_bad_cases_from_report,           *)
(* export_feedback_bad_cases and promote_bad_cases_to_regression.          *)
(*                                                                         *)
(* What the service answers is chosen from Observations.  Shares are in    *)
(* hundredths and compared exactly (the code rounds them to four places).  *)
(* The expected prompt profile is judged as the expected effective source  *)
(* is, and only that one is kept; timing and the confidence average (no    *)
(* gate by default) are left out.                                          *)
(***************************************************************************)
EXTENDS Sequences, SequencesExt, FiniteSets, RuleValues

CONSTANTS
    CaseIds,       \* ids of the cases written by hand
    Datasets,      \* the regression sets the loop may start from
    Scenarios,
    Origins,       \* sources a case may expect to be searched
    Rated,         \* feedback ids: what a user may rate not_useful
    ScenarioOf,    \* the scenario of each
    Observations,  \* what answering a case may show
    Policies,      \* --conflict of the promotions made
    Limit,         \* --limit of the evaluation
    MaxRounds      \* bound: evaluations

Hits == {None, "faq_direct", "rag"}

\* A regression case: its stable id and the expectations it carries (source: text of a
\* source it must find; origin: the effective source; hit: how it must be answered).
Case == [id : CaseIds \cup Rated, scenario : Scenarios, source : BOOLEAN, keywords : BOOLEAN,
         hit : Hits, origin : Origins \cup {None}]

\* rank: of the expected source, 0 if it is not found; right: the hit type is the expected
\* one; inferred: the effective source is; covered: enough keywords are in the answer.
Observation == [rank : 0..2, right : BOOLEAN, inferred : BOOLEAN, covered : BOOLEAN,
                error : BOOLEAN]

CaseRow == [case : Case, seen : Observation]

ASSUME RegressionAssumption ==
    /\ Datasets \subseteq Seq(Case)
    /\ \A d \in Datasets : \A i, j \in DOMAIN d : d[i].id = d[j].id => i = j
    /\ Observations \subseteq Observation
    /\ ScenarioOf \in [Rated -> Scenarios]
    /\ Policies \subseteq {"replace", "skip", "error"}
    /\ Limit \in Nat \ {0} /\ MaxRounds \in Nat

ASSUME NoneIsNoHit == None \notin {"faq_direct", "rag", "passed", "failed"}

VARIABLES
    dataset,  \* eval_sets/<target>.json
    running,  \* the cases being evaluated
    rows,     \* rows of the report so far
    gated,  \* of the gate on the report
    feedback, \* feedback stored
    drafts,   \* the two bad case files
    rounds

regressionVars == <<dataset, running, rows, gated, feedback, drafts, rounds>>

Files == {"report", "feedback"}

RegressionTypeOK ==
    /\ \A i \in DOMAIN dataset : dataset[i] \in Case
    /\ \A i, j \in DOMAIN dataset : dataset[i].id = dataset[j].id => i = j
    /\ Len(rows) <= Len(running) /\ Len(running) <= Limit
    /\ \A i \in DOMAIN rows : rows[i].case = running[i] /\ rows[i].seen \in Observation
    /\ gated \in {None, "passed", "failed"}
    /\ feedback \subseteq Rated
    /\ \A f \in Files : \A i \in DOMAIN drafts[f] : drafts[f][i] \in Case
    /\ rounds \in 0..MaxRounds

RegressionInit ==
    /\ dataset \in Datasets
    /\ running = <<>> /\ rows = <<>> /\ gated = None
    /\ feedback = {} /\ drafts = [f \in Files |-> <<>>] /\ rounds = 0

-----------------------------------------------------------------------------
(* Evaluation. *)

Complete == rounds > 0 /\ Len(rows) = Len(running)

\* Only the first Limit cases of the file are loaded.
Evaluate ==
    /\ Len(rows) = Len(running) /\ rounds < MaxRounds
    /\ running' = SubSeq(dataset, 1, Smaller(Limit, Len(dataset)))
    /\ rows' = <<>> /\ gated' = None /\ rounds' = rounds + 1
    /\ UNCHANGED <<dataset, feedback, drafts>>

\* A case that fails has no end event, hence no hit type; its sources come
\* from the retrieval made for diagnosis and may still be ranked.
RunCase(o) ==
    /\ Len(rows) < Len(running)
    /\ rows' = Append(rows, [case |-> running[Len(rows) + 1],
                             seen |-> [o EXCEPT !.right = o.right /\ ~o.error]])
    /\ UNCHANGED <<dataset, running, gated, feedback, drafts, rounds>>

-----------------------------------------------------------------------------
(* The gate.  I is a set of rows, by index. *)

WithSource(I) == {i \in I : rows[i].case.source}
WithHit(I)    == {i \in I : rows[i].case.hit # None}
WithOrigin(I) == {i \in I : rows[i].case.origin # None}
WithFaq(I)    == {i \in I : rows[i].case.hit = "faq_direct"}
Errors(I)     == {i \in I : rows[i].seen.error}

Recall   == [i \in DOMAIN rows |-> IF rows[i].seen.rank > 0 THEN 100 ELSE 0]
Rank     == [i \in DOMAIN rows |-> IF rows[i].seen.rank > 0 THEN 100 \div rows[i].seen.rank ELSE 0]
Coverage == [i \in DOMAIN rows |-> IF rows[i].case.keywords /\ rows[i].seen.covered THEN 100 ELSE 0]
HitMatch == [i \in DOMAIN rows |-> IF rows[i].seen.right THEN 100 ELSE 0]
Inferred == [i \in DOMAIN rows |-> IF rows[i].seen.inferred THEN 100 ELSE 0]

SumOver(points, I) == SumOf([i \in DOMAIN points |-> IF i \in I THEN points[i] ELSE 0])

\* (Mutant.) No rows are a failure.
MeetsFromZero(I, points, minimum, ifEmpty) ==
    I # {} /\ SumOver(points, I) >= minimum * Cardinality(I)

\* An average over I is at least the minimum; over no rows it is ifEmpty.
Meets(I, points, minimum, ifEmpty) ==
    IF I = {} THEN ifEmpty >= minimum
    ELSE SumOver(points, I) >= minimum * Cardinality(I)

ScenarioPasses(I) ==
    /\ Errors(I) = {}
    /\ Meets(WithSource(I), Recall, 80, 100)
    /\ Meets(WithSource(I), Rank, 60, 100)
    /\ Meets(I, Coverage, 70, 100)

\* A source is judged as a scenario is, over the cases that expect it.
SourcePasses(I) == I = {} \/ ScenarioPasses(I)

HitTypePasses(I) == Meets(I, HitMatch, 70, 100)

\* (Mutant.) Only the report's own averages are judged.
GroupsIgnored == TRUE

\* _derive_group_metrics and add_group_failures.
GroupsPass ==
    /\ \A s \in Scenarios : LET I == {i \in DOMAIN rows : rows[i].case.scenario = s}
                            IN  I = {} \/ ScenarioPasses(I)
    /\ \A o \in Origins : SourcePasses({i \in DOMAIN rows : rows[i].case.origin = o})
    /\ \A h \in Hits \ {None} : HitTypePasses({i \in DOMAIN rows : rows[i].case.hit = h})

\* scenario_isolation_accuracy compares the scenarios asked for with the same
\* scenarios copied into the rows: it cannot fail.
ReportPasses ==
    LET I == DOMAIN rows IN
    /\ Errors(I) = {}
    /\ Meets(WithSource(I), Recall, 80, 0)
    /\ Meets(WithSource(I), Rank, 60, 0)
    /\ Meets(I, Coverage, 70, 0)
    /\ Meets(WithHit(I), HitMatch, 70, 0)
    /\ Meets(WithFaq(I), HitMatch, 70, 0)
    /\ Meets(WithOrigin(I), Inferred, 70, 100)
    /\ GroupsPass

CheckGate ==
    /\ Complete /\ gated = None
    /\ gated' = IF ReportPasses THEN "passed" ELSE "failed"
    /\ UNCHANGED <<dataset, running, rows, feedback, drafts, rounds>>

-----------------------------------------------------------------------------
(* Bad cases. *)

FailsExpectation(r) ==
    \/ r.seen.error
    \/ r.case.source /\ r.seen.rank = 0
    \/ r.case.hit # None /\ ~r.seen.right
    \/ r.case.origin # None /\ ~r.seen.inferred
    \/ r.case.keywords /\ ~r.seen.covered

\* The expectations of the case as the set holds it now, or of the row; the
\* row does not carry the expected source.
BadCase(r) ==
    LET now == Keeping(dataset, {c \in Case : c.id = r.case.id})
        old == IF now # <<>> THEN now[1] ELSE [r.case EXCEPT !.source = FALSE]
        Or(a, b) == IF a # None THEN a ELSE b
    IN  [r.case EXCEPT !.source = old.source, !.keywords = old.keywords \/ r.case.keywords,
                       !.hit = Or(old.hit, @), !.origin = Or(old.origin, @)]

ExtractBadCases ==
    /\ Complete
    /\ drafts' = [drafts EXCEPT !["report"] =
                    LET bad == Keeping(rows, {r \in CaseRow : FailsExpectation(r)})
                    IN  [i \in DOMAIN bad |-> BadCase(bad[i])]]
    /\ UNCHANGED <<dataset, running, rows, gated, feedback, rounds>>

\* POST /feedback with rating not_useful.
Rate(f) ==
    /\ f \notin feedback
    /\ feedback' = feedback \cup {f}
    /\ UNCHANGED <<dataset, running, rows, gated, drafts, rounds>>

\* A draft of a feedback expects nothing yet; what was exported before is
\* exported again.
Draft(f) == [id |-> f, scenario |-> ScenarioOf[f], source |-> FALSE, keywords |-> FALSE,
             hit |-> None, origin |-> None]

Export ==
    /\ feedback # {}
    /\ drafts' = [drafts EXCEPT !["feedback"] =
                    LET ids == SetToSeq(feedback) IN [i \in DOMAIN ids |-> Draft(ids[i])]]
    /\ UNCHANGED <<dataset, running, rows, gated, feedback, rounds>>

\* The reviewer completes the expectations of a draft.
Review(f, i) ==
    /\ i \in DOMAIN drafts[f]
    /\ drafts' = [drafts EXCEPT ![f][i].source = TRUE, ![f][i].keywords = TRUE]
    /\ UNCHANGED <<dataset, running, rows, gated, feedback, rounds>>

Ids(cases) == {cases[i].id : i \in DOMAIN cases}

\* (Mutants.) The policy is ignored; the ids are not looked at.
MergeCaseReplacing(cases, c, policy) ==
    IF c.id \notin Ids(cases) THEN Append(cases, c)
    ELSE [i \in DOMAIN cases |-> IF cases[i].id = c.id THEN c ELSE cases[i]]

MergeCaseAppending(cases, c, policy) == Append(cases, c)

\* A case that is new comes last, one that is known takes the place of the old one.
MergeCase(cases, c, policy) ==
    IF c.id \notin Ids(cases) THEN Append(cases, c)
    ELSE IF policy = "skip" THEN cases
    ELSE [i \in DOMAIN cases |-> IF cases[i].id = c.id THEN c ELSE cases[i]]

MergeCases(base, incoming, policy) ==
    LET merge[i \in 0..Len(incoming)] ==
            IF i = 0 THEN base ELSE MergeCase(merge[i - 1], incoming[i], policy)
    IN  merge[Len(incoming)]

\* With --conflict error a duplicate id stops the promotion, nothing written.
Promote(f, policy) ==
    /\ drafts[f] # <<>>
    /\ policy = "error" => Ids(drafts[f]) \cap Ids(dataset) = {}
    /\ dataset' = MergeCases(dataset, drafts[f], policy)
    /\ UNCHANGED <<running, rows, gated, feedback, drafts, rounds>>

RegressionNext ==
    \/ Evaluate
    \/ \E o \in Observations : RunCase(o)
    \/ CheckGate \/ ExtractBadCases \/ Export
    \/ \E f \in Rated : Rate(f)
    \/ \E f \in Files : \E i \in DOMAIN drafts[f] : Review(f, i)
    \/ \E f \in Files, p \in Policies : Promote(f, p)

RegressionSpec == RegressionInit /\ [][RegressionNext]_regressionVars

-----------------------------------------------------------------------------
\* A report that passes hides no scenario and no source: in each of them no case failed and
\* at most one expected source in five was lost, however good the others are.
NoGroupIsMasked ==
    gated = "passed" =>
        /\ \A i \in DOMAIN rows : ~rows[i].seen.error
        /\ \A asked \in {{i \in DOMAIN rows : rows[i].case.scenario = s /\ rows[i].case.source} :
                            s \in Scenarios}
                  \cup {{i \in DOMAIN rows : rows[i].case.origin = o /\ rows[i].case.source} :
                            o \in Origins} :
             5 * Cardinality({i \in asked : rows[i].seen.rank = 0}) <= Cardinality(asked)

\* The gate and the extraction agree on what is bad: when no row would be
\* drafted, every source is ranked first, every case has keywords and some
\* case expects a source and some a FAQ, the gate passes.
CleanRunPasses ==
    (/\ gated # None
     /\ \A i \in DOMAIN rows : /\ ~FailsExpectation(rows[i])
                               /\ rows[i].case.keywords
                               /\ rows[i].case.source => rows[i].seen.rank = 1
     /\ WithSource(DOMAIN rows) # {} /\ WithFaq(DOMAIN rows) # {})
    => gated = "passed"

\* No step drops a case from the set, and a promotion that does not replace (--conflict skip
\* or error) drops no expectation of a case either, whatever drafts it is given and however
\* old they are.  (With replace, the default, exporting the feedback again and promoting it
\* erases what the reviewer had completed.)
CasesAreKept ==
    /\ Ids(dataset) \subseteq Ids(dataset')
    /\ \/ \A i \in DOMAIN dataset :
            \E j \in DOMAIN dataset' :
               /\ dataset'[j].id = dataset[i].id
               /\ dataset[i].source => dataset'[j].source
               /\ dataset[i].keywords => dataset'[j].keywords
               /\ \A e \in {"hit", "origin"} :
                    dataset[i][e] # None => dataset'[j][e] # None
       \/ ~ \E f \in Files, p \in Policies \ {"replace"} : Promote(f, p)

PromotionNeverWeakens == [][CasesAreKept]_regressionVars

\* What was once bad stays under test: no failing scenario or source is masked by an average, the gate
\* passes what the extraction finds nothing wrong with, and no promotion weakens a case.
RegressionIsCaught ==
    [](RegressionTypeOK /\ NoGroupIsMasked /\ CleanRunPasses) /\ PromotionNeverWeakens
=============================================================================
