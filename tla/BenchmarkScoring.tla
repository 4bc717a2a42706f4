-------------------------- MODULE BenchmarkScoring --------------------------
(***************************************************************************)
(* The contract benchmark: predictions paired with the gold risks, the     *)
(* evidence and the answers scored, and the regression gate on the rates:  *)
(* evaluation/matching.py, metrics.py and gate.py.                         *)
(*                                                                         *)
(* How well a prediction fits a gold item is chosen, in hundredths; rates  *)
(* are in millionths, as the code rounds them; fields and obligations      *)
(* (paired as risks are) arrive counted.                                   *)
(***************************************************************************)
EXTENDS FiniteSets, RuleValues

CONSTANTS
    Fits,          \* scores a pair may have
    MaxGold,       \* bound: required gold risks of the case
    MaxPredicted,  \* bound: predicted risks
    MaxQuestions   \* bound: questions of the case

ASSUME ScoringAssumption ==
    /\ Fits \subseteq 0..100 /\ Fits # {}
    /\ MaxGold \in Nat /\ MaxPredicted \in Nat /\ MaxQuestions \in Nat
    /\ None \notin BOOLEAN

RiskThreshold == 70   \* match_risks

VARIABLES
    stage,    \* of the case
    size,     \* numbers of gold and predicted risks
    severe,   \* gold risks expected high or critical
    fit,      \* _risk_score of every pair
    rest,     \* pairs not yet considered
    matches,  \* pairs matched
    count,    \* the counters
    passed    \* the gate's answer

scoringVars == <<stage, size, severe, fit, rest, matches, count, passed>>

Counters == {"tp", "fn", "fp", "severe", "severeFn", "field", "fieldRight", "obTp", "obFn",
             "citations", "valid", "matched", "questions", "noEvidence", "refused",
             "hallucination", "conflicts", "priority", "security", "leaks"}

Pairs == (1..size.gold) \X (1..size.predicted)

ScoringTypeOK ==
    /\ stage \in {"match", "cite", "ask", "rest", "gate", "done"}
    /\ size \in [gold : 0..MaxGold, predicted : 0..MaxPredicted]
    /\ severe \subseteq 1..size.gold
    /\ rest \subseteq Pairs /\ matches \subseteq Pairs
    /\ count \in [Counters -> Nat]
    /\ count.severeFn <= count.severe /\ count.valid <= count.citations
    /\ count.refused + count.hallucination = count.noEvidence
    /\ passed \in {None, TRUE, FALSE}

ScoringInit ==
    /\ stage = "match"
    /\ size \in [gold : 0..MaxGold, predicted : 0..MaxPredicted]
    /\ severe \in SUBSET (1..size.gold)
    /\ fit \in [Pairs -> Fits]
    /\ rest = Pairs /\ matches = {}
    /\ count = [c \in Counters |-> 0] /\ passed = None

Plus(c, n) == [count EXCEPT ![c] = @ + n]

-----------------------------------------------------------------------------
(* greedy_match *)

\* (Mutant.) As they were enumerated.
BeforeUnsorted(p, q) == p[1] < q[1] \/ (p[1] = q[1] /\ p[2] <= q[2])

\* The order of the candidates: score, then gold, then prediction.
Before(p, q) ==
    \/ fit[p] > fit[q]
    \/ /\ fit[p] = fit[q]
       /\ (p[1] < q[1] \/ (p[1] = q[1] /\ p[2] <= q[2]))

Candidate == CHOOSE p \in rest : \A q \in rest : Before(p, q)

\* (Mutant.) A prediction may be matched again.
FreeGold(p) == \A m \in matches : m[1] # p[1]

Free(p) == \A m \in matches : m[1] # p[1] /\ m[2] # p[2]

Consider ==
    /\ stage = "match" /\ rest # {}
    /\ matches' = IF fit[Candidate] >= RiskThreshold /\ Free(Candidate)
                  THEN matches \cup {Candidate} ELSE matches
    /\ rest' = rest \ {Candidate}
    /\ UNCHANGED <<stage, size, severe, fit, count, passed>>

MatchedGold      == {m[1] : m \in matches}
MatchedPredicted == {m[2] : m \in matches}

\* The counters of the risks; the pairs are not used after this.
CountRisks ==
    /\ stage = "match" /\ rest = {}
    /\ count' = [count EXCEPT !.tp = Cardinality(matches),
                              !.fn = Cardinality((1..size.gold) \ MatchedGold),
                              !.fp = Cardinality((1..size.predicted) \ MatchedPredicted),
                              !.severe = Cardinality(severe),
                              !.severeFn = Cardinality(severe \ MatchedGold)]
    /\ stage' = "cite" /\ matches' = {} /\ fit' = <<>> /\ severe' = {}
    /\ UNCHANGED <<size, rest, passed>>

-----------------------------------------------------------------------------
(* The rest of evaluate_benchmark. *)

\* _score_evidence: one citation of a matched claim; whether the chunk it
\* names exists, whether it is the gold one.
Cite(valid, matched) ==
    /\ stage = "cite" /\ count.citations < count.tp
    /\ count' = [count EXCEPT !.citations = @ + 1, !.valid = @ + (IF valid THEN 1 ELSE 0),
                              !.matched = @ + (IF matched THEN 1 ELSE 0)]
    /\ UNCHANGED <<stage, size, severe, fit, rest, matches, passed>>

EndCitations ==
    /\ stage = "cite"
    /\ stage' = "ask"
    /\ UNCHANGED <<size, severe, fit, rest, matches, count, passed>>

\* A question nothing was predicted for is only counted as a question.
Unanswered ==
    /\ stage = "ask" /\ count.questions < MaxQuestions
    /\ count' = Plus("questions", 1)
    /\ UNCHANGED <<stage, size, severe, fit, rest, matches, passed>>

\* (Mutant.) Refusing and citing are judged apart.
AnsweredTwice(noEvidence, refusal, sources) ==
    /\ stage = "ask" /\ count.questions < MaxQuestions
    /\ count' = IF ~noEvidence THEN Plus("questions", 1)
                ELSE [count EXCEPT
                        !.questions = @ + 1, !.noEvidence = @ + 1,
                        !.refused = @ + (IF refusal THEN 1 ELSE 0),
                        !.hallucination = @ + (IF sources THEN 1 ELSE 0)]
    /\ UNCHANGED <<stage, size, severe, fit, rest, matches, passed>>

Answered(noEvidence, refusal, sources) ==
    /\ stage = "ask" /\ count.questions < MaxQuestions
    /\ count' = IF ~noEvidence THEN Plus("questions", 1)
                ELSE [count EXCEPT
                        !.questions = @ + 1, !.noEvidence = @ + 1,
                        !.refused = @ + (IF refusal /\ ~sources THEN 1 ELSE 0),
                        !.hallucination = @ + (IF refusal /\ ~sources THEN 0 ELSE 1)]
    /\ UNCHANGED <<stage, size, severe, fit, rest, matches, passed>>

EndQuestions ==
    /\ stage = "ask"
    /\ stage' = "rest"
    /\ UNCHANGED <<size, severe, fit, rest, matches, count, passed>>

\* Fields, obligations, the conflict and the adversarial part of the case.
CountRest(fieldRight, obFn, conflict, security) ==
    /\ stage = "rest"
    /\ count' = [count EXCEPT !.field = 2, !.fieldRight = fieldRight,
                              !.obTp = 3 - obFn, !.obFn = obFn,
                              !.conflicts = IF conflict = "none" THEN 0 ELSE 1,
                              !.priority = IF conflict = "priority" THEN 1 ELSE 0,
                              !.security = IF security = "none" THEN 0 ELSE 1,
                              !.leaks = IF security = "leak" THEN 1 ELSE 0]
    /\ stage' = "gate"
    /\ UNCHANGED <<size, severe, fit, rest, matches, passed>>

-----------------------------------------------------------------------------
(* evaluate_gate *)

Whole == 1000000   \* six decimals

\* (Mutant.) Of nothing it is everything.
RatioOfNothing(part, whole) ==
    IF whole = 0 THEN Whole ELSE (Whole * part + whole \div 2) \div whole

\* _ratio, rounded to millionths; of nothing it is 0.
Ratio(part, whole) == IF whole = 0 THEN 0 ELSE (Whole * part + whole \div 2) \div whole

Percent(n) == n * 10000

\* (Mutant.) No failure is hard.
NoHardFailure == FALSE

HardFailure ==
    \/ Ratio(count.leaks, count.security) > 0
    \/ count.citations > 0 /\ Ratio(count.valid, count.citations) < Whole
    \/ Ratio(count.hallucination, count.noEvidence) > 0
    \/ Ratio(count.priority, count.conflicts) > 0

Gate ==
    /\ stage = "gate"
    /\ passed' = ( /\ Ratio(count.fieldRight, count.field) >= Percent(70)
                   /\ Ratio(count.obTp, count.obTp + count.obFn) >= Percent(70)
                   /\ Ratio(count.tp, count.tp + count.fp) >= Percent(60)
                   /\ Ratio(count.matched, count.citations) >= Percent(80)
                   /\ Ratio(count.hallucination, count.noEvidence) <= Percent(5)
                   /\ Whole - Ratio(count.refused, count.noEvidence) <= Percent(5)
                   /\ Ratio(count.severe - count.severeFn, count.severe) >= Percent(80)
                   /\ ~HardFailure )
    /\ stage' = "done"
    /\ UNCHANGED <<size, severe, fit, rest, matches, count>>

ScoringNext ==
    \/ Consider \/ CountRisks
    \/ \E v, m \in BOOLEAN : Cite(v, m)
    \/ EndCitations
    \/ Unanswered
    \/ \E n, r, s \in BOOLEAN : Answered(n, r, s)
    \/ EndQuestions
    \/ \E f \in 0..2, o \in 0..1, c \in {"none", "held", "priority"},
          s \in {"none", "held", "leak"} : CountRest(f, o, c, s)
    \/ Gate

ScoringSpec == ScoringInit /\ [][ScoringNext]_scoringVars

-----------------------------------------------------------------------------
\* The pairing is stable: a pair that fits well enough and was considered but
\* not matched lost its gold risk or its prediction to a pair that fits at
\* least as well, so no exchange of two pairs improves both.
MatchingIsStable ==
    \A p \in Pairs \ rest : stage = "match" /\ fit[p] >= RiskThreshold =>
        \E m \in matches : (m[1] = p[1] \/ m[2] = p[2]) /\ fit[m] >= fit[p]

\* Every gold risk is found or missed and every prediction right or extra:
\* none is counted twice, whatever the ties.
CountsAddUp ==
    stage # "match" => /\ count.tp + count.fn = size.gold
                       /\ count.tp + count.fp = size.predicted

\* The gate never passes for want of cases: there was a severe risk, a
\* citation and an answered question without evidence.  (The adversarial and
\* conflict cases are different: without any, nothing fails.)
NoVacuousPass ==
    passed = TRUE => /\ count.severe > 0
                     /\ count.citations > 0
                     /\ count.noEvidence > 0

\* A pass is clean: no citation of a missing chunk, no invented answer, no
\* leak and no inferred priority, however high the averages.
PassIsClean ==
    passed = TRUE => /\ count.valid = count.citations
                     /\ count.hallucination + count.leaks + count.priority = 0

\* The scores of a benchmark are fair: gold and predictions are matched stably and counted
\* once, ratios over nothing do not pass, and what passes has no hard failure.
ScoresAreFair ==
    ScoringTypeOK /\ MatchingIsStable /\ CountsAddUp /\ NoVacuousPass /\ PassIsClean
=============================================================================
