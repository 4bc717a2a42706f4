----------------------------- MODULE RiskMerging -----------------------------
(***************************************************************************)
(* The risks of one analysis: rules over its obligations, risks the model  *)
(* finds, the check of their evidence, their merging and the levels that   *)
(* come of them: contracts/risk.py, semantic_risk.py, evidence.py.         *)
(*                                                                         *)
(* A risk the model reports is what it is about, what it cites and how it  *)
(* scores; that a quote is in its chunk is chosen.  Levels are 1..4.       *)
(***************************************************************************)
EXTENDS Integers, FiniteSets, FiniteSetsExt, RuleValues

CONSTANTS
    Obligations,  \* obligations of the contract
    Names,        \* normalised risk keys
    Chunks,       \* chunks of the contract's documents
    Retrieved,    \* those given to the model
    Scores,       \* bound: scores the model gives
    MaxFound      \* bound: risks the model finds

ASSUME MergingAssumption ==
    /\ Retrieved \subseteq Chunks
    /\ Scores \subseteq Nat
    /\ MaxFound \in Nat

LowLevel      == 1
MediumLevel   == 2
HighLevel     == 3
CriticalLevel == 4
Levels == LowLevel..CriticalLevel

\* risk_fingerprint: the obligation, or else the chunk; and the key.
Fingerprint == (Obligations \cup {None}) \X (Chunks \cup {None}) \X Names

Risk == [level : Levels, source : {"rule", "llm", "hybrid"}, evidence : Chunks \cup {None},
         review : BOOLEAN]

\* A fingerprint without a risk is told from one with a risk.
ASSUME NoneIsNoRisk == None \notin Risk

VARIABLES
    phase,   \* where the analysis is
    judged,  \* obligations the rules have looked at
    found,   \* number of risks the model has reported
    merged,  \* risks by fingerprint
    levels,  \* risk level of each obligation
    overall, \* risk level of the contract
    worst    \* history: the highest level each fingerprint was reported with

mergingVars == <<phase, judged, found, merged, levels, overall, worst>>

MergingTypeOK ==
    /\ phase \in {"rules", "semantic", "apply", "done"}
    /\ judged \subseteq Obligations
    /\ found \in 0..MaxFound
    /\ merged \in [Fingerprint -> Risk \cup {None}]
    /\ levels \in [Obligations -> Levels]
    /\ overall \in Levels
    /\ worst \in [Fingerprint -> 0..CriticalLevel]

MergingInit ==
    /\ phase = "rules" /\ judged = {} /\ found = 0
    /\ merged = [f \in Fingerprint |-> None]
    /\ levels = [o \in Obligations |-> LowLevel]
    /\ overall = LowLevel
    /\ worst = [f \in Fingerprint |-> 0]

-----------------------------------------------------------------------------

Within(x) == Larger(1, Smaller(4, x))

NormalizeLevel(severity, likelihood, urgency) ==
    LET sum == Within(severity) + Within(likelihood) + Within(urgency)
    IN  CASE sum >= 11 -> CriticalLevel
          [] sum \in 8..10 -> HighLevel
          [] sum \in 5..7 -> MediumLevel
          [] OTHER -> LowLevel

\* An obligation has one relation and no place of its own; a risk without one has its chunk.
FingerprintOf(obligation, chunk, name) ==
    IF obligation # None THEN <<obligation, None, name>> ELSE <<None, chunk, name>>

MergeLater(current, risk) ==
    [risk EXCEPT !.source = IF current.source # risk.source THEN "hybrid" ELSE @,
                 !.evidence = IF @ = None THEN current.evidence ELSE @,
                 !.review = @ /\ current.review]

MergeCollecting(current, risk) ==
    [current EXCEPT !.level = Larger(@, risk.level), !.evidence = {@, risk.evidence} \ {None},
                    !.review = @ /\ risk.review]

\* One step of deduplicate_risks: the higher risk, with what evidence there is.
Merge(current, risk) ==
    LET higher == IF risk.level > current.level THEN risk ELSE current
    IN  [level    |-> higher.level,
         source   |-> IF current.source # risk.source THEN "hybrid" ELSE current.source,
         evidence |-> IF higher.evidence # None THEN higher.evidence
                      ELSE IF current.evidence # None THEN current.evidence ELSE risk.evidence,
         review   |-> current.review /\ risk.review]

Take(f, risk) ==
    /\ merged' = [merged EXCEPT ![f] = IF @ = None THEN risk ELSE Merge(@, risk)]
    /\ worst' = [worst EXCEPT ![f] = Larger(@, risk.level)]

RuleRisk(level, chunk) == [level |-> level, source |-> "rule", evidence |-> chunk, review |-> FALSE]

\* overdue_obligation_rule and upcoming_deadline_rule; its evidence is the obligation's.
JudgeObligation(o, state, urgent, chunk, name) ==
    /\ phase = "rules" /\ o \notin judged
    /\ judged' = judged \cup {o}
    /\ CASE state = "overdue" ->
              Take(FingerprintOf(o, chunk, name),
                   RuleRisk(NormalizeLevel(IF urgent THEN 4 ELSE 3, 4, 4), chunk))
         [] state = "upcoming" ->
              Take(FingerprintOf(o, chunk, name),
                   RuleRisk(NormalizeLevel(2, 3, IF urgent THEN 4 ELSE 3), chunk))
         [] OTHER -> UNCHANGED <<merged, worst>>
    /\ UNCHANGED <<phase, found, levels, overall>>

\* contract_expiry_rule, the last; its level is not a sum.
JudgeContract(expires, urgent, chunk, name) ==
    /\ phase = "rules" /\ judged = Obligations
    /\ IF expires
         THEN Take(FingerprintOf(None, chunk, name),
                   RuleRisk(IF urgent THEN HighLevel ELSE MediumLevel, chunk))
         ELSE UNCHANGED <<merged, worst>>
    /\ phase' = "semantic"
    /\ UNCHANGED <<judged, found, levels, overall>>

\* validate_source_evidence: only a quote found in a chunk the model was given.
Grounded(chunk, quoted) == IF chunk \in Retrieved /\ quoted THEN chunk ELSE None

SemanticRiskUncapped(level, evidence, review) ==
    [level |-> level, source |-> "llm", evidence |-> evidence, review |-> review \/ evidence = None]

\* normalize_semantic_risk, on what ground_model_evidence has left of the risk.
SemanticRisk(level, evidence, review) ==
    [level    |-> IF evidence = None THEN Smaller(level, MediumLevel) ELSE level,
     source   |-> "llm",
     evidence |-> evidence,
     review   |-> review \/ evidence = None]

\* A conflict is dropped when its evidence comes from fewer than two documents.
ReportRisk(o, chunk, quoted, name, level, unsure, oneSided) ==
    LET evidence == Grounded(chunk, quoted)
        risk     == SemanticRisk(level, evidence, unsure)
    IN  /\ phase = "semantic" /\ found < MaxFound
        /\ found' = found + 1
        /\ IF oneSided THEN UNCHANGED <<merged, worst>>
           ELSE Take(FingerprintOf(o, evidence, name), risk)
        /\ UNCHANGED <<phase, judged, levels, overall>>

\* No more risks; or the call has failed and those of the rules remain.
EndSemantic ==
    /\ phase = "semantic"
    /\ phase' = "apply"
    /\ UNCHANGED <<judged, found, merged, levels, overall, worst>>

Present == {f \in Fingerprint : merged[f] # None}
WorstOf(fs) == Max({merged[f].level : f \in fs} \cup {LowLevel})

ApplyUnlessGiven(given) ==
    /\ phase = "apply"
    /\ levels' = [o \in Obligations |->
                    IF given[o] > LowLevel THEN given[o] ELSE WorstOf({f \in Present : f[1] = o})]
    /\ overall' = WorstOf(Present)
    /\ phase' = "done"
    /\ UNCHANGED <<judged, found, merged, worst>>

\* apply_obligation_risk_levels and overall_risk_level.  The model may have given an
\* obligation a level; one that has no risk above low keeps it.
Apply(given) ==
    /\ phase = "apply"
    /\ levels' = [o \in Obligations |->
                    LET w == WorstOf({f \in Present : f[1] = o})
                    IN  IF w > LowLevel THEN w ELSE given[o]]
    /\ overall' = WorstOf(Present)
    /\ phase' = "done"
    /\ UNCHANGED <<judged, found, merged, worst>>

MergingNext ==
    \/ \E o \in Obligations, s \in {"overdue", "upcoming", "quiet"}, u \in BOOLEAN,
          c \in Retrieved \cup {None}, n \in Names : JudgeObligation(o, s, u, c, n)
    \/ \E e, u \in BOOLEAN, c \in Retrieved \cup {None}, n \in Names : JudgeContract(e, u, c, n)
    \/ \E o \in Obligations \cup {None}, c \in Chunks \cup {None}, q \in BOOLEAN, n \in Names,
          s, l, u \in Scores, unsure, oneSided \in BOOLEAN :
             ReportRisk(o, c, q, n, NormalizeLevel(s, l, u), unsure, oneSided)
    \/ EndSemantic
    \/ \E given \in [Obligations -> {LowLevel, HighLevel}] : Apply(given)

MergingSpec == MergingInit /\ [][MergingNext]_mergingVars

-----------------------------------------------------------------------------
(* Properties.                                                             *)

\* Merging two reports of a risk never lowers it, whichever comes first: the merged level is
\* the highest it was reported with, after the cap on reports without evidence.
NothingIsDowngraded ==
    \A f \in Fingerprint : IF merged[f] = None THEN worst[f] = 0 ELSE merged[f].level = worst[f]

\* A risk that only the model sees is high or critical only on a quote found in a chunk it
\* was given, however often it is reported; without a quote it is marked for review.
ModelAloneNeedsEvidence ==
    \A f \in Present :
        merged[f].source = "llm" /\ (merged[f].level >= HighLevel \/ ~merged[f].review) =>
        merged[f].evidence \in Retrieved

\* What is shown for the contract and its obligations is at least as bad as every risk
\* shown below it.
LevelsShowTheWorst ==
    phase = "done" => \A f \in Present :
        /\ overall >= merged[f].level
        /\ f[1] # None => levels[f[1]] >= merged[f].level

\* Merging the risks found by rules and by the model errs on the side of caution: no report is
\* played down, the model alone needs evidence, and what is shown is the worst.
MergingIsCautious ==
    MergingTypeOK /\ NothingIsDowngraded /\ ModelAloneNeedsEvidence /\ LevelsShowTheWorst
=============================================================================
