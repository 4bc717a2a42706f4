---------------------------- MODULE RoutingPolicy ----------------------------
(***************************************************************************)
(* How one question is routed, from its text to the choice between a FAQ   *)
(* answer and a generated one: pipeline/steps.py (decide_route,            *)
(* prepare_retrieval), intent/classifier.py, intent/decision.py,           *)
(* scenarios/boundary.py and retrieval/strategy.py.                        *)
(*                                                                         *)
(* A text is its length and the scores its business categories get; what   *)
(* a regular expression says of it is chosen where the code first asks.    *)
(* Scores and thresholds are hundredths.                                   *)
(***************************************************************************)
EXTENDS Integers, Sequences, RuleValues

CONSTANTS
    Settings,    \* qa_core.config.settings
    Strategy,    \* [retrieval_strategy] of config/rules.toml
    RuleScores,  \* [intent_rule_scores] of config/rules.toml
    Sources,     \* the categories of the scenario, in their order
    NoSource,
    Lengths,     \* bound: lengths of a text
    MatchScores, \* bound: what a category may score
    ModelScores, \* bound: probabilities of the intent model
    FaqScores    \* bound: scores of the best FAQ

SourceSet == {Sources[i] : i \in 1..Len(Sources)}

\* config/settings.py and the checks of config/rules.py.
ASSUME SettingsAssumption ==
    Settings \in [faq : Nat, doc : Nat, context : Nat, direct : Nat, shortFaq : Nat,
                  complexDoc : Nat, shortChars : Nat, fastChars : Nat]
ASSUME StrategyAssumption ==
    /\ Strategy \in [floor : Nat, discount : Nat, short : Nat, low : Nat, medium : Nat,
                     mediumDirect : Nat, pricing : Nat, compliance : Nat, lowDirect : Nat,
                     followUpFaq : Nat, strongFaqDoc : Nat, knowledgeContext : Nat,
                     guardContext : Nat, tableContext : Nat]
    /\ Strategy.low < Strategy.medium
ASSUME ScoresAssumption ==
    /\ RuleScores \in [faq : 1..100, knowledge : 1..100, sourceShape : 1..100, directShape : 1..100]
    /\ RuleScores.faq < RuleScores.knowledge
    /\ RuleScores.knowledge < RuleScores.sourceShape
    /\ RuleScores.sourceShape < RuleScores.directShape
ASSUME TextAssumption ==
    /\ Lengths \subseteq Nat /\ MatchScores \subseteq Nat
    /\ ModelScores \subseteq 0..100 /\ FaqScores \subseteq Nat
    /\ Sources \in Seq(SourceSet) /\ NoSource \notin SourceSet

VARIABLES
    at,        \* where the question is
    text,      \* the question, later the rewritten question
    rule,      \* IntentResult of the rules
    decision,  \* IntentResult of the gateway
    plan,      \* RetrievalPlan
    asks,      \* what the plan has seen in the text
    faq        \* how a FAQ has answered

routingVars == <<at, text, rule, decision, plan, asks, faq>>

-----------------------------------------------------------------------------

Intents    == {"FAQ_QUERY", "KNOWLEDGE_QUERY", "FOLLOW_UP"}
Categories == {"default", "pricing", "compliance", "troubleshooting", "summary"}
Reasons    == {"follow_up_rule", "strong_rule", "default_knowledge"}
DecisionPolicies   == {"no_history", "low_confidence", "agreed", "assisted", "conflict"}
Places     == {"ask", "boundary", "fast", "classify", "gateway", "rewrite", "plan", "faq",
               "direct", "refused", "answered", "documents", "error"}

Text     == [len : Lengths, history : BOOLEAN, selected : SourceSet \cup {NoSource},
             source : SourceSet \cup {NoSource}]
Rule     == [intent : Intents, score : 0..100, reason : Reasons, rewrite : BOOLEAN]
Decision == [intent : Intents, score : 0..100, policy : DecisionPolicies, rewrite : BOOLEAN]
Plan     == [faq : Nat, doc : Nat, context : Nat, threshold : Nat, exact : BOOLEAN]
Asks     == [category : Categories, table : BOOLEAN]
Faq      == [exact : BOOLEAN, score : Nat, fast : BOOLEAN]

RoutingTypeOK ==
    /\ at \in Places
    /\ text \in Text
    /\ rule \in Rule \cup {None}
    /\ decision \in Decision \cup {None}
    /\ plan \in Plan \cup {None}
    /\ asks \in Asks \cup {None}
    /\ faq \in Faq \cup {None}

RoutingInit ==
    /\ at = "ask"
    /\ \E n \in Lengths, h \in BOOLEAN, s \in SourceSet \cup {NoSource} :
          text = [len |-> n, history |-> h, selected |-> s, source |-> NoSource]
    /\ rule = None /\ decision = None /\ plan = None /\ asks = None /\ faq = None

-----------------------------------------------------------------------------
(* decide_route: direct answers, the category boundary, the fast FAQ.      *)

HumanMaxLength == 18

\* Greetings, forbidden topics and short requests for a person.
DirectIntent(shape) ==
    \/ shape \in {"greeting", "off_topic"}
    \/ shape = "human_service" /\ text.len <= HumanMaxLength

ClassifyDirect(shape) ==
    /\ at = "ask"
    /\ at' = IF DirectIntent(shape) THEN "direct" ELSE "boundary"
    /\ UNCHANGED <<text, rule, decision, plan, asks, faq>>

\* The category with the best score; the scenario's order decides a tie.
BestSource(scores) ==
    LET best == {i \in 1..Len(Sources) :
                    /\ scores[Sources[i]] > 0
                    /\ \A j \in 1..Len(Sources) : scores[Sources[j]] <= scores[Sources[i]]}
    IN  IF best = {} THEN NoSource
        ELSE Sources[CHOOSE i \in best : \A j \in best : i <= j]

\* The category asked for is not the one the text is about.
Mismatched(selected, source) ==
    selected # NoSource /\ source # NoSource /\ source # selected

\* A contract has a dataset of its own: its boundary is not looked at.
CheckBoundary(scores, isolated) ==
    /\ at = "boundary"
    /\ isolated => text.selected # NoSource
    /\ at' = IF ~isolated /\ Mismatched(text.selected, BestSource(scores))
               THEN "refused" ELSE "fast"
    /\ text' = [text EXCEPT !.source = BestSource(scores)]
    /\ UNCHANGED <<rule, decision, plan, asks, faq>>

TriesFastFaq(hint) == text.len <= Settings.fastChars /\ (hint \/ text.source # NoSource)

\* A hit is taken only when its standard question is the question asked.
FastFaq(hint, found) ==
    /\ at = "fast"
    /\ IF TriesFastFaq(hint) /\ found
         THEN /\ at' = "answered"
              /\ \E s \in FaqScores : faq' = [exact |-> TRUE, score |-> s, fast |-> TRUE]
         ELSE at' = "classify" /\ UNCHANGED faq
    /\ UNCHANGED <<text, rule, decision, plan, asks>>

-----------------------------------------------------------------------------
(* classify_intent and the decision gateway.                               *)

FollowUpMaxLength == 8
Hints == {"follow_up", "faq", "knowledge", "question_shape", "direct_shape"}

\* The strong rules that fire, with their scores.
StrongRules(hints) ==
    LET known == text.source # NoSource
    IN  {r \in {<<"faq", "FAQ_QUERY", RuleScores.faq>>,
                <<"knowledge", "KNOWLEDGE_QUERY", RuleScores.knowledge>>,
                <<"question_shape", "FAQ_QUERY", RuleScores.sourceShape>>,
                <<"direct_shape", "FAQ_QUERY", RuleScores.directShape>>} :
            /\ r[1] \in hints
            /\ r[1] = "question_shape" => known /\ text.len <= 32
            /\ r[1] = "direct_shape" => known /\ text.len <= 36
            /\ r[1] = "knowledge" => known \/ text.len <= 24}

IsFollowUp(hints) == text.history /\ ("follow_up" \in hints \/ text.len <= FollowUpMaxLength)

RuleOf(hints) ==
    LET fired == StrongRules(hints)
        best  == CHOOSE r \in fired : \A other \in fired : other[3] <= r[3]
    IN  IF IsFollowUp(hints)
          THEN [intent |-> "FOLLOW_UP", score |-> 80, reason |-> "follow_up_rule", rewrite |-> TRUE]
        ELSE IF fired # {}
          THEN [intent |-> best[2], score |-> best[3], reason |-> "strong_rule", rewrite |-> FALSE]
        ELSE [intent |-> "KNOWLEDGE_QUERY", score |-> 60, reason |-> "default_knowledge",
              rewrite |-> FALSE]

Classify(hints) ==
    /\ at = "classify"
    /\ rule' = RuleOf(hints)
    /\ at' = "gateway"
    /\ UNCHANGED <<text, decision, plan, asks, faq>>

ModelMinScore   == 55
AgreementBoost  == 3
ConflictScore   == 68

AgreedUncapped(a, b) == Larger(a, b) + AgreementBoost

\* Rule and model agree: the better score of the two, and a little more.
Agreed(a, b) == Smaller(100, Larger(a, b) + AgreementBoost)

FuseUnguarded(r, predicted, score, history, minScore) ==
    IF score < minScore
      THEN [intent |-> r.intent, score |-> r.score, policy |-> "low_confidence"]
    ELSE IF predicted = r.intent
      THEN [intent |-> r.intent, policy |-> "agreed",
            score |-> Agreed(r.score, score)]
    ELSE IF r.reason = "default_knowledge"
      THEN [intent |-> predicted, score |-> score, policy |-> "assisted"]
    ELSE [intent |-> r.intent, score |-> Smaller(r.score, ConflictScore), policy |-> "conflict"]

\* Which intent is kept and with which score; only the default gives way.
Fuse(r, predicted, score, history, minScore) ==
    IF predicted = "FOLLOW_UP" /\ ~history
      THEN [intent |-> r.intent, score |-> r.score, policy |-> "no_history"]
    ELSE IF score < minScore
      THEN [intent |-> r.intent, score |-> r.score, policy |-> "low_confidence"]
    ELSE IF predicted = r.intent
      THEN [intent |-> r.intent, policy |-> "agreed",
            score |-> Agreed(r.score, score)]
    ELSE IF r.reason = "default_knowledge"
      THEN [intent |-> predicted, score |-> score, policy |-> "assisted"]
    ELSE [intent |-> r.intent, score |-> Smaller(r.score, ConflictScore), policy |-> "conflict"]

Gateway(predicted, score) ==
    /\ at = "gateway"
    /\ LET f == Fuse(rule, predicted, score, text.history, ModelMinScore)
       IN  decision' = [intent |-> f.intent, score |-> f.score, policy |-> f.policy,
                        rewrite |-> rule.rewrite \/ f.intent = "FOLLOW_UP"]
    /\ at' = "rewrite"
    /\ UNCHANGED <<text, rule, plan, asks, faq>>

\* The model writes another text, or nothing, which is an error.
Rewrite(length, empty) ==
    /\ at = "rewrite"
    /\ IF decision.rewrite /\ text.history
         THEN /\ at' = IF empty THEN "error" ELSE "plan"
              /\ text' = [text EXCEPT !.len = length]
         ELSE at' = "plan" /\ UNCHANGED text
    /\ UNCHANGED <<rule, decision, plan, asks, faq>>

-----------------------------------------------------------------------------
(* build_retrieval_plan: base parameters and the patches applied to them.  *)

IsShort == text.len <= Settings.shortChars

BaseParams ==
    [faq |-> IF IsShort THEN Settings.shortFaq ELSE Settings.faq, doc |-> Settings.doc,
     context |-> Settings.context, threshold |-> Settings.direct, exact |-> FALSE]

ManyDocs == Larger(Settings.doc, Settings.complexDoc)

IntentPatch(p, intent) ==
    CASE intent = "FAQ_QUERY" ->
            [p EXCEPT !.doc = Larger(Strategy.strongFaqDoc, Settings.doc \div 2),
                      !.threshold = Larger(Strategy.floor, Settings.direct - Strategy.discount)]
      [] intent = "KNOWLEDGE_QUERY" ->
            [p EXCEPT !.doc = Larger(@, ManyDocs), !.context = Larger(@, Strategy.knowledgeContext)]
      [] intent = "FOLLOW_UP" ->
            [p EXCEPT !.faq = Larger(Settings.faq, Strategy.followUpFaq),
                      !.doc = Larger(@, ManyDocs), !.context = Larger(@, Strategy.knowledgeContext),
                      !.threshold = Larger(@, Larger(Settings.direct,
                                          Larger(Strategy.short, Strategy.mediumDirect)))]

ShortPatchLate(p, intent) ==
    IF IsShort /\ intent # "FOLLOW_UP"
      THEN [p EXCEPT !.doc = Smaller(@, Settings.context), !.threshold = Larger(@, Strategy.short)]
      ELSE p

ShortPatch(p, intent) ==
    IF IsShort /\ intent # "FOLLOW_UP"
      THEN [p EXCEPT !.doc = Smaller(@, Larger(12, 2 * Settings.context)),
                     !.threshold = Larger(@, Strategy.short)]
      ELSE p

ScorePatchReplaces(p, score) ==
    IF score < Strategy.low
      THEN [p EXCEPT !.doc = Larger(@, Settings.complexDoc),
                     !.context = Larger(@, Strategy.guardContext),
                     !.threshold = Settings.direct, !.exact = TRUE]
    ELSE IF score < Strategy.medium
      THEN [p EXCEPT !.doc = Larger(@, Settings.doc), !.threshold = Strategy.mediumDirect]
    ELSE p

ScorePatch(p, score) ==
    IF score < Strategy.low
      THEN [p EXCEPT !.doc = Larger(@, Settings.complexDoc),
                     !.context = Larger(@, Strategy.guardContext),
                     !.threshold = Larger(@, Larger(Settings.direct, Strategy.lowDirect)),
                     !.exact = TRUE]
    ELSE IF score < Strategy.medium
      THEN [p EXCEPT !.doc = Larger(@, Settings.doc),
                     !.threshold = Larger(@, Larger(Settings.direct, Strategy.mediumDirect))]
    ELSE p

CategoryPatch(p, category) ==
    IF category = "default" THEN p
    ELSE [p EXCEPT !.faq = IF category = "pricing" THEN Larger(@, Settings.faq) ELSE @,
                   !.doc = Larger(@, Settings.complexDoc),
                   !.context = Larger(@, Strategy.guardContext),
                   !.threshold = CASE category = "pricing" -> Larger(@, Strategy.pricing)
                                   [] category = "compliance" -> Larger(@, Strategy.compliance)
                                   [] OTHER -> @]

TablePatch(p, table) ==
    IF table THEN [p EXCEPT !.doc = Larger(@, Settings.complexDoc),
                            !.context = Larger(@, Strategy.tableContext), !.exact = TRUE]
    ELSE p

PlanFor(intent, score, category, table) ==
    TablePatch(CategoryPatch(ScorePatch(ShortPatch(IntentPatch(BaseParams, intent), intent),
                                        score), category), table)

BuildPlan(category, table) ==
    /\ at = "plan"
    /\ plan' = PlanFor(decision.intent, decision.score, category, table)
    /\ asks' = [category |-> category, table |-> table]
    /\ at' = "faq"
    /\ UNCHANGED <<text, rule, decision, faq>>

\* The best FAQ answers when it is the question asked, or scores enough.
FaqAnswersByScore(exact, score) == exact \/ score >= plan.threshold

FaqAnswers(exact, score) == exact \/ (~plan.exact /\ score >= plan.threshold)

FaqDirect(found, exact, score) ==
    /\ at = "faq"
    /\ IF found /\ FaqAnswers(exact, score)
         THEN at' = "answered" /\ faq' = [exact |-> exact, score |-> score, fast |-> FALSE]
         ELSE at' = "documents" /\ UNCHANGED faq
    /\ UNCHANGED <<text, rule, decision, plan, asks>>

-----------------------------------------------------------------------------

RoutingNext ==
    \/ \E shape \in {"greeting", "off_topic", "human_service", "other"} : ClassifyDirect(shape)
    \/ \E scores \in [SourceSet -> MatchScores], isolated \in BOOLEAN :
          CheckBoundary(scores, isolated)
    \/ \E hint, found \in BOOLEAN : FastFaq(hint, found)
    \/ \E hints \in SUBSET Hints : Classify(hints)
    \/ \E i \in Intents, s \in ModelScores : Gateway(i, s)
    \/ \E n \in Lengths, empty \in BOOLEAN : Rewrite(n, empty)
    \/ \E c \in Categories, t \in BOOLEAN : BuildPlan(c, t)
    \/ \E found, exact \in BOOLEAN, s \in FaqScores : FaqDirect(found, exact, s)

RoutingSpec == RoutingInit /\ [][RoutingNext]_routingVars

-----------------------------------------------------------------------------
(* Properties.                                                             *)

\* What the loader of the configuration does not check and the plan relies on: a conflict is
\* always a low score, and less certainty never asks for less of a FAQ.
ThresholdsFit ==
    /\ ConflictScore < Strategy.low
    /\ Strategy.mediumDirect <= Strategy.lowDirect

\* Likewise of the sizes: every search gathers what any prompt may hold.
SizesFit ==
    /\ \A n \in {Settings.context, Strategy.knowledgeContext, Strategy.guardContext,
                 Strategy.tableContext} : n <= Settings.complexDoc
    /\ Settings.doc <= Settings.complexDoc
    /\ 2 * Settings.context <= Settings.doc
    /\ Strategy.knowledgeContext <= Larger(12, 2 * Settings.context)

Planned == at \in {"faq", "answered", "documents"} /\ plan # None

\* A FAQ answers another question than its own only when rule and model have not
\* contradicted each other, the decision is not weak, no table is asked for, and its score
\* passes every guard that applies to the text: several patches away from each other, an
\* assignment in one of them can undo the raise of another.
FuzzyFaqIsEarned ==
    at = "answered" /\ ~faq.exact =>
        /\ decision.policy # "conflict" /\ decision.score >= Strategy.low /\ ~asks.table
        /\ decision.intent = "FAQ_QUERY" => faq.score >= Strategy.floor
        /\ decision.score < Strategy.medium => faq.score >= Strategy.mediumDirect
        /\ IsShort => faq.score >= Strategy.short
        /\ asks.category = "pricing" => faq.score >= Strategy.pricing
        /\ asks.category = "compliance" => faq.score >= Strategy.compliance

\* A question is searched with its history exactly when it is a follow-up, whether the rules
\* or the model said so, and never without a history to complete it from.
FollowUpIsRewritten ==
    decision # None =>
        /\ decision.intent = "FOLLOW_UP" <=> decision.rewrite
        /\ decision.rewrite => text.history

\* Doubt only tightens: with a better decision score the same question would have no higher
\* threshold, would not lose the fuzzy answer, and would not get fewer documents.
DoubtOnlyTightens ==
    Planned => \A s \in decision.score..100 :
        LET surer == PlanFor(decision.intent, s, asks.category, asks.table)
        IN  /\ surer.threshold <= plan.threshold
            /\ surer.exact => plan.exact
            /\ surer.doc <= plan.doc /\ surer.context <= plan.context

\* The search gathers at least as many documents as the prompt is to hold, although the
\* short-question patch lowers the one and the later patches raise the other.
GathersEnough ==
    Planned => plan.doc >= plan.context

\* The route of a question is safe whatever rules, model and FAQ say: a fuzzy FAQ answer is
\* earned, a follow-up is completed from its history, doubt only tightens, and the search
\* gathers what the prompt needs.
QuestionsAreRoutedSafely ==
    RoutingTypeOK /\ FuzzyFaqIsEarned /\ FollowUpIsRewritten /\ DoubtOnlyTightens /\ GathersEnough
=============================================================================
