---------------------------- MODULE AnswerGrading ----------------------------
(***************************************************************************)
(* From the hits of a question to the confidence shown with its answer:    *)
(* pipeline/context.py (what goes into the prompt), citations.py (what is  *)
(* appended to a generated answer) and confidence.py (the grade).          *)
(*                                                                         *)
(* A document is its identity, its size, whether it is a table row and     *)
(* whether its score passes the minimum.  A claim of an answer is the      *)
(* documents it cites and the share of its words found in the context.     *)
(* Scores are hundredths; inside a formula, ten-thousandths.               *)
(***************************************************************************)
EXTENDS Integers, Sequences, FiniteSets, RuleValues

CONSTANTS
    Keys,         \* identities of documents (a row's parent, a FAQ)
    Sizes,        \* bound: sizes of a document
    MaxHits,      \* bound: hits of each search
    TopN,         \* plan.final_context_top_n
    MaxChars,     \* plan.max_context_chars
    MaxDocChars,  \* plan.max_context_doc_chars
    Overlaps,     \* bound: share of a claim found in the context, in percent
    MaxClaims,    \* bound: claims the model writes
    TopScores,    \* bound: normalised score of the best hit
    IntentScores, \* bound: score of the intent decision
    LengthSignals \* bound: share of 120 characters the answer has, in percent, at most 100

ASSUME GradingAssumption ==
    /\ TopN \in Nat \ {0} /\ MaxChars \in Nat /\ MaxDocChars \in Nat /\ MaxDocChars <= MaxChars
    /\ Overlaps \subseteq 0..100 /\ TopScores \subseteq 0..100 /\ IntentScores \subseteq 0..100
    /\ LengthSignals \subseteq 0..100 /\ Sizes \subseteq Nat
    /\ MaxHits \in Nat /\ MaxClaims \in Nat

Hit   == [key : Keys, size : Sizes, table : BOOLEAN, good : BOOLEAN]
\* One number more than there can be documents: a citation of nothing.
Claim == [cites : SUBSET (1..(TopN + 1)), overlap : Overlaps]

ASSUME NoneIsNoHits == None \notin [faq : Seq(Hit), doc : Seq(Hit)]

VARIABLES
    step,      \* where the answer is
    hits,      \* what FAQ search and document search have found
    docs,      \* context_docs; once in the prompt only their kind matters
    evidence,  \* score of the evidence
    answer,    \* the claims of its body and whether it has a reference section
    verdict,   \* generation_verification
    grade      \* the score shown

gradingVars == <<step, hits, docs, evidence, answer, verdict, grade>>

Answer   == [claims : Seq(Claim), references : BOOLEAN]
Document == [key : Keys \cup {None}, size : Nat, table : BOOLEAN, faq : BOOLEAN, good : BOOLEAN]
Verdict  == [score : 0..100, status : {"verified", "partial", "failed", "not_applicable"}]

GradingTypeOK ==
    /\ step \in {"search", "select", "generate", "enforce", "verify", "combine", "done"}
    /\ hits # None <=> step = "select"
    /\ docs \in Seq(Document)
    /\ evidence \in 0..100 \cup {None}
    /\ answer = None \/ answer \in Answer
    /\ verdict \in Verdict \cup {None}
    /\ grade \in 0..100 \cup {None}

GradingInit ==
    /\ step = "search" /\ hits = None /\ docs = <<>> /\ evidence = None
    /\ answer = None /\ verdict = None /\ grade = None

-----------------------------------------------------------------------------
(* select_context_docs.                                                    *)

Total(ds) == SumOf([i \in DOMAIN ds |-> ds[i].size])

AppendDocOfAnyLength(ds, hit, isFaq) ==
    LET doc == [key |-> hit.key, size |-> Smaller(hit.size, MaxDocChars), table |-> hit.table,
                faq |-> isFaq, good |-> hit.good]
    IN  IF (\E i \in DOMAIN ds : ds[i].key = hit.key /\ ds[i].faq = isFaq) \/ Len(ds) >= TopN
          THEN ds ELSE Append(ds, doc)

\* append_doc: nothing twice, no more than TopN, cut to size, the first always.
AppendDoc(ds, hit, isFaq) ==
    LET doc == [key |-> hit.key, size |-> Smaller(hit.size, MaxDocChars), table |-> hit.table,
                faq |-> isFaq, good |-> hit.good]
    IN  IF \/ \E i \in DOMAIN ds : ds[i].key = hit.key /\ ds[i].faq = isFaq
           \/ Len(ds) >= TopN
           \/ ds # <<>> /\ Total(ds) + doc.size > MaxChars
          THEN ds
          ELSE Append(ds, doc)

Good   == {h \in Hit : h.good}
Tables == {h \in Hit : h.table}

\* Table rows first when the plan prefers them, otherwise by score, as they come.
InOrder(found, preferTable) ==
    IF preferTable THEN Keeping(found, Tables) \o Keeping(found, Hit \ Tables) ELSE found

\* The two best questions, then the documents, as far as they are good enough.
SelectContextDocs(faqHits, docHits, preferTable) ==
    LET best  == Keeping(faqHits, Good)
        two   == SubSeq(best, 1, Smaller(2, Len(best)))
        found == two \o InOrder(Keeping(docHits, Good), preferTable)
        selected[i \in 0..Len(found)] ==
            IF i = 0 THEN <<>> ELSE AppendDoc(selected[i - 1], found[i], i <= Len(two))
    IN  selected[Len(found)]

HitSeqs(n, which) == UNION {[1..k -> which] : k \in 0..n}

Search ==
    /\ step = "search"
    /\ \E f \in HitSeqs(MaxHits, {h \in Hit : ~h.table}), d \in HitSeqs(MaxHits, Hit) :
          hits' = [faq |-> f, doc |-> d]
    /\ step' = "select"
    /\ UNCHANGED <<docs, evidence, answer, verdict, grade>>

-----------------------------------------------------------------------------
(* calculate_evidence_confidence.                                          *)

\* A fold of ten-thousandths to hundredths; the last digit of a tie is the float's.
Rounded(x, unit) == (2 * x + unit) \div (2 * unit)
ClampBelow(x) == Larger(0, x)
Clamp(x) == Smaller(100, Larger(0, x))

BaseEvidenceScore(top, contexts, sources, intent) ==
    IF contexts = 0
      THEN 1200 + 15 * top
      ELSE 2000 + 45 * top + 600 * Smaller(contexts, 4) + 400 * Smaller(sources, 3) + 12 * intent

RiskAdjustment(contexts, intent, rewritten) ==
    (IF rewritten THEN (IF contexts >= 2 THEN 500 ELSE 800) ELSE 0)
    + (IF intent < 70 THEN 400 ELSE 0)

EvidenceScore(top, contexts, sources, intent, rewritten) ==
    Clamp(Rounded(BaseEvidenceScore(top, contexts, sources, intent)
                  - RiskAdjustment(contexts, intent, rewritten), 100))

\* prepare_answer: from here on a document only matters as a number and as a table row.
Select(preferTable, top, intent, rewritten) ==
    /\ step = "select"
    /\ LET ds == SelectContextDocs(hits.faq, hits.doc, preferTable)
           n  == Smaller(2, Len(hits.faq)) + Smaller(5, Len(hits.doc))
       IN  /\ docs' = ds
           /\ evidence' = EvidenceScore(top, Len(ds), n, intent, rewritten)
           /\ step' = IF ds = <<>> THEN "done" ELSE "generate"
           /\ grade' = IF ds = <<>> THEN evidence' ELSE grade
    /\ hits' = None
    /\ UNCHANGED <<answer, verdict>>

Kind(d) == [d EXCEPT !.key = None, !.size = 0, !.faq = FALSE, !.good = TRUE]

\* The model writes some claims, perhaps with references of its own, perhaps nothing.
Generate(claims, references) ==
    /\ step = "generate"
    /\ answer' = [claims |-> claims, references |-> references]
    /\ docs' = [i \in DOMAIN docs |-> Kind(docs[i])]
    /\ step' = "enforce"
    /\ UNCHANGED <<hits, evidence, verdict, grade>>

-----------------------------------------------------------------------------
(* enforce_answer_citations.                                               *)

IsEmpty(a) == a.claims = <<>> /\ ~a.references

\* The cells of the first table row whose values the answer lacks are appended, the number
\* of the row behind the last; a reference section swallows them.
WithTableRow(a, lacking, cells, overlap) ==
    IF lacking = {} \/ a.references THEN a
    ELSE LET row == CHOOSE i \in lacking : \A j \in lacking : i <= j
         IN  [a EXCEPT !.claims = @ \o [c \in 1..cells |->
                 [cites |-> IF c = cells THEN {row} ELSE {}, overlap |-> overlap]]]

HasCitation(a) == \E i \in DOMAIN a.claims : a.claims[i].cites # {}

WithReferences(a) == [a EXCEPT !.references = @ \/ ~HasCitation(a)]

Enforce(lacking, cells, overlap) ==
    /\ step = "enforce"
    /\ lacking \subseteq {i \in DOMAIN docs : docs[i].table}
    /\ answer' = IF IsEmpty(answer) THEN answer
                 ELSE WithReferences(WithTableRow(answer, lacking, cells, overlap))
    /\ step' = "verify"
    /\ UNCHANGED <<hits, docs, evidence, verdict, grade>>

-----------------------------------------------------------------------------
(* calculate_generation_confidence.                                        *)

BodyWithReferences(a) ==
    IF a.references THEN Append(a.claims, [cites |-> DOMAIN docs, overlap |-> 100]) ELSE a.claims

\* The claims the verification looks at: those before the reference section.
Body(a) == a.claims

CitedClaims(claims)  == Cardinality({i \in DOMAIN claims : claims[i].cites \cap DOMAIN docs # {}})
InvalidCites(claims) == Cardinality(UNION {claims[i].cites \ DOMAIN docs : i \in DOMAIN claims})
OverlapSum(claims)   == SumOf([i \in DOMAIN claims |-> claims[i].overlap])

\* _score_generation_grounding, times the number of claims.
Grounding(claims, length) ==
    LET n    == Larger(1, Len(claims))
        raw  == 55 * (35 * n + 65 * CitedClaims(claims)) + 1000 * n + 30 * OverlapSum(claims)
                + 5 * length * n - n * Smaller(2000, 500 * InvalidCites(claims))
    IN  IF Len(claims) > 1 /\ CitedClaims(claims) = 0 THEN Smaller(raw, 6500 * n) ELSE raw

GroundingScore(claims, length) ==
    Clamp(Rounded(Grounding(claims, length), 100 * Larger(1, Len(claims))))

High   == 82
Medium == 55
Level(score) == IF score >= High THEN "high" ELSE IF score >= Medium THEN "medium" ELSE "low"

Status(claims, score) ==
    IF /\ score >= High /\ InvalidCites(claims) = 0
       /\ 2 * CitedClaims(claims) >= Len(claims)
       /\ OverlapSum(claims) >= 45 * Len(claims)
      THEN "verified"
    ELSE IF score >= Medium THEN "partial" ELSE "failed"

VerdictOn(a, length) ==
    IF IsEmpty(a) THEN [score |-> 0, status |-> "failed"]
    ELSE LET s == GroundingScore(Body(a), length) IN [score |-> s, status |-> Status(Body(a), s)]

Verify(length) ==
    /\ step = "verify"
    /\ verdict' = VerdictOn(answer, length)
    /\ step' = "combine"
    /\ UNCHANGED <<hits, docs, evidence, answer, grade>>

CombineWithoutVerdict ==
    /\ step = "combine"
    /\ grade' = evidence
    /\ step' = "done"
    /\ UNCHANGED <<hits, docs, evidence, answer, verdict>>

\* The grade is the worse of evidence and verification.
Combine ==
    /\ step = "combine"
    /\ grade' = Smaller(evidence, verdict.score)
    /\ step' = "done"
    /\ UNCHANGED <<hits, docs, evidence, answer, verdict>>

-----------------------------------------------------------------------------

GradingNext ==
    \/ Search
    \/ \E p, r \in BOOLEAN, t \in TopScores, i \in IntentScores : Select(p, t, i, r)
    \/ \E c \in HitSeqs(MaxClaims, Claim), r \in BOOLEAN : Generate(c, r)
    \/ \E l \in SUBSET (1..TopN), k \in 1..2, o \in Overlaps : Enforce(l, k, o)
    \/ \E n \in LengthSignals : Verify(n)
    \/ Combine

GradingSpec == GradingInit /\ [][GradingNext]_gradingVars

-----------------------------------------------------------------------------
(* Properties.                                                             *)

\* Whatever the searches find, the prompt's context stays within the plan: no document below
\* the minimum score, none twice, no more than asked for, and never longer than the prompt
\* allows, although documents are cut and skipped one by one.
ContextFits ==
    step = "generate" =>
        /\ Len(docs) \in 1..TopN
        /\ Total(docs) <= MaxChars
        /\ \A i \in DOMAIN docs : docs[i].good /\ docs[i].size <= MaxDocChars
        /\ \A i, j \in DOMAIN docs : docs[i].key = docs[j].key /\ docs[i].faq = docs[j].faq => i = j

\* A generated answer is shown with high confidence only if about half of its claims cite a
\* document it was given and well over a third of its words come from them: no weight of the
\* formula, length bonus or strong evidence can make up for either.
HighIsMostlySupported ==
    grade # None /\ answer # None /\ Level(grade) = "high" =>
        /\ 100 * CitedClaims(Body(answer)) >= 48 * Len(Body(answer))
        /\ OverlapSum(Body(answer)) >= 38 * Len(Body(answer))
        /\ Body(answer) # <<>>

\* The references appended to an answer that cites nothing earn it no credit: it is never
\* called verified, and never shown with high confidence.
ReferencesEarnNothing ==
    verdict # None /\ ~HasCitation(answer) =>
        verdict.status # "verified" /\ Level(verdict.score) # "high"

\* The grade of an answer is earned from what it was given: its context fits the prompt, high
\* confidence needs claims that cite it, and references added afterwards earn nothing.
GradesAreEarned ==
    GradingTypeOK /\ ContextFits /\ HighIsMostlySupported /\ ReferencesEarnNothing
=============================================================================
