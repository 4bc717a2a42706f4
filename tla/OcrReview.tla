----------------------------- MODULE OcrReview -----------------------------
(***************************************************************************)
(* From a scan to the material of a scenario: offline OCR, a person who    *)
(* reviews what it read, and the promotion of reviewed candidates          *)
(* (indexing/ocr_documents.py, scripts/ocr/run_offline_ocr.py,             *)
(* scripts/ocr/promote_ocr_candidates.py).                                 *)
(*                                                                         *)
(* A candidate is named after the stem of its scan and lies in one of the  *)
(* output directories, below the directory the promotion is called with.   *)
(* The promotion reads a candidate to judge it and copies the file later.  *)
(***************************************************************************)
EXTENDS Integers, SequencesExt, RuleValues

CONSTANTS
    Scans,       \* files to be recognized, in the order of their paths; [stem, lines, sure, quotes]
    OutputDirs,  \* output directories, in the order in which they sort
    MaxOcrRuns,  \* bound: calls of the OCR script
    MaxPromotions \* bound: calls of the promotion

ASSUME OcrAssumption ==
    /\ \A s \in Range(Scans) : /\ s.lines \in Nat
                               /\ s.sure \in BOOLEAN     \* read above the minimal confidence
                               /\ s.quotes \in BOOLEAN   \* the text read contains a review mark
    /\ MaxOcrRuns \in Nat /\ MaxPromotions \in Nat

VARIABLES
    candidates,  \* what lies at a <<directory, stem>>
    material,    \* the files of the scenario by name, as they were copied
    ocr,         \* the OCR script at work, or None
    promotion,   \* the promotion at work, or None
    promotionReport,      \* of the last promotion that has ended, until the next call
    ocrRuns, promotions

ocrVars == <<candidates, material, ocr, promotion, promotionReport, ocrRuns, promotions>>

Candidate(scan) == [scan |-> scan, reviewed |-> FALSE,
                    ready |-> scan.lines > 0 /\ scan.sure]

OcrInit ==
    /\ candidates = <<>> /\ material = <<>>
    /\ ocr = None /\ promotion = None /\ promotionReport = None
    /\ ocrRuns = 0 /\ promotions = 0

Put(f, k, v) == [x \in DOMAIN f \cup {k} |-> IF x = k THEN v ELSE f[x]]

-----------------------------------------------------------------------------
(* OCR and review.                                                         *)

StartOcr(dir, inputs) ==
    /\ ocr = None /\ ocrRuns < MaxOcrRuns /\ inputs # {}
    /\ ocr' = [dir |-> dir, todo |-> SelectSeq(Scans, LAMBDA s : s \in inputs)]
    /\ ocrRuns' = ocrRuns + 1
    /\ UNCHANGED <<candidates, material, promotion, promotionReport, promotions>>

\* A candidate of that name is written over.
RecognizeFile ==
    /\ ocr # None /\ ocr.todo # <<>>
    /\ LET scan == Head(ocr.todo)
       IN  candidates' = Put(candidates, <<ocr.dir, scan.stem>>, Candidate(scan))
    /\ ocr' = [ocr EXCEPT !.todo = Tail(@)]
    /\ UNCHANGED <<material, promotion, promotionReport, ocrRuns, promotions>>

\* A file that fails stops no other.
RecognitionFails ==
    /\ ocr # None /\ ocr.todo # <<>>
    /\ ocr' = [ocr EXCEPT !.todo = Tail(@)]
    /\ UNCHANGED <<candidates, material, promotion, promotionReport, ocrRuns, promotions>>

OcrEnds ==
    /\ ocr # None /\ ocr.todo = <<>>
    /\ ocr' = None
    /\ UNCHANGED <<candidates, material, promotion, promotionReport, ocrRuns, promotions>>

\* A person corrects the text and writes the mark into the file.
ReviewCandidate(c) ==
    /\ c \in DOMAIN candidates
    /\ candidates' = [candidates EXCEPT ![c].reviewed = TRUE]
    /\ UNCHANGED <<material, ocr, promotion, promotionReport, ocrRuns, promotions>>

-----------------------------------------------------------------------------
(* Promotion.                                                              *)

\* A candidate the OCR was sure of needs no mark.
IsReviewedOrReady(candidate) == candidate.reviewed \/ candidate.scan.quotes \/ candidate.ready

\* The mark counts wherever it stands in the file.
IsReviewed(candidate) == candidate.reviewed \/ candidate.scan.quotes

\* The files found, in the order of their paths.
Earlier(a, b) ==
    LET At(c) == CHOOSE i \in DOMAIN OutputDirs : OutputDirs[i] = c[1]
        Of(c) == CHOOSE i \in DOMAIN Scans : Scans[i].stem = c[2]
    IN  At(a) < At(b) \/ (At(a) = At(b) /\ Of(a) < Of(b))

CollectMarkdown == SetToSortSeq(DOMAIN candidates, Earlier)

StartPromotion(apply, force) ==
    /\ promotion = None /\ promotions < MaxPromotions
    /\ promotion' = [apply |-> apply, force |-> force, todo |-> CollectMarkdown, rows |-> <<>>,
                     copying |-> None]
    /\ promotions' = promotions + 1
    /\ promotionReport' = None
    /\ UNCHANGED <<candidates, material, ocr, ocrRuns>>

Row(c, reviewed, reason) == [candidate |-> c, reviewed |-> reviewed, reason |-> reason]

Judged(row) == promotion' = [promotion EXCEPT !.todo = Tail(@), !.rows = Append(@, row)]

TargetUnchecked(c) == c \in DOMAIN candidates

TargetFree(c) == promotion.force \/ c[2] \notin DOMAIN material

\* One file is read and judged: it may be copied next, or it has its row already.
JudgeFile ==
    /\ promotion # None /\ promotion.copying = None /\ promotion.todo # <<>>
    /\ LET c == Head(promotion.todo)
       IN  \/ /\ ~IsReviewed(candidates[c])
              /\ Judged(Row(c, FALSE, "not reviewed"))
           \/ /\ IsReviewed(candidates[c]) /\ ~TargetFree(c)
              /\ Judged(Row(c, TRUE, "target exists"))
           \/ /\ IsReviewed(candidates[c]) /\ TargetFree(c) /\ ~promotion.apply
              /\ Judged(Row(c, TRUE, "dry run"))
           \/ /\ IsReviewed(candidates[c]) /\ TargetFree(c) /\ promotion.apply
              /\ promotion' = [promotion EXCEPT !.copying = candidates[c]]
    /\ UNCHANGED <<candidates, material, ocr, promotionReport, ocrRuns, promotions>>

\* The file is copied as it lies there now.
CopyFile ==
    /\ promotion # None /\ promotion.copying # None
    /\ LET c == Head(promotion.todo)
       IN  /\ material' = Put(material, c[2],
                              [is |-> candidates[c], judged |-> promotion.copying])
           /\ promotion' = [promotion EXCEPT !.todo = Tail(@), !.copying = None,
                                             !.rows = Append(@, Row(c, TRUE, "promoted"))]
    /\ UNCHANGED <<candidates, ocr, promotionReport, ocrRuns, promotions>>

\* A file cannot be copied: the error is its row.
CopyFails ==
    /\ promotion # None /\ promotion.copying # None
    /\ promotion' = [promotion EXCEPT !.todo = Tail(@), !.copying = None,
                        !.rows = Append(@, Row(Head(promotion.todo), TRUE, "error"))]
    /\ UNCHANGED <<candidates, material, ocr, promotionReport, ocrRuns, promotions>>

Blocked(rows) == {i \in DOMAIN rows : ~rows[i].reviewed}
Failed(rows)  ==
    {i \in DOMAIN rows : rows[i].reviewed /\ rows[i].reason \in {"target exists", "error"}}

ReportOkUnlessBlocked(rows) == rows # <<>> /\ Blocked(rows) = {}

ReportOk(rows) == rows # <<>> /\ Blocked(rows) = {} /\ Failed(rows) = {}

PromotionEnds ==
    /\ promotion # None /\ promotion.todo = <<>>
    /\ promotionReport' = [ok |-> ReportOk(promotion.rows), apply |-> promotion.apply,
                  force |-> promotion.force, rows |-> promotion.rows]
    /\ promotion' = None
    /\ UNCHANGED <<candidates, material, ocr, ocrRuns, promotions>>

OcrNext ==
    \/ \E i \in DOMAIN OutputDirs, inputs \in SUBSET Range(Scans) : StartOcr(OutputDirs[i], inputs)
    \/ RecognizeFile \/ RecognitionFails \/ OcrEnds
    \/ \E c \in DOMAIN candidates : ReviewCandidate(c)
    \/ \E apply, force \in BOOLEAN : StartPromotion(apply, force)
    \/ JudgeFile \/ CopyFile \/ CopyFails \/ PromotionEnds

OcrSpec == OcrInit /\ [][OcrNext]_ocrVars

-----------------------------------------------------------------------------
(* Properties.                                                             *)

\* Text that a person has not reviewed is in the material in two cases only: it contains the
\* mark itself, or the OCR wrote the file anew between the reading and the copying.
WhatIsInWasReviewed ==
    \A n \in DOMAIN material :
        \/ material[n].is.reviewed
        \/ material[n].is.scan.quotes
        \/ /\ material[n].is # material[n].judged
           /\ material[n].judged.reviewed \/ material[n].judged.scan.quotes

\* No file of the material is replaced unless the caller has said so, with two candidates of
\* one name in different directories in one call or with several calls.
NothingIsReplacedUnasked ==
    [][\A n \in DOMAIN material : n \in DOMAIN material'
          /\ (material'[n] # material[n] => promotion.force)]_ocrVars

\* After an applied promotion that reports ok every candidate it found is in the material
\* under its name, and without --force it is that candidate.
OkMeansAllIn ==
    promotionReport # None /\ promotionReport.ok /\ promotionReport.apply =>
        LET rows    == promotionReport.rows
            Name(i) == rows[i].candidate[2]
        IN  \A i \in DOMAIN rows :
                /\ rows[i].reason = "promoted" /\ Name(i) \in DOMAIN material
                /\ ~promotionReport.force => \A j \in DOMAIN rows : Name(i) = Name(j) => i = j

\* Whatever is copied, overwritten and forced in whatever order: what is in the material was
\* reviewed, an ok report means that all of it is there, and nothing is replaced unasked.
PromotionIsReviewed == [](WhatIsInWasReviewed /\ OkMeansAllIn) /\ NothingIsReplacedUnasked
=============================================================================
