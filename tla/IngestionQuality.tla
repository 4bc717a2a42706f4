-------------------------- MODULE IngestionQuality --------------------------
(***************************************************************************)
(* The quality report of the material of a scenario and its gate:          *)
(* quality/ingestion.py, quality/chunk.py, quality/faq.py,                 *)
(* quality/conflicts.py, indexing/document_loaders.py,                     *)
(* indexing/image_risk.py, indexing/table_documents.py and                 *)
(* scripts/quality/check_ingestion_quality_gate.py.                        *)
(*                                                                         *)
(* A file is a record of what the loaders and the regular expressions      *)
(* would find in it, a page its text with its length; a page or a table    *)
(* row becomes one chunk.  Words are those left of a text by the tokenizer.*)
(* Chunks of few different characters (low_unique_ratio) are left out.     *)
(***************************************************************************)
EXTENDS Integers, Sequences, FiniteSets, RuleValues

CONSTANTS
    PageTexts,     \* bound: the pages there may be
    Shapes,        \* bound: the files there may be
    Rows,          \* bound: the FAQ records there may be
    MaxFiles,      \* bound: files scanned
    MaxRows,       \* bound: records of the FAQ file
    LongWords,     \* words of three characters or more
    TopRelated,    \* chunks a FAQ answer is compared with
    ConflictLimit, \* conflicts after which the comparison stops
    Thresholds     \* bound: maxima the gate may be called with

ASSUME QualityAssumption ==
    /\ MaxFiles \in Nat /\ MaxRows \in Nat
    /\ TopRelated \in Nat \ {0} /\ ConflictLimit \in Nat \ {0}
    /\ Thresholds \subseteq Nat
    /\ \A page \in PageTexts : page.length \in Nat
    /\ \A file \in Shapes : file.pages \in Seq(PageTexts)

VARIABLES
    qualityPhase,      \* "scan", "records", "compare", "report", "judged"
    files,      \* the files scanned, in order
    lists,      \* the lists of the report a file may be in, by its position
    records,       \* the records of the FAQ file
    hasFaq,     \* the FAQ file exists
    compared,   \* FAQ records compared so far
    conflicts,  \* faq_document_conflicts
    verdict     \* of the gate

qualityVars == <<qualityPhase, files, lists, records, hasFaq, compared, conflicts, verdict>>

Empty == [loaded |-> {}, unsupported |-> {}, failed |-> {}, empty |-> {}, ocrRisk |-> {},
          imageReview |-> {}, imageBlock |-> {}]

QualityInit ==
    /\ qualityPhase = "scan" /\ files = <<>> /\ lists = Empty
    /\ records = <<>> /\ hasFaq \in BOOLEAN
    /\ compared = 0 /\ conflicts = <<>> /\ verdict = None

-----------------------------------------------------------------------------
(* Files.                                                                  *)

HasLoader(file) == file.kind \in {"text", "table", "container"}

\* The loaders drop the pages and records in which they find no text.
Written == {p \in PageTexts : p.length > 0}

LoadFile(file) == Keeping(file.pages, Written)

TextLength(docs) == SumOf([i \in DOMAIN docs |-> docs[i].length])

BlockingTextChars == 120

\* A picture on its own, or a document that is mostly pictures, must be reviewed first.
ImageRisk(file, docs) ==
    CASE file.kind = "picture" -> "block"
      [] file.kind = "container" /\ file.images > 0 ->
            IF TextLength(docs) < BlockingTextChars THEN "block" ELSE "review"
      [] OTHER -> "none"

LooksLikeOcrRisk(file) == file.noise /\ ~file.reviewed

With(set, i, condition) == IF condition THEN set \cup {i} ELSE set

\* The lists a file is put in: a file that is put aside is put in one and looked at no more.
ListsForWithoutStop(file, i) ==
    LET docs == LoadFile(file)
        risk == ImageRisk(file, IF HasLoader(file) THEN docs ELSE <<>>)
        seen == [lists EXCEPT !.imageReview = With(@, i, risk = "review"),
                              !.imageBlock  = With(@, i, risk = "block")]
    IN  IF ~HasLoader(file) THEN [seen EXCEPT !.unsupported = @ \cup {i}]
        ELSE IF ~file.known THEN [lists EXCEPT !.unsupported = @ \cup {i}]
        ELSE IF file.broken THEN [lists EXCEPT !.failed = @ \cup {i}]
        ELSE [seen EXCEPT !.empty = With(@, i, docs = <<>>), !.loaded = @ \cup {i},
                          !.ocrRisk = With(@, i, LooksLikeOcrRisk(file))]

ListsFor(file, i) ==
    LET docs == LoadFile(file)
        risk == ImageRisk(file, IF HasLoader(file) THEN docs ELSE <<>>)
        seen == [lists EXCEPT !.imageReview = With(@, i, risk = "review"),
                              !.imageBlock  = With(@, i, risk = "block")]
    IN  IF ~HasLoader(file) THEN [seen EXCEPT !.unsupported = @ \cup {i}]
        ELSE IF ~file.known THEN [lists EXCEPT !.unsupported = @ \cup {i}]
        ELSE IF file.broken THEN [lists EXCEPT !.failed = @ \cup {i}]
        ELSE IF docs = <<>> THEN [seen EXCEPT !.empty = @ \cup {i}]
        ELSE [seen EXCEPT !.loaded = @ \cup {i},
                          !.ocrRisk = With(@, i, LooksLikeOcrRisk(file))]

ScanFile(file) ==
    /\ qualityPhase = "scan" /\ Len(files) < MaxFiles
    /\ files' = Append(files, file)
    /\ lists' = ListsFor(file, Len(files) + 1)
    /\ UNCHANGED <<qualityPhase, records, hasFaq, compared, conflicts, verdict>>

ScanEnds ==
    /\ qualityPhase = "scan"
    /\ qualityPhase' = "records"
    /\ UNCHANGED <<files, lists, records, hasFaq, compared, conflicts, verdict>>

\* The chunks of the loaded files, with the source and the kind of their file.
ChunksOf(i) ==
    IF i \notin lists.loaded THEN <<>>
    ELSE [p \in DOMAIN LoadFile(files[i]) |->
            [page |-> LoadFile(files[i])[p], source |-> files[i].source,
             table |-> files[i].kind = "table"]]

AllChunks ==
    LET of[i \in 0..Len(files)] == IF i = 0 THEN <<>> ELSE of[i - 1] \o ChunksOf(i)
    IN  of[Len(files)]

MinChunkLength == 30
MaxChunkLength == 2000

Duplicated(chunks) ==
    {i \in DOMAIN chunks :
        \E j \in DOMAIN chunks \ {i} : chunks[j].page.text = chunks[i].page.text}

\* Chunks too short or too long to be of use.
BadLength(chunks) ==
    {i \in DOMAIN chunks : \/ chunks[i].page.length < MinChunkLength /\ ~chunks[i].table
                           \/ chunks[i].page.length > MaxChunkLength}

\* A chunk counts once for its length and once more for being a copy.
LowQuality(chunks) == Cardinality(BadLength(chunks)) + Cardinality(Duplicated(chunks))

-----------------------------------------------------------------------------
(* FAQ records and their agreement with the documents.                     *)

ReadRow(row) ==
    /\ qualityPhase = "records" /\ hasFaq /\ Len(records) < MaxRows
    /\ records' = Append(records, row)
    /\ UNCHANGED <<qualityPhase, files, lists, hasFaq, compared, conflicts, verdict>>

RowsEnd ==
    /\ qualityPhase = "records"
    /\ qualityPhase' = "compare"
    /\ UNCHANGED <<files, lists, records, hasFaq, compared, conflicts, verdict>>

DuplicateQuestions ==
    {q \in {records[i].question : i \in DOMAIN records} :
        q # None /\ Cardinality({i \in DOMAIN records : records[i].question = q}) > 1}

RelatedThreshold(words) ==
    IF Cardinality(words) >= 6 THEN 3 ELSE IF Cardinality(words) >= 3 THEN 2 ELSE 1

SharedWords(row, chunk) == row.words \cap chunk.page.words

Related(row, chunk) ==
    /\ row.source = None \/ row.source = chunk.source
    /\ chunk.table => \/ Cardinality(SharedWords(row, chunk)) >= 2
                     \/ SharedWords(row, chunk) \cap LongWords # {}
    /\ Cardinality(SharedWords(row, chunk)) >= RelatedThreshold(row.words)

\* The related chunks with the most hits, the earlier first.
TopOf(row, chunks) ==
    LET related == {i \in DOMAIN chunks : Related(row, chunks[i])}
        Rank(i)  == Cardinality({j \in related :
                       LET a == Cardinality(SharedWords(row, chunks[i]))
                           b == Cardinality(SharedWords(row, chunks[j]))
                       IN  b > a \/ (b = a /\ j < i)})
    IN  [k \in 1..Cardinality({i \in related : Rank(i) < TopRelated}) |->
            chunks[CHOOSE i \in related : Rank(i) = k - 1]]

Mismatches(row, chunk) ==
    (IF row.numbers # {} /\ chunk.page.numbers # {} /\ row.numbers \cap chunk.page.numbers = {}
       THEN <<"numeric_mismatch">> ELSE <<>>) \o
    (IF {row.polarity, chunk.page.polarity} = {"positive", "negative"}
       THEN <<"polarity_mismatch">> ELSE <<>>)

ConflictingSilently(row, chunks, found) ==
    LET top == TopOf(row, chunks)
        upTo[k \in 0..Len(top)] ==
            IF k = 0 THEN found
            ELSE IF k > 1 /\ Len(upTo[k - 1]) >= ConflictLimit THEN upTo[k - 1]
            ELSE upTo[k - 1] \o Mismatches(row, top[k])
    IN  upTo[Len(top)]

\* The conflicts found so far and those with the chunks of one record, up to the limit.
Conflicting(row, chunks, found) ==
    LET top == TopOf(row, chunks)
        upTo[k \in 0..Len(top)] ==
            IF k = 0 THEN found
            ELSE IF k > 1 /\ Len(upTo[k - 1]) >= ConflictLimit THEN upTo[k - 1]
            ELSE upTo[k - 1] \o Mismatches(row, top[k])
    IN  IF top = <<>> THEN Append(found, "no_related_document") ELSE upTo[Len(top)]

\* Whether the limit ends the comparison; a record without documents does not look at it.
Stops(row, chunks, found) == TopOf(row, chunks) # <<>> /\ Len(found) >= ConflictLimit

CompareRecord ==
    /\ qualityPhase = "compare" /\ compared < Len(records)
    /\ LET row   == records[compared + 1]
           found == IF row.question = None \/ ~row.answer THEN conflicts
                    ELSE Conflicting(row, AllChunks, conflicts)
       IN  /\ conflicts' = found
           /\ compared' = IF row.question # None /\ row.answer /\ Stops(row, AllChunks, found)
                            THEN Len(records) ELSE compared + 1
    /\ UNCHANGED <<qualityPhase, files, lists, records, hasFaq, verdict>>

CompareEnds ==
    /\ qualityPhase = "compare" /\ compared = Len(records)
    /\ qualityPhase' = "report"
    /\ UNCHANGED <<files, lists, records, hasFaq, compared, conflicts, verdict>>

-----------------------------------------------------------------------------
(* The gate.                                                               *)

CountsShort(chunks) ==
    <<Cardinality(lists.failed), Cardinality(lists.unsupported), Cardinality(lists.empty),
      Cardinality(lists.imageBlock), LowQuality(chunks)>>

\* The numbers that have a maximum the caller may raise.
Counts(chunks) ==
    <<Cardinality(lists.failed), Cardinality(lists.unsupported), Cardinality(lists.empty),
      Cardinality(lists.imageBlock), LowQuality(chunks),
      Cardinality(Duplicated(chunks)),
      Cardinality({i \in DOMAIN records : records[i].question = None}),
      Cardinality({i \in DOMAIN records : ~records[i].answer}),
      Cardinality(DuplicateQuestions),
      Cardinality({i \in DOMAIN records : ~records[i].known}),
      Len(conflicts)>>

GatePassesWithin(chunks, maximum, needsFaq) ==
    /\ Cardinality(lists.ocrRisk) <= maximum
    /\ \A i \in DOMAIN Counts(chunks) : Counts(chunks)[i] <= maximum
    /\ needsFaq => hasFaq

\* Scans are never let through, whatever the caller allows.
GatePasses(chunks, maximum, needsFaq) ==
    /\ lists.ocrRisk = {}
    /\ \A i \in DOMAIN Counts(chunks) : Counts(chunks)[i] <= maximum
    /\ needsFaq => hasFaq

Judge(maximum, needsFaq) ==
    /\ qualityPhase = "report"
    /\ verdict' = [ok |-> GatePasses(AllChunks, maximum, needsFaq), maximum |-> maximum,
                   needsFaq |-> needsFaq]
    /\ qualityPhase' = "judged"
    /\ UNCHANGED <<files, lists, records, hasFaq, compared, conflicts>>

QualityNext ==
    \/ \E file \in Shapes : ScanFile(file)
    \/ ScanEnds
    \/ \E row \in Rows : ReadRow(row)
    \/ RowsEnd \/ CompareRecord \/ CompareEnds
    \/ \E maximum \in Thresholds, needsFaq \in BOOLEAN : Judge(maximum, needsFaq)

QualitySpec == QualityInit /\ [][QualityNext]_qualityVars

-----------------------------------------------------------------------------
(* Properties.                                                             *)

\* Every file is in exactly one of the four lists that say what became of it: the loop leaves
\* a file on five different ways, and a file in none of them would be missing from the
\* knowledge base without a trace.
EveryFileIsAccounted ==
    LET all == <<lists.loaded, lists.unsupported, lists.failed, lists.empty>>
    IN  \A i \in DOMAIN files : Cardinality({k \in 1..4 : i \in all[k]}) = 1

\* Documents agree with a FAQ record as far as the comparison goes.
Backed(row, chunks) ==
    LET top == TopOf(row, chunks)
    IN  top # <<>> /\ \A k \in DOMAIN top : Mismatches(row, top[k]) = <<>>

\* A strict pass is a statement about the material and not only about the report: every file
\* has been read, nothing has to go through OCR first, no text is there twice, and every FAQ
\* answer is unique and backed by documents it does not contradict.
PassIsAboutTheMaterial ==
    verdict # None /\ verdict.ok /\ verdict.maximum = 0 =>
        /\ \A i \in DOMAIN files :
              /\ HasLoader(files[i]) /\ files[i].known /\ ~files[i].broken
              /\ LoadFile(files[i]) # <<>> /\ (files[i].noise => files[i].reviewed)
              /\ files[i].images > 0 /\ files[i].kind = "container" =>
                    TextLength(files[i].pages) >= BlockingTextChars
        /\ \A i, j \in DOMAIN AllChunks : AllChunks[i].page.text = AllChunks[j].page.text => i = j
        /\ \A i \in DOMAIN records :
              /\ records[i].question # None /\ records[i].answer /\ records[i].known
              /\ Backed(records[i], AllChunks)
              /\ \A j \in DOMAIN records : records[i].question = records[j].question => i = j

\* The comparison stops early at the limit, but never so that a contradiction goes unreported
\* altogether: nothing is reported only when every complete record is backed.
StoppingHidesNothing ==
    qualityPhase \in {"report", "judged"} =>
        (conflicts = <<>> <=>
            \A i \in DOMAIN records : records[i].question # None /\ records[i].answer =>
                                        Backed(records[i], AllChunks))

\* A scan that nobody has reviewed does not get through with raised maxima either.
ScansNeverPass ==
    verdict # None /\ verdict.ok =>
        \A i \in lists.loaded : files[i].noise => files[i].reviewed

\* The material is judged as a whole: every file is listed once, a pass is about all of it, the
\* limit of the comparison hides no contradiction, and unreviewed scans never pass.
MaterialIsJudgedWhole ==
    EveryFileIsAccounted /\ PassIsAboutTheMaterial /\ StoppingHidesNothing /\ ScansNeverPass
=============================================================================
