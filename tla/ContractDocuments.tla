------------------------- MODULE ContractDocuments -------------------------
(***************************************************************************)
(* How documents get into a contract and into its analyses                 *)
(* (ContractService.upload_and_process, add_document, _add_document and    *)
(* analyze in contracts/service.py).                                       *)
(*                                                                         *)
(* A document passes through four stores one after the other: the disk,    *)
(* MySQL (contract_documents, contracts, kb_chunk_versions) and Milvus.    *)
(* No transaction spans two of them; when a step fails, the request takes  *)
(* back what it can.  Then it analyses the contract, which reads from      *)
(* Milvus whatever is visible at that time.                                *)
(*                                                                         *)
(* Every request adds one document, or just analyses; requests interleave  *)
(* freely and share contracts.processing_status.  Of the analysis itself   *)
(* only what AnalysisRuns implements is used here: the ledger of runs.  A  *)
(* run is named by the request that made it.                               *)
(***************************************************************************)
EXTENDS Naturals

CONSTANTS
    Documents,  \* requests that add a document, and the document they add
    First,      \* the one among them that creates the contract
    Analysts,   \* requests that call analyze alone
    NoRun,
    MaxSeq,     \* bound on version_seq of the scenario's knowledge base
    Faults      \* the kinds of failure this instance admits

Requests == Documents \union Analysts

ASSUME RequestsAssumption ==
    First \in Documents /\ Documents \intersect Analysts = {} /\ NoRun \notin Requests
ASSUME BoundAssumption  == MaxSeq \in Nat \ {0}
ASSUME FaultsAssumption ==
    Faults \subseteq {"parse", "milvus", "db", "stage", "stale", "crash", "rollback"}

VARIABLES
    processing,  \* contracts.processing_status, "absent" before the INSERT
    row,         \* contract_documents.parse_status
    file,        \* is the document's file on disk?
    vectors,     \* its chunks in Milvus
    stamp,       \* valid_from_seq of its chunks
    listed,      \* are its chunks in kb_chunk_versions?
    seq,         \* version_seq of the active knowledge base version
    current, latest, retired,  \* the ledger of analysis runs
    basis,       \* the documents whose chunks a run has retrieved
    pc,          \* where each request is
    undeleted    \* history: documents whose compensation failed

analyses == <<current, latest, retired>>
document == <<row, file, vectors, stamp, listed>>
vars     == <<processing, document, seq, analyses, basis, pc, undeleted>>

Runs == INSTANCE AnalysisLedger WITH Runs <- Requests

\* Steps of _add_document between "parsing" and "parsed", and after a failure.
Pipeline == {"loading", "indexing", "registering", "finishing", "announcing",
             "compensating", "marking", "giving up"}
Analysis == {"analyzing", "retrieving", "publishing", "facts", "failing"}
Over     == {"ok", "stored", "error", "lost"}

\* The validity window of build_metadata_expr: no chunk of a contract is ever
\* given an end of validity, so a document is visible from its stamp on.
Visible == {d \in Documents : vectors[d] # "none" /\ stamp[d] <= seq}

Init ==
    /\ processing = "absent"
    /\ row     = [d \in Documents |-> "absent"]
    /\ file    = [d \in Documents |-> FALSE]
    /\ vectors = [d \in Documents |-> "none"]
    /\ stamp   = [d \in Documents |-> 0]
    /\ listed  = [d \in Documents |-> FALSE]
    /\ seq     = MaxSeq
    /\ Runs!Init
    /\ basis   = [q \in Requests |-> {}]
    /\ pc      = [q \in Requests |-> "idle"]
    /\ undeleted = {}

Goto(q, from, to) ==
    /\ pc[q] = from
    /\ pc' = [pc EXCEPT ![q] = to]

-----------------------------------------------------------------------------
\* The file is written; upload_and_process creates the contract next,
\* add_document has found it.
WriteFile(d) ==
    /\ IF d = First
       THEN Goto(d, "idle", "creating")
       ELSE processing # "absent" /\ Goto(d, "idle", "inserting")
    /\ file' = [file EXCEPT ![d] = TRUE]
    /\ UNCHANGED <<processing, row, vectors, stamp, listed, seq, analyses, basis, undeleted>>

CreateContract(d) ==
    /\ Goto(d, "creating", "inserting")
    /\ processing' = "uploaded"
    /\ UNCHANGED <<document, seq, analyses, basis, undeleted>>

CreateContractFails(d) ==
    /\ "db" \in Faults
    /\ Goto(d, "creating", "error")
    /\ file' = [file EXCEPT ![d] = FALSE]
    /\ UNCHANGED <<processing, row, vectors, stamp, listed, seq, analyses, basis, undeleted>>

\* create_document.
InsertRow(d) ==
    /\ Goto(d, "inserting", "starting")
    /\ row' = [row EXCEPT ![d] = "uploaded"]
    /\ UNCHANGED <<processing, file, vectors, stamp, listed, seq, analyses, basis, undeleted>>

\* The file goes; upload_and_process may also fail to read the contract it has
\* just created, and leaves it.
InsertRowFails(d) ==
    /\ "db" \in Faults
    /\ Goto(d, "inserting", "giving up")
    /\ \/ file' = [file EXCEPT ![d] = FALSE]
       \/ d = First /\ UNCHANGED file
    /\ UNCHANGED <<processing, row, vectors, stamp, listed, seq, analyses, basis, undeleted>>

\* This update and its failure are outside the try of _add_document.
MarkParsing(d) ==
    /\ Goto(d, "starting", "loading")
    /\ processing' = "parsing"
    /\ UNCHANGED <<document, seq, analyses, basis, undeleted>>

MarkParsingFails(d) ==
    /\ "db" \in Faults
    /\ Goto(d, "starting", "giving up")
    /\ UNCHANGED <<processing, document, seq, analyses, basis, undeleted>>

\* Mutant: the chunks are stamped for the version that comes next.
LoadForNextVersion(d) ==
    /\ Goto(d, "loading", "indexing")
    /\ stamp' = [stamp EXCEPT ![d] = seq + 1]
    /\ UNCHANGED <<processing, row, file, vectors, listed, seq, analyses, basis, undeleted>>

\* The active version is resolved, the file loaded, normalized and split.
Load(d) ==
    /\ Goto(d, "loading", "indexing")
    /\ stamp' = [stamp EXCEPT ![d] = seq]
    /\ UNCHANGED <<processing, row, file, vectors, listed, seq, analyses, basis, undeleted>>

LoadFails(d) ==
    /\ "parse" \in Faults
    /\ Goto(d, "loading", "marking")
    /\ UNCHANGED <<processing, document, seq, analyses, basis, undeleted>>

\* add_documents inserts batch by batch; a failure leaves any part of it.
AddVectors(d) ==
    /\ \/ Goto(d, "indexing", "registering") /\ vectors' = [vectors EXCEPT ![d] = "all"]
       \/ /\ "milvus" \in Faults
          /\ Goto(d, "indexing", "compensating")
          /\ \E v \in {"none", "some", "all"} : vectors' = [vectors EXCEPT ![d] = v]
    /\ UNCHANGED <<processing, row, file, stamp, listed, seq, analyses, basis, undeleted>>

\* ChunkVersionIndex.upsert_chunks.
RegisterChunks(d) ==
    /\ Goto(d, "registering", "finishing")
    /\ listed' = [listed EXCEPT ![d] = TRUE]
    /\ UNCHANGED <<processing, row, file, vectors, stamp, seq, analyses, basis, undeleted>>

\* update_document_parsed.
FinishRow(d) ==
    /\ Goto(d, "finishing", "announcing")
    /\ row' = [row EXCEPT ![d] = "parsed"]
    /\ UNCHANGED <<processing, file, vectors, stamp, listed, seq, analyses, basis, undeleted>>

\* auto_analyze or reanalyze may be switched off.
MarkParsed(d) ==
    /\ Goto(d, "announcing", "analyzing") \/ Goto(d, "announcing", "stored")
    /\ processing' = "parsed"
    /\ UNCHANGED <<document, seq, analyses, basis, undeleted>>

StoreFails(d) ==
    /\ "db" \in Faults
    /\ \E step \in {"registering", "finishing", "announcing"} :
         Goto(d, step, "compensating")
    /\ UNCHANGED <<processing, document, seq, analyses, basis, undeleted>>

\* Mutant: nothing is deleted once the row says "parsed".
CompensateUnparsed(d) ==
    /\ Goto(d, "compensating", "marking")
    /\ vectors' = IF row[d] = "parsed" THEN vectors
                  ELSE [vectors EXCEPT ![d] = "none"]
    /\ UNCHANGED <<processing, row, file, stamp, listed, seq, analyses, basis, undeleted>>

\* delete_ids; the rows of kb_chunk_versions stay.
Compensate(d) ==
    /\ Goto(d, "compensating", "marking")
    /\ vectors' = [vectors EXCEPT ![d] = "none"]
    /\ UNCHANGED <<processing, row, file, stamp, listed, seq, analyses, basis, undeleted>>

\* The failure to delete is logged and forgotten.
CompensateFails(d) ==
    /\ "milvus" \in Faults
    /\ Goto(d, "compensating", "marking")
    /\ undeleted' = undeleted \union {d}
    /\ UNCHANGED <<processing, document, seq, analyses, basis>>

\* update_document_failed; its own failure is logged and forgotten.
MarkFailed(d) ==
    /\ Goto(d, "marking", "giving up")
    /\ \/ row' = [row EXCEPT ![d] = "failed"]
       \/ "db" \in Faults /\ UNCHANGED row
    /\ UNCHANGED <<processing, file, vectors, stamp, listed, seq, analyses, basis, undeleted>>

\* Mutant: the contract is not told.
GiveUpSilently(d) ==
    /\ Goto(d, "giving up", "error")
    /\ UNCHANGED <<processing, document, seq, analyses, basis, undeleted>>

\* The except clause of the caller, when the document has not been indexed.
GiveUp(d) ==
    /\ Goto(d, "giving up", "error")
    /\ \/ processing' = "failed"
       \/ "db" \in Faults /\ UNCHANGED processing
    /\ UNCHANGED <<document, seq, analyses, basis, undeleted>>

-----------------------------------------------------------------------------
\* analyze is called for a contract that exists.
RequestAnalysis(a) ==
    /\ processing # "absent"
    /\ Goto(a, "idle", "analyzing")
    /\ UNCHANGED <<processing, document, seq, analyses, basis, undeleted>>

\* create_analysis_run, unless a run is in progress that is not stale.
BeginRun(q) ==
    /\ Goto(q, "analyzing", "retrieving")
    /\ current = NoRun \/ "stale" \in Faults
    /\ Runs!Begin(q)
    /\ processing' = "analyzing"
    /\ UNCHANGED <<document, seq, basis, undeleted>>

\* Mutant: the conflict is swallowed and the request answered.
RejectRunQuietly(q) ==
    /\ current # NoRun
    /\ Goto(q, "analyzing", "ok")
    /\ UNCHANGED <<processing, document, seq, analyses, basis, undeleted>>

\* ContractConflictError.
RejectRun(q) ==
    /\ current # NoRun
    /\ Goto(q, "analyzing", "error")
    /\ UNCHANGED <<processing, document, seq, analyses, basis, undeleted>>

CreateRunFails(q) ==
    /\ "db" \in Faults
    /\ Goto(q, "analyzing", "error")
    /\ UNCHANGED <<processing, document, seq, analyses, basis, undeleted>>

\* ContractChunkRetriever.retrieve; the stages of a run retrieve one after the
\* other, the first of them stands for all.
Retrieve(q) ==
    /\ Goto(q, "retrieving", "publishing")
    /\ basis' = [basis EXCEPT ![q] = Visible]
    /\ UNCHANGED <<processing, document, seq, analyses, undeleted>>

AnalysisFails(q) ==
    /\ \/ "stage" \in Faults /\ Goto(q, "retrieving", "failing")
       \/ "db" \in Faults /\ Goto(q, "publishing", "failing")
       \/ current # q /\ Goto(q, "publishing", "failing")
    /\ UNCHANGED <<processing, document, seq, analyses, basis, undeleted>>

\* save_analysis_result, first transaction and second.
PublishRun(q) ==
    /\ Goto(q, "publishing", "facts")
    /\ current = q
    /\ Runs!Publish
    /\ UNCHANGED <<processing, document, seq, basis, undeleted>>

SaveFacts(q) ==
    /\ Goto(q, "facts", "ok")
    /\ processing' = "ready"
    /\ UNCHANGED <<document, seq, analyses, basis, undeleted>>

SaveFactsFails(q) ==
    /\ "db" \in Faults
    /\ Goto(q, "facts", "failing")
    /\ UNCHANGED <<processing, document, seq, analyses, basis, undeleted>>

\* fail_analysis; nothing happens to a run that is no longer running.
FailRun(q) ==
    /\ Goto(q, "failing", "error")
    /\ \/ /\ current = q
          /\ Runs!Abandon
          /\ processing' = IF latest # NoRun THEN "ready" ELSE "failed"
       \/ /\ current # q \/ "db" \in Faults
          /\ UNCHANGED <<analyses, processing>>
    /\ UNCHANGED <<document, seq, basis, undeleted>>

-----------------------------------------------------------------------------
\* The process dies.
Crash(q) ==
    /\ "crash" \in Faults
    /\ pc[q] \notin Over \union {"idle"}
    /\ pc' = [pc EXCEPT ![q] = "lost"]
    /\ UNCHANGED <<processing, document, seq, analyses, basis, undeleted>>

\* An administrator activates an older version of the knowledge base.
Rollback ==
    /\ "rollback" \in Faults
    /\ seq > 1
    /\ seq' = seq - 1
    /\ UNCHANGED <<processing, document, analyses, basis, pc, undeleted>>

AddDocument(d) ==
    \/ WriteFile(d)
    \/ CreateContract(d) \/ CreateContractFails(d)
    \/ InsertRow(d)      \/ InsertRowFails(d)
    \/ MarkParsing(d)    \/ MarkParsingFails(d)
    \/ Load(d)           \/ LoadFails(d)
    \/ AddVectors(d)     \/ RegisterChunks(d)  \/ FinishRow(d) \/ MarkParsed(d)
    \/ StoreFails(d)     \/ Compensate(d)      \/ CompensateFails(d)
    \/ MarkFailed(d)     \/ GiveUp(d)

Analyze(q) ==
    \/ BeginRun(q)   \/ RejectRun(q) \/ CreateRunFails(q)
    \/ Retrieve(q)   \/ AnalysisFails(q)
    \/ PublishRun(q) \/ SaveFacts(q) \/ SaveFactsFails(q)
    \/ FailRun(q)

Next ==
    \/ Rollback
    \/ \E d \in Documents : AddDocument(d)
    \/ \E a \in Analysts : RequestAnalysis(a)
    \/ \E q \in Requests : Analyze(q) \/ Crash(q)

Spec == Init /\ [][Next]_vars

-----------------------------------------------------------------------------
TypeOK ==
    /\ processing \in {"absent", "uploaded", "parsing", "parsed", "analyzing",
                       "ready", "failed"}
    /\ row     \in [Documents -> {"absent", "uploaded", "parsed", "failed"}]
    /\ file    \in [Documents -> BOOLEAN]
    /\ vectors \in [Documents -> {"none", "some", "all"}]
    /\ stamp   \in [Documents -> 0 .. MaxSeq]
    /\ listed  \in [Documents -> BOOLEAN]
    /\ seq     \in 1 .. MaxSeq
    /\ current \in Requests \union {NoRun}
    /\ latest  \in Requests \union {NoRun}
    /\ retired \subseteq Requests
    /\ basis   \in [Requests -> SUBSET Documents]
    /\ pc \in [Requests -> {"idle", "creating", "inserting", "starting"}
                             \union Pipeline \union Analysis \union Over]
    /\ undeleted \subseteq Documents

\* Whoever adds a document and is told that all went well finds it in the
\* analysis the contract shows, also after later analyses, takeovers of slow
\* ones and their late results.
SuccessIsAnalysed ==
    \A d \in Documents : pc[d] = "ok" => latest # NoRun /\ d \in basis[latest]

\* A document marked failed has left nothing in Milvus for an analysis or an
\* answer to quote, wherever its request failed, unless deleting failed.
FailedLeavesNothing ==
    \A d \in Documents \ undeleted : row[d] = "failed" => vectors[d] = "none"

\* As long as no process dies and MySQL answers, "parsing" and "analyzing" are
\* only shown while the system is at work ("the system is parsing the document,
\* extracting and analysing"): nobody waits for a contract nobody works on.
BusyMeansAtWork ==
    /\ processing = "parsing"   => \E d \in Documents : pc[d] \in Pipeline
    /\ processing = "analyzing" => \/ current # NoRun
                                   \/ \E q \in Requests : pc[q] = "facts"
=============================================================================
