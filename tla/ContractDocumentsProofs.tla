----------------------- MODULE ContractDocumentsProofs -----------------------
(***************************************************************************)
(* Proofs about ContractDocuments, for any number of documents, analysts   *)
(* and versions and any selection of failures.                             *)
(*                                                                         *)
(* No lock protects a document between its registration and the analysis   *)
(* that was asked for with it.  What protects it is an order: a run        *)
(* retrieves after it has begun, begins after its request has indexed its  *)
(* document, and is the only run that can be published from then on until  *)
(* it is given up (the ledger).  So whatever is published after a success  *)
(* has been retrieved after that success.                                  *)
(***************************************************************************)
EXTENDS ContractDocuments, TLAPS

\* Before Milvus has been called it holds nothing of the document.
NothingYet ==
    \A d \in Documents :
        pc[d] \in {"idle", "creating", "inserting", "starting", "loading", "indexing"}
            => vectors[d] = "none"

\* A request that has got past Milvus, and has not been compensated, can rely
\* on the chunks of its document.
IndexedByThen ==
    \A d \in Documents :
        pc[d] \in {"registering", "finishing", "announcing", "stored", "ok"} \union Analysis
            => vectors[d] # "none"

\* Compensation comes before the row is marked, and that is the end.
FailedIsLate ==
    \A d \in Documents :
        /\ pc[d] = "marking" /\ d \notin undeleted => vectors[d] = "none"
        /\ row[d] = "failed" =>
             /\ pc[d] \in {"giving up", "error", "lost"}
             /\ d \in undeleted \/ vectors[d] = "none"

\* The invariant of the pipeline.
PipelineInv == TypeOK /\ NothingYet /\ IndexedByThen /\ FailedIsLate

\* Chunks carry the number of a version that was active.
StampsArePast == \A d \in Documents : stamp[d] <= seq

\* The run of a request that has added a document has retrieved it.
OwnDocumentRetrieved ==
    \A d \in Documents : pc[d] = "publishing" => d \in basis[d]

\* What has been published is in the latest run, and in any run that can still
\* become the latest.
Included ==
    \A d \in Documents : pc[d] \in {"facts", "ok"} =>
        /\ latest # NoRun
        /\ d \in basis[latest]
        /\ current # NoRun /\ pc[current] = "publishing" => d \in basis[current]

\* The latest run does not retrieve any more.
LatestIsDone ==
    latest # NoRun => pc[latest] \in {"facts", "ok", "failing", "error", "lost"}

\* The invariant of the analyses.
AnalysisInv ==
    PipelineInv /\ StampsArePast /\ OwnDocumentRetrieved /\ Included /\ LatestIsDone

-----------------------------------------------------------------------------
\* Every step keeps the types.
LEMMA TypeInvariant == TypeOK /\ [Next]_vars => TypeOK'
<1> SUFFICES ASSUME TypeOK, [Next]_vars PROVE TypeOK'
  OBVIOUS
<1>s. seq \in 0 .. MaxSeq
  BY BoundAssumption DEF TypeOK
<1>r. Rollback => seq' \in 1 .. MaxSeq
  BY BoundAssumption DEF Rollback, TypeOK
<1> USE RequestsAssumption, BoundAssumption
        DEF TypeOK, Requests, Goto, Pipeline, Analysis, Over, document, analyses
<1>1. ASSUME NEW d \in Documents, WriteFile(d) PROVE TypeOK'
  BY <1>1 DEF WriteFile
<1>2. ASSUME NEW d \in Documents, CreateContract(d) PROVE TypeOK'
  BY <1>2 DEF CreateContract
<1>3. ASSUME NEW d \in Documents, CreateContractFails(d) PROVE TypeOK'
  BY <1>3 DEF CreateContractFails
<1>4. ASSUME NEW d \in Documents, InsertRow(d) PROVE TypeOK'
  BY <1>4 DEF InsertRow
<1>5. ASSUME NEW d \in Documents, InsertRowFails(d) PROVE TypeOK'
  BY <1>5 DEF InsertRowFails
<1>6. ASSUME NEW d \in Documents, MarkParsing(d) PROVE TypeOK'
  BY <1>6 DEF MarkParsing
<1>7. ASSUME NEW d \in Documents, MarkParsingFails(d) PROVE TypeOK'
  BY <1>7 DEF MarkParsingFails
<1>8. ASSUME NEW d \in Documents, Load(d) PROVE TypeOK'
  BY <1>s, <1>8 DEF Load
<1>9. ASSUME NEW d \in Documents, LoadFails(d) PROVE TypeOK'
  BY <1>9 DEF LoadFails
<1>10. ASSUME NEW d \in Documents, AddVectors(d) PROVE TypeOK'
  <2>1. vectors' \in [Documents -> {"none", "some", "all"}]
    BY <1>10 DEF AddVectors
  <2>2. pc' \in [Requests -> {"idle", "creating", "inserting", "starting"}
                               \union Pipeline \union Analysis \union Over]
    BY <1>10 DEF AddVectors
  <2> QED
    BY <2>1, <2>2, <1>10 DEF AddVectors
<1>11. ASSUME NEW d \in Documents, RegisterChunks(d) PROVE TypeOK'
  BY <1>11 DEF RegisterChunks
<1>12. ASSUME NEW d \in Documents, FinishRow(d) PROVE TypeOK'
  BY <1>12 DEF FinishRow
<1>13. ASSUME NEW d \in Documents, MarkParsed(d) PROVE TypeOK'
  BY <1>13 DEF MarkParsed
<1>14. ASSUME NEW d \in Documents, StoreFails(d) PROVE TypeOK'
  BY <1>14 DEF StoreFails
<1>15. ASSUME NEW d \in Documents, Compensate(d) PROVE TypeOK'
  BY <1>15 DEF Compensate
<1>16. ASSUME NEW d \in Documents, CompensateFails(d) PROVE TypeOK'
  BY <1>16 DEF CompensateFails
<1>17. ASSUME NEW d \in Documents, MarkFailed(d) PROVE TypeOK'
  BY <1>17 DEF MarkFailed
<1>18. ASSUME NEW d \in Documents, GiveUp(d) PROVE TypeOK'
  BY <1>18 DEF GiveUp
<1>19. ASSUME NEW q \in Analysts, RequestAnalysis(q) PROVE TypeOK'
  BY <1>19 DEF RequestAnalysis
<1>20. ASSUME NEW q \in Requests, BeginRun(q) PROVE TypeOK'
  BY <1>20 DEF BeginRun, Runs!Begin
<1>21. ASSUME NEW q \in Requests, RejectRun(q) PROVE TypeOK'
  BY <1>21 DEF RejectRun
<1>22. ASSUME NEW q \in Requests, CreateRunFails(q) PROVE TypeOK'
  BY <1>22 DEF CreateRunFails
<1>23. ASSUME NEW q \in Requests, Retrieve(q) PROVE TypeOK'
  BY <1>23 DEF Retrieve, Visible
<1>24. ASSUME NEW q \in Requests, AnalysisFails(q) PROVE TypeOK'
  BY <1>24 DEF AnalysisFails
<1>25. ASSUME NEW q \in Requests, PublishRun(q) PROVE TypeOK'
  BY <1>25 DEF PublishRun, Runs!Publish, Runs!End
<1>26. ASSUME NEW q \in Requests, SaveFacts(q) PROVE TypeOK'
  BY <1>26 DEF SaveFacts
<1>27. ASSUME NEW q \in Requests, SaveFactsFails(q) PROVE TypeOK'
  BY <1>27 DEF SaveFactsFails
<1>28. ASSUME NEW q \in Requests, FailRun(q) PROVE TypeOK'
  BY <1>28 DEF FailRun, Runs!Abandon, Runs!End
<1>29. ASSUME NEW q \in Requests, Crash(q) PROVE TypeOK'
  BY <1>29 DEF Crash
<1>30. CASE Rollback
  BY <1>r, <1>30 DEF Rollback
<1>31. CASE UNCHANGED vars
  BY <1>31 DEF vars
<1> QED
  BY <1>1, <1>2, <1>3, <1>4, <1>5, <1>6, <1>7, <1>8, <1>9, <1>10,
     <1>11, <1>12, <1>13, <1>14, <1>15, <1>16, <1>17, <1>18, <1>19, <1>20,
     <1>21, <1>22, <1>23, <1>24, <1>25, <1>26, <1>27, <1>28, <1>29, <1>30,
     <1>31 DEF Next, AddDocument, Analyze

\* A step of one request moves nobody else.
LEMMA GotoMoves ==
    ASSUME TypeOK, NEW q \in Requests, NEW from, NEW to, Goto(q, from, to)
    PROVE  pc[q] = from /\ pc'[q] = to /\ \A e \in Requests \ {q} : pc'[e] = pc[e]
BY DEF Goto, TypeOK

\* What the invariant says of the documents whose requests do not move.
LEMMA OthersKeepPipeline ==
    ASSUME PipelineInv, TypeOK', NEW q \in Requests,
           \A e \in Documents \ {q} :
              /\ pc'[e] = pc[e] /\ vectors'[e] = vectors[e] /\ row'[e] = row[e]
              /\ e \in undeleted <=> e \in undeleted',
           q \in Documents =>
              /\ pc'[q] \in {"idle", "creating", "inserting", "starting", "loading", "indexing"}
                    => vectors'[q] = "none"
              /\ pc'[q] \in {"registering", "finishing", "announcing", "stored", "ok"}
                              \union Analysis
                    => vectors'[q] # "none"
              /\ pc'[q] = "marking" /\ q \notin undeleted' => vectors'[q] = "none"
              /\ row'[q] = "failed" => /\ pc'[q] \in {"giving up", "error", "lost"}
                                       /\ q \in undeleted' \/ vectors'[q] = "none"
    PROVE  PipelineInv'
BY DEF PipelineInv, NothingYet, IndexedByThen, FailedIsLate

\* Every step keeps the invariant of the pipeline.
LEMMA PipelineInductive == PipelineInv /\ [Next]_vars => PipelineInv'
<1> SUFFICES ASSUME PipelineInv, [Next]_vars PROVE PipelineInv'
  OBVIOUS
<1>t. TypeOK /\ TypeOK'
  BY TypeInvariant DEF PipelineInv
<1>d. Documents \subseteq Requests
  BY DEF Requests
<1>e. \A q \in Requests : \A e \in Documents \ {q} : e \in Requests \ {q}
  BY <1>d
<1>1. ASSUME NEW d \in Documents, WriteFile(d) PROVE PipelineInv'
  <2>1. pc[d] = "idle" /\ pc'[d] \in {"creating", "inserting"}
    BY <1>1, <1>t, <1>d, GotoMoves DEF WriteFile
  <2>2. \A e \in Documents \ {d} : pc'[e] = pc[e]
    BY <1>1, <1>t, <1>d, <1>e, GotoMoves DEF WriteFile
  <2>3. UNCHANGED <<vectors, row, undeleted>>
    BY <1>1 DEF WriteFile, document
  <2> QED
    BY <1>d, <1>t, <2>1, <2>2, <2>3, OthersKeepPipeline
       DEF PipelineInv, NothingYet, IndexedByThen, FailedIsLate, Analysis
<1>2. ASSUME NEW d \in Documents, CreateContract(d) PROVE PipelineInv'
  <2>1. pc[d] = "creating" /\ pc'[d] = "inserting"
    BY <1>2, <1>t, <1>d, GotoMoves DEF CreateContract
  <2>2. \A e \in Documents \ {d} : pc'[e] = pc[e]
    BY <1>2, <1>t, <1>d, <1>e, GotoMoves DEF CreateContract
  <2>3. UNCHANGED <<vectors, row, undeleted>>
    BY <1>2 DEF CreateContract, document
  <2> QED
    BY <1>d, <1>t, <2>1, <2>2, <2>3, OthersKeepPipeline
       DEF PipelineInv, NothingYet, IndexedByThen, FailedIsLate, Analysis
<1>3. ASSUME NEW d \in Documents, CreateContractFails(d) PROVE PipelineInv'
  <2>1. pc[d] = "creating" /\ pc'[d] = "error"
    BY <1>3, <1>t, <1>d, GotoMoves DEF CreateContractFails
  <2>2. \A e \in Documents \ {d} : pc'[e] = pc[e]
    BY <1>3, <1>t, <1>d, <1>e, GotoMoves DEF CreateContractFails
  <2>3. UNCHANGED <<vectors, row, undeleted>>
    BY <1>3 DEF CreateContractFails, document
  <2> QED
    BY <1>d, <1>t, <2>1, <2>2, <2>3, OthersKeepPipeline
       DEF PipelineInv, NothingYet, IndexedByThen, FailedIsLate, Analysis
<1>4. ASSUME NEW d \in Documents, InsertRow(d) PROVE PipelineInv'
  <2>1. pc[d] = "inserting" /\ pc'[d] = "starting"
    BY <1>4, <1>t, <1>d, GotoMoves DEF InsertRow
  <2>2. \A e \in Documents \ {d} : pc'[e] = pc[e]
    BY <1>4, <1>t, <1>d, <1>e, GotoMoves DEF InsertRow
  <2>3. row' = [row EXCEPT ![d] = "uploaded"] /\ UNCHANGED <<vectors, undeleted>>
    BY <1>4 DEF InsertRow, document
  <2>4. row'[d] = "uploaded" /\ \A e \in Documents \ {d} : row'[e] = row[e]
    BY <2>3, <1>t DEF TypeOK
  <2> QED
    BY <1>d, <1>t, <2>1, <2>2, <2>3, <2>4, OthersKeepPipeline
       DEF PipelineInv, NothingYet, IndexedByThen, FailedIsLate, Analysis
<1>5. ASSUME NEW d \in Documents, InsertRowFails(d) PROVE PipelineInv'
  <2>1. pc[d] = "inserting" /\ pc'[d] = "giving up"
    BY <1>5, <1>t, <1>d, GotoMoves DEF InsertRowFails
  <2>2. \A e \in Documents \ {d} : pc'[e] = pc[e]
    BY <1>5, <1>t, <1>d, <1>e, GotoMoves DEF InsertRowFails
  <2>3. UNCHANGED <<vectors, row, undeleted>>
    BY <1>5 DEF InsertRowFails, document
  <2> QED
    BY <1>d, <1>t, <2>1, <2>2, <2>3, OthersKeepPipeline
       DEF PipelineInv, NothingYet, IndexedByThen, FailedIsLate, Analysis
<1>6. ASSUME NEW d \in Documents, MarkParsing(d) PROVE PipelineInv'
  <2>1. pc[d] = "starting" /\ pc'[d] = "loading"
    BY <1>6, <1>t, <1>d, GotoMoves DEF MarkParsing
  <2>2. \A e \in Documents \ {d} : pc'[e] = pc[e]
    BY <1>6, <1>t, <1>d, <1>e, GotoMoves DEF MarkParsing
  <2>3. UNCHANGED <<vectors, row, undeleted>>
    BY <1>6 DEF MarkParsing, document
  <2> QED
    BY <1>d, <1>t, <2>1, <2>2, <2>3, OthersKeepPipeline
       DEF PipelineInv, NothingYet, IndexedByThen, FailedIsLate, Analysis
<1>7. ASSUME NEW d \in Documents, MarkParsingFails(d) PROVE PipelineInv'
  <2>1. pc[d] = "starting" /\ pc'[d] = "giving up"
    BY <1>7, <1>t, <1>d, GotoMoves DEF MarkParsingFails
  <2>2. \A e \in Documents \ {d} : pc'[e] = pc[e]
    BY <1>7, <1>t, <1>d, <1>e, GotoMoves DEF MarkParsingFails
  <2>3. UNCHANGED <<vectors, row, undeleted>>
    BY <1>7 DEF MarkParsingFails, document
  <2> QED
    BY <1>d, <1>t, <2>1, <2>2, <2>3, OthersKeepPipeline
       DEF PipelineInv, NothingYet, IndexedByThen, FailedIsLate, Analysis
<1>8. ASSUME NEW d \in Documents, Load(d) PROVE PipelineInv'
  <2>1. pc[d] = "loading" /\ pc'[d] = "indexing"
    BY <1>8, <1>t, <1>d, GotoMoves DEF Load
  <2>2. \A e \in Documents \ {d} : pc'[e] = pc[e]
    BY <1>8, <1>t, <1>d, <1>e, GotoMoves DEF Load
  <2>3. UNCHANGED <<vectors, row, undeleted>>
    BY <1>8 DEF Load, document
  <2> QED
    BY <1>d, <1>t, <2>1, <2>2, <2>3, OthersKeepPipeline
       DEF PipelineInv, NothingYet, IndexedByThen, FailedIsLate, Analysis
<1>9. ASSUME NEW d \in Documents, LoadFails(d) PROVE PipelineInv'
  <2>1. pc[d] = "loading" /\ pc'[d] = "marking"
    BY <1>9, <1>t, <1>d, GotoMoves DEF LoadFails
  <2>2. \A e \in Documents \ {d} : pc'[e] = pc[e]
    BY <1>9, <1>t, <1>d, <1>e, GotoMoves DEF LoadFails
  <2>3. UNCHANGED <<vectors, row, undeleted>>
    BY <1>9 DEF LoadFails, document
  <2> QED
    BY <1>d, <1>t, <2>1, <2>2, <2>3, OthersKeepPipeline
       DEF PipelineInv, NothingYet, IndexedByThen, FailedIsLate, Analysis
<1>10. ASSUME NEW d \in Documents, AddVectors(d) PROVE PipelineInv'
  <2>1. pc[d] = "indexing" /\ pc'[d] \in {"registering", "compensating"}
    BY <1>10, <1>t, <1>d, GotoMoves DEF AddVectors
  <2>2. \A e \in Documents \ {d} : pc'[e] = pc[e]
    BY <1>10, <1>t, <1>d, <1>e, GotoMoves DEF AddVectors
  <2>3. PICK v \in {"none", "some", "all"} :
               /\ vectors' = [vectors EXCEPT ![d] = v]
               /\ pc'[d] = "registering" => v = "all"
    BY <1>10, <1>t, <1>d, GotoMoves DEF AddVectors
  <2>4. UNCHANGED <<row, undeleted>>
    BY <1>10 DEF AddVectors
  <2>5. \A e \in Documents \ {d} : vectors'[e] = vectors[e]
    BY <2>3, <1>t DEF TypeOK
  <2>6. vectors'[d] = v
    BY <2>3, <1>t DEF TypeOK
  <2> QED
    BY <1>d, <1>t, <2>1, <2>2, <2>3, <2>4, <2>5, <2>6, OthersKeepPipeline
       DEF PipelineInv, FailedIsLate, Analysis
<1>11. ASSUME NEW d \in Documents, RegisterChunks(d) PROVE PipelineInv'
  <2>1. pc[d] = "registering" /\ pc'[d] = "finishing"
    BY <1>11, <1>t, <1>d, GotoMoves DEF RegisterChunks
  <2>2. \A e \in Documents \ {d} : pc'[e] = pc[e]
    BY <1>11, <1>t, <1>d, <1>e, GotoMoves DEF RegisterChunks
  <2>3. UNCHANGED <<vectors, row, undeleted>>
    BY <1>11 DEF RegisterChunks, document
  <2> QED
    BY <1>d, <1>t, <2>1, <2>2, <2>3, OthersKeepPipeline
       DEF PipelineInv, NothingYet, IndexedByThen, FailedIsLate, Analysis
<1>12. ASSUME NEW d \in Documents, FinishRow(d) PROVE PipelineInv'
  <2>1. pc[d] = "finishing" /\ pc'[d] = "announcing"
    BY <1>12, <1>t, <1>d, GotoMoves DEF FinishRow
  <2>2. \A e \in Documents \ {d} : pc'[e] = pc[e]
    BY <1>12, <1>t, <1>d, <1>e, GotoMoves DEF FinishRow
  <2>3. row' = [row EXCEPT ![d] = "parsed"] /\ UNCHANGED <<vectors, undeleted>>
    BY <1>12 DEF FinishRow, document
  <2>4. row'[d] = "parsed" /\ \A e \in Documents \ {d} : row'[e] = row[e]
    BY <2>3, <1>t DEF TypeOK
  <2> QED
    BY <1>d, <1>t, <2>1, <2>2, <2>3, <2>4, OthersKeepPipeline
       DEF PipelineInv, NothingYet, IndexedByThen, FailedIsLate, Analysis
<1>13. ASSUME NEW d \in Documents, MarkParsed(d) PROVE PipelineInv'
  <2>1. pc[d] = "announcing" /\ pc'[d] \in {"analyzing", "stored"}
    BY <1>13, <1>t, <1>d, GotoMoves DEF MarkParsed
  <2>2. \A e \in Documents \ {d} : pc'[e] = pc[e]
    BY <1>13, <1>t, <1>d, <1>e, GotoMoves DEF MarkParsed
  <2>3. UNCHANGED <<vectors, row, undeleted>>
    BY <1>13 DEF MarkParsed, document
  <2> QED
    BY <1>d, <1>t, <2>1, <2>2, <2>3, OthersKeepPipeline
       DEF PipelineInv, NothingYet, IndexedByThen, FailedIsLate, Analysis
<1>14. ASSUME NEW d \in Documents, StoreFails(d) PROVE PipelineInv'
  <2>1. pc[d] \in {"registering", "finishing", "announcing"} /\ pc'[d] = "compensating"
    BY <1>14, <1>t, <1>d, GotoMoves DEF StoreFails
  <2>2. \A e \in Documents \ {d} : pc'[e] = pc[e]
    BY <1>14, <1>t, <1>d, <1>e, GotoMoves DEF StoreFails
  <2>3. UNCHANGED <<vectors, row, undeleted>>
    BY <1>14 DEF StoreFails, document
  <2> QED
    BY <1>d, <1>t, <2>1, <2>2, <2>3, OthersKeepPipeline
       DEF PipelineInv, NothingYet, IndexedByThen, FailedIsLate, Analysis
<1>15. ASSUME NEW d \in Documents, Compensate(d) PROVE PipelineInv'
  <2>1. pc[d] = "compensating" /\ pc'[d] = "marking"
    BY <1>15, <1>t, <1>d, GotoMoves DEF Compensate
  <2>2. \A e \in Documents \ {d} : pc'[e] = pc[e]
    BY <1>15, <1>t, <1>d, <1>e, GotoMoves DEF Compensate
  <2>3. vectors' = [vectors EXCEPT ![d] = "none"] /\ UNCHANGED <<row, undeleted>>
    BY <1>15 DEF Compensate, document
  <2>4. vectors'[d] = "none" /\ \A e \in Documents \ {d} : vectors'[e] = vectors[e]
    BY <2>3, <1>t DEF TypeOK
  <2> QED
    BY <1>d, <1>t, <2>1, <2>2, <2>3, <2>4, OthersKeepPipeline
       DEF PipelineInv, NothingYet, IndexedByThen, FailedIsLate, Analysis
<1>16. ASSUME NEW d \in Documents, CompensateFails(d) PROVE PipelineInv'
  <2>1. pc[d] = "compensating" /\ pc'[d] = "marking"
    BY <1>16, <1>t, <1>d, GotoMoves DEF CompensateFails
  <2>2. \A e \in Documents \ {d} : pc'[e] = pc[e]
    BY <1>16, <1>t, <1>d, <1>e, GotoMoves DEF CompensateFails
  <2>3. undeleted' = undeleted \union {d} /\ UNCHANGED <<vectors, row>>
    BY <1>16 DEF CompensateFails, document
  <2> QED
    BY <1>d, <1>t, <2>1, <2>2, <2>3, OthersKeepPipeline
       DEF PipelineInv, NothingYet, IndexedByThen, FailedIsLate, Analysis
<1>17. ASSUME NEW d \in Documents, MarkFailed(d) PROVE PipelineInv'
  <2>1. pc[d] = "marking" /\ pc'[d] = "giving up"
    BY <1>17, <1>t, <1>d, GotoMoves DEF MarkFailed
  <2>2. \A e \in Documents \ {d} : pc'[e] = pc[e]
    BY <1>17, <1>t, <1>d, <1>e, GotoMoves DEF MarkFailed
  <2>3. UNCHANGED <<vectors, undeleted>> /\ \A e \in Documents \ {d} : row'[e] = row[e]
    BY <1>17, <1>t DEF MarkFailed, TypeOK
  <2> QED
    BY <1>d, <1>t, <2>1, <2>2, <2>3, OthersKeepPipeline
       DEF PipelineInv, FailedIsLate, Analysis
<1>18. ASSUME NEW d \in Documents, GiveUp(d) PROVE PipelineInv'
  <2>1. pc[d] = "giving up" /\ pc'[d] = "error"
    BY <1>18, <1>t, <1>d, GotoMoves DEF GiveUp
  <2>2. \A e \in Documents \ {d} : pc'[e] = pc[e]
    BY <1>18, <1>t, <1>d, <1>e, GotoMoves DEF GiveUp
  <2>3. UNCHANGED <<vectors, row, undeleted>>
    BY <1>18 DEF GiveUp, document
  <2> QED
    BY <1>d, <1>t, <2>1, <2>2, <2>3, OthersKeepPipeline
       DEF PipelineInv, NothingYet, IndexedByThen, FailedIsLate, Analysis
<1>19. ASSUME NEW q \in Requests, BeginRun(q) PROVE PipelineInv'
  <2>1. pc[q] = "analyzing" /\ pc'[q] = "retrieving"
    BY <1>19, <1>t, GotoMoves DEF BeginRun
  <2>2. \A e \in Documents \ {q} : pc'[e] = pc[e]
    BY <1>19, <1>t, <1>e, GotoMoves DEF BeginRun
  <2>3. UNCHANGED <<vectors, row, undeleted>>
    BY <1>19 DEF BeginRun, document
  <2> QED
    BY <1>t, <2>1, <2>2, <2>3, OthersKeepPipeline
       DEF PipelineInv, IndexedByThen, FailedIsLate, Analysis
<1>20. ASSUME NEW q \in Requests, RejectRun(q) PROVE PipelineInv'
  <2>1. pc[q] = "analyzing" /\ pc'[q] = "error"
    BY <1>20, <1>t, GotoMoves DEF RejectRun
  <2>2. \A e \in Documents \ {q} : pc'[e] = pc[e]
    BY <1>20, <1>t, <1>e, GotoMoves DEF RejectRun
  <2>3. UNCHANGED <<vectors, row, undeleted>>
    BY <1>20 DEF RejectRun, document
  <2> QED
    BY <1>t, <2>1, <2>2, <2>3, OthersKeepPipeline
       DEF PipelineInv, IndexedByThen, FailedIsLate, Analysis
<1>21. ASSUME NEW q \in Requests, CreateRunFails(q) PROVE PipelineInv'
  <2>1. pc[q] = "analyzing" /\ pc'[q] = "error"
    BY <1>21, <1>t, GotoMoves DEF CreateRunFails
  <2>2. \A e \in Documents \ {q} : pc'[e] = pc[e]
    BY <1>21, <1>t, <1>e, GotoMoves DEF CreateRunFails
  <2>3. UNCHANGED <<vectors, row, undeleted>>
    BY <1>21 DEF CreateRunFails, document
  <2> QED
    BY <1>t, <2>1, <2>2, <2>3, OthersKeepPipeline
       DEF PipelineInv, IndexedByThen, FailedIsLate, Analysis
<1>22. ASSUME NEW q \in Requests, Retrieve(q) PROVE PipelineInv'
  <2>1. pc[q] = "retrieving" /\ pc'[q] = "publishing"
    BY <1>22, <1>t, GotoMoves DEF Retrieve
  <2>2. \A e \in Documents \ {q} : pc'[e] = pc[e]
    BY <1>22, <1>t, <1>e, GotoMoves DEF Retrieve
  <2>3. UNCHANGED <<vectors, row, undeleted>>
    BY <1>22 DEF Retrieve, document
  <2> QED
    BY <1>t, <2>1, <2>2, <2>3, OthersKeepPipeline
       DEF PipelineInv, IndexedByThen, FailedIsLate, Analysis
<1>23. ASSUME NEW q \in Requests, AnalysisFails(q) PROVE PipelineInv'
  <2>1. pc[q] \in {"retrieving", "publishing"} /\ pc'[q] = "failing"
    BY <1>23, <1>t, GotoMoves DEF AnalysisFails
  <2>2. \A e \in Documents \ {q} : pc'[e] = pc[e]
    BY <1>23, <1>t, <1>e, GotoMoves DEF AnalysisFails
  <2>3. UNCHANGED <<vectors, row, undeleted>>
    BY <1>23 DEF AnalysisFails, document
  <2> QED
    BY <1>t, <2>1, <2>2, <2>3, OthersKeepPipeline
       DEF PipelineInv, IndexedByThen, FailedIsLate, Analysis
<1>24. ASSUME NEW q \in Requests, PublishRun(q) PROVE PipelineInv'
  <2>1. pc[q] = "publishing" /\ pc'[q] = "facts"
    BY <1>24, <1>t, GotoMoves DEF PublishRun
  <2>2. \A e \in Documents \ {q} : pc'[e] = pc[e]
    BY <1>24, <1>t, <1>e, GotoMoves DEF PublishRun
  <2>3. UNCHANGED <<vectors, row, undeleted>>
    BY <1>24 DEF PublishRun, document
  <2> QED
    BY <1>t, <2>1, <2>2, <2>3, OthersKeepPipeline
       DEF PipelineInv, IndexedByThen, FailedIsLate, Analysis
<1>25. ASSUME NEW q \in Requests, SaveFacts(q) PROVE PipelineInv'
  <2>1. pc[q] = "facts" /\ pc'[q] = "ok"
    BY <1>25, <1>t, GotoMoves DEF SaveFacts
  <2>2. \A e \in Documents \ {q} : pc'[e] = pc[e]
    BY <1>25, <1>t, <1>e, GotoMoves DEF SaveFacts
  <2>3. UNCHANGED <<vectors, row, undeleted>>
    BY <1>25 DEF SaveFacts, document
  <2> QED
    BY <1>t, <2>1, <2>2, <2>3, OthersKeepPipeline
       DEF PipelineInv, IndexedByThen, FailedIsLate, Analysis
<1>26. ASSUME NEW q \in Requests, SaveFactsFails(q) PROVE PipelineInv'
  <2>1. pc[q] = "facts" /\ pc'[q] = "failing"
    BY <1>26, <1>t, GotoMoves DEF SaveFactsFails
  <2>2. \A e \in Documents \ {q} : pc'[e] = pc[e]
    BY <1>26, <1>t, <1>e, GotoMoves DEF SaveFactsFails
  <2>3. UNCHANGED <<vectors, row, undeleted>>
    BY <1>26 DEF SaveFactsFails, document
  <2> QED
    BY <1>t, <2>1, <2>2, <2>3, OthersKeepPipeline
       DEF PipelineInv, IndexedByThen, FailedIsLate, Analysis
<1>27. ASSUME NEW q \in Requests, FailRun(q) PROVE PipelineInv'
  <2>1. pc[q] = "failing" /\ pc'[q] = "error"
    BY <1>27, <1>t, GotoMoves DEF FailRun
  <2>2. \A e \in Documents \ {q} : pc'[e] = pc[e]
    BY <1>27, <1>t, <1>e, GotoMoves DEF FailRun
  <2>3. UNCHANGED <<vectors, row, undeleted>>
    BY <1>27 DEF FailRun, document
  <2> QED
    BY <1>t, <2>1, <2>2, <2>3, OthersKeepPipeline
       DEF PipelineInv, IndexedByThen, FailedIsLate, Analysis
<1>28. ASSUME NEW a \in Analysts, RequestAnalysis(a) PROVE PipelineInv'
  <2>1. a \in Requests /\ a \notin Documents
    BY RequestsAssumption DEF Requests
  <2>2. \A e \in Documents \ {a} : pc'[e] = pc[e]
    BY <2>1, <1>28, <1>t, <1>e, GotoMoves DEF RequestAnalysis
  <2>3. UNCHANGED <<vectors, row, undeleted>>
    BY <1>28 DEF RequestAnalysis, document
  <2> QED
    BY <1>t, <2>1, <2>2, <2>3, OthersKeepPipeline
<1>29. ASSUME NEW q \in Requests, Crash(q) PROVE PipelineInv'
  <2>1. pc'[q] = "lost" /\ \A e \in Documents \ {q} : pc'[e] = pc[e]
    BY <1>29, <1>t, <1>e DEF Crash, TypeOK
  <2>2. UNCHANGED <<vectors, row, undeleted>>
    BY <1>29 DEF Crash, document
  <2> QED
    BY <1>t, <2>1, <2>2, OthersKeepPipeline DEF PipelineInv, FailedIsLate, Analysis
<1>30. CASE Rollback \/ UNCHANGED vars
  <2>1. UNCHANGED <<pc, vectors, row, undeleted>>
    BY <1>30 DEF Rollback, document, vars
  <2> QED
    BY <1>t, <2>1 DEF PipelineInv, NothingYet, IndexedByThen, FailedIsLate
<1> QED
  BY <1>1, <1>2, <1>3, <1>4, <1>5, <1>6, <1>7, <1>8, <1>9, <1>10,
     <1>11, <1>12, <1>13, <1>14, <1>15, <1>16, <1>17, <1>18, <1>19, <1>20,
     <1>21, <1>22, <1>23, <1>24, <1>25, <1>26, <1>27, <1>28, <1>29, <1>30 DEF Next, AddDocument, Analyze

\* A document marked failed has left nothing in Milvus, whatever fails and
\* whoever dies, unless the deletion is what failed.
THEOREM FailureIsClean == Spec => []FailedLeavesNothing
<1>1. Init => PipelineInv
  BY RequestsAssumption, BoundAssumption
     DEF Init, Runs!Init, PipelineInv, TypeOK, NothingYet, IndexedByThen, FailedIsLate,
         Requests, Analysis
<1>2. PipelineInv => FailedLeavesNothing
  BY DEF PipelineInv, FailedIsLate, FailedLeavesNothing
<1> QED
  BY <1>1, <1>2, PipelineInductive, PTL DEF Spec

\* Every column and every local keeps its type.
THEOREM TypeCorrect == Spec => []TypeOK
<1>1. Init => TypeOK
  BY RequestsAssumption, BoundAssumption DEF Init, Runs!Init, TypeOK, Requests
<1> QED
  BY <1>1, TypeInvariant, PTL DEF Spec

-----------------------------------------------------------------------------
\* Every step keeps the invariant of the analyses, as long as nobody rolls the
\* knowledge base back.
LEMMA AnalysisInductive ==
    ASSUME "rollback" \notin Faults
    PROVE  AnalysisInv /\ [Next]_vars => AnalysisInv'
<1> SUFFICES ASSUME AnalysisInv, [Next]_vars PROVE AnalysisInv'
  OBVIOUS
<1>t. PipelineInv /\ PipelineInv'
  BY PipelineInductive DEF AnalysisInv
<1> USE <1>t, RequestsAssumption
        DEF AnalysisInv, PipelineInv, TypeOK, StampsArePast, OwnDocumentRetrieved, Included,
            LatestIsDone, Requests, Goto, document, analyses
<1>1. ASSUME NEW d \in Documents, WriteFile(d) PROVE AnalysisInv'
  BY <1>1 DEF WriteFile
<1>2. ASSUME NEW d \in Documents, CreateContract(d) PROVE AnalysisInv'
  BY <1>2 DEF CreateContract
<1>3. ASSUME NEW d \in Documents, CreateContractFails(d) PROVE AnalysisInv'
  BY <1>3 DEF CreateContractFails
<1>4. ASSUME NEW d \in Documents, InsertRow(d) PROVE AnalysisInv'
  BY <1>4 DEF InsertRow
<1>5. ASSUME NEW d \in Documents, InsertRowFails(d) PROVE AnalysisInv'
  BY <1>5 DEF InsertRowFails
<1>6. ASSUME NEW d \in Documents, MarkParsing(d) PROVE AnalysisInv'
  BY <1>6 DEF MarkParsing
<1>7. ASSUME NEW d \in Documents, MarkParsingFails(d) PROVE AnalysisInv'
  BY <1>7 DEF MarkParsingFails
<1>8. ASSUME NEW d \in Documents, Load(d) PROVE AnalysisInv'
  BY <1>8 DEF Load
<1>9. ASSUME NEW d \in Documents, LoadFails(d) PROVE AnalysisInv'
  BY <1>9 DEF LoadFails
<1>10. ASSUME NEW d \in Documents, AddVectors(d) PROVE AnalysisInv'
  BY <1>10 DEF AddVectors
<1>11. ASSUME NEW d \in Documents, RegisterChunks(d) PROVE AnalysisInv'
  BY <1>11 DEF RegisterChunks
<1>12. ASSUME NEW d \in Documents, FinishRow(d) PROVE AnalysisInv'
  BY <1>12 DEF FinishRow
<1>13. ASSUME NEW d \in Documents, MarkParsed(d) PROVE AnalysisInv'
  BY <1>13 DEF MarkParsed
<1>14. ASSUME NEW d \in Documents, StoreFails(d) PROVE AnalysisInv'
  BY <1>14 DEF StoreFails
<1>15. ASSUME NEW d \in Documents, Compensate(d) PROVE AnalysisInv'
  BY <1>15 DEF Compensate
<1>16. ASSUME NEW d \in Documents, CompensateFails(d) PROVE AnalysisInv'
  BY <1>16 DEF CompensateFails
<1>17. ASSUME NEW d \in Documents, MarkFailed(d) PROVE AnalysisInv'
  BY <1>17 DEF MarkFailed
<1>18. ASSUME NEW d \in Documents, GiveUp(d) PROVE AnalysisInv'
  BY <1>18 DEF GiveUp
<1>19. ASSUME NEW q \in Analysts, RequestAnalysis(q) PROVE AnalysisInv'
  BY <1>19 DEF RequestAnalysis
<1>20. ASSUME NEW q \in Requests, BeginRun(q) PROVE AnalysisInv'
  BY <1>20 DEF BeginRun, Runs!Begin
<1>21. ASSUME NEW q \in Requests, RejectRun(q) PROVE AnalysisInv'
  BY <1>21 DEF RejectRun
<1>22. ASSUME NEW q \in Requests, CreateRunFails(q) PROVE AnalysisInv'
  BY <1>22 DEF CreateRunFails
<1>23. ASSUME NEW q \in Requests, Retrieve(q) PROVE AnalysisInv'
  BY <1>23 DEF Retrieve, Visible, IndexedByThen, Analysis
<1>24. ASSUME NEW q \in Requests, AnalysisFails(q) PROVE AnalysisInv'
  BY <1>24 DEF AnalysisFails
<1>25. ASSUME NEW q \in Requests, PublishRun(q) PROVE AnalysisInv'
  BY <1>25 DEF PublishRun, Runs!Publish, Runs!End
<1>26. ASSUME NEW q \in Requests, SaveFacts(q) PROVE AnalysisInv'
  BY <1>26 DEF SaveFacts
<1>27. ASSUME NEW q \in Requests, SaveFactsFails(q) PROVE AnalysisInv'
  BY <1>27 DEF SaveFactsFails
<1>28. ASSUME NEW q \in Requests, FailRun(q) PROVE AnalysisInv'
  BY <1>28 DEF FailRun, Runs!Abandon, Runs!End
<1>29. ASSUME NEW q \in Requests, Crash(q) PROVE AnalysisInv'
  BY <1>29 DEF Crash
<1>30. CASE Rollback
  BY <1>30 DEF Rollback
<1>31. CASE UNCHANGED vars
  BY <1>31 DEF vars
<1> QED
  BY <1>1, <1>2, <1>3, <1>4, <1>5, <1>6, <1>7, <1>8, <1>9, <1>10,
     <1>11, <1>12, <1>13, <1>14, <1>15, <1>16, <1>17, <1>18, <1>19, <1>20,
     <1>21, <1>22, <1>23, <1>24, <1>25, <1>26, <1>27, <1>28, <1>29, <1>30,
     <1>31 DEF Next, AddDocument, Analyze

\* A document whose request ended well is part of the analysis that is shown,
\* then and ever after, unless the knowledge base is rolled back.
THEOREM SuccessLasts ==
    ASSUME "rollback" \notin Faults
    PROVE  Spec => []SuccessIsAnalysed
<1>1. Init => AnalysisInv
  BY RequestsAssumption, BoundAssumption
     DEF Init, Runs!Init, AnalysisInv, PipelineInv, TypeOK, NothingYet, IndexedByThen,
         FailedIsLate, StampsArePast, OwnDocumentRetrieved, Included, LatestIsDone,
         Requests, Analysis
<1>2. AnalysisInv => SuccessIsAnalysed
  BY DEF AnalysisInv, Included, SuccessIsAnalysed
<1>3. AnalysisInv /\ [Next]_vars => AnalysisInv'
  BY AnalysisInductive
<1> QED
  BY <1>1, <1>2, <1>3, PTL DEF Spec
-----------------------------------------------------------------------------
\* Every step keeps the promise of the status: who takes a document out of the
\* pipeline, or a run out of the ledger, writes the status with it or goes on to.
LEMMA BusyInductive ==
    ASSUME "crash" \notin Faults, "db" \notin Faults
    PROVE  TypeOK /\ BusyMeansAtWork /\ [Next]_vars => BusyMeansAtWork'
<1> SUFFICES ASSUME TypeOK, BusyMeansAtWork, [Next]_vars PROVE BusyMeansAtWork'
  OBVIOUS
<1>d. Documents \subseteq Requests /\ Analysts \subseteq Requests
  BY DEF Requests
<1>p. \A e \in Documents : pc[e] \in Pipeline => pc[e] # "facts"
  BY DEF Pipeline
\* The request that moves stays in the pipeline, or was not in it.
<1>k. ASSUME NEW q \in Requests, NEW from, NEW to, Goto(q, from, to),
             from \in Pipeline => to \in Pipeline,
             from # "facts", UNCHANGED <<processing, current>>
      PROVE  BusyMeansAtWork'
  <2>1. \A e \in Documents : pc[e] \in Pipeline => pc'[e] \in Pipeline
    BY <1>k, <1>d, GotoMoves
  <2>2. \A e \in Requests : pc[e] = "facts" => pc'[e] = "facts"
    BY <1>k, GotoMoves
  <2> QED
    BY <1>k, <2>1, <2>2 DEF BusyMeansAtWork
<1>1. ASSUME NEW d \in Documents, WriteFile(d) PROVE BusyMeansAtWork'
  BY <1>1, <1>d, <1>k DEF WriteFile, Pipeline, analyses
<1>2. ASSUME NEW d \in Documents, CreateContract(d) PROVE BusyMeansAtWork'
  BY <1>2 DEF CreateContract, BusyMeansAtWork
<1>3. ASSUME NEW d \in Documents, InsertRow(d) PROVE BusyMeansAtWork'
  BY <1>3, <1>d, <1>k DEF InsertRow, Pipeline, analyses
<1>4. ASSUME NEW d \in Documents, MarkParsing(d) PROVE BusyMeansAtWork'
  <2>1. pc'[d] = "loading" /\ processing' = "parsing"
    BY <1>4, <1>d, GotoMoves DEF MarkParsing
  <2> QED
    BY <2>1 DEF BusyMeansAtWork, Pipeline
<1>5. ASSUME NEW d \in Documents, Load(d) PROVE BusyMeansAtWork'
  BY <1>5, <1>d, <1>k DEF Load, Pipeline, analyses
<1>6. ASSUME NEW d \in Documents, LoadFails(d) PROVE BusyMeansAtWork'
  BY <1>6, <1>d, <1>k DEF LoadFails, Pipeline, analyses
<1>7. ASSUME NEW d \in Documents, AddVectors(d) PROVE BusyMeansAtWork'
  <2>1. UNCHANGED <<processing, current>>
    BY <1>7 DEF AddVectors, analyses
  <2>2. Goto(d, "indexing", "registering") \/ Goto(d, "indexing", "compensating")
    BY <1>7 DEF AddVectors
  <2> QED
    BY <2>1, <2>2, <1>d, <1>k DEF Pipeline
<1>8. ASSUME NEW d \in Documents, RegisterChunks(d) PROVE BusyMeansAtWork'
  BY <1>8, <1>d, <1>k DEF RegisterChunks, Pipeline, analyses
<1>9. ASSUME NEW d \in Documents, FinishRow(d) PROVE BusyMeansAtWork'
  BY <1>9, <1>d, <1>k DEF FinishRow, Pipeline, analyses
<1>10. ASSUME NEW d \in Documents, MarkParsed(d) PROVE BusyMeansAtWork'
  BY <1>10 DEF MarkParsed, BusyMeansAtWork
<1>11. ASSUME NEW d \in Documents, Compensate(d) \/ CompensateFails(d)
       PROVE  BusyMeansAtWork'
  BY <1>11, <1>d, <1>k DEF Compensate, CompensateFails, Pipeline, analyses
<1>12. ASSUME NEW d \in Documents, MarkFailed(d) PROVE BusyMeansAtWork'
  BY <1>12, <1>d, <1>k DEF MarkFailed, Pipeline, analyses
<1>13. ASSUME NEW d \in Documents, GiveUp(d) PROVE BusyMeansAtWork'
  BY <1>13 DEF GiveUp, BusyMeansAtWork
<1>14. ASSUME NEW a \in Analysts, RequestAnalysis(a) PROVE BusyMeansAtWork'
  BY <1>14, <1>d, <1>k DEF RequestAnalysis, Pipeline, analyses
<1>15. ASSUME NEW q \in Requests, BeginRun(q) PROVE BusyMeansAtWork'
  <2>1. processing' = "analyzing" /\ current' = q
    BY <1>15 DEF BeginRun, Runs!Begin
  <2> QED
    BY <2>1, RequestsAssumption DEF BusyMeansAtWork
<1>16. ASSUME NEW q \in Requests, RejectRun(q) PROVE BusyMeansAtWork'
  BY <1>16, <1>k DEF RejectRun, Pipeline, analyses
<1>17. ASSUME NEW q \in Requests, Retrieve(q) PROVE BusyMeansAtWork'
  BY <1>17, <1>k DEF Retrieve, Pipeline, analyses
<1>18. ASSUME NEW q \in Requests, AnalysisFails(q) PROVE BusyMeansAtWork'
  <2>1. Goto(q, "retrieving", "failing") \/ Goto(q, "publishing", "failing")
    BY <1>18 DEF AnalysisFails
  <2>2. UNCHANGED <<processing, current>>
    BY <1>18 DEF AnalysisFails, analyses
  <2> QED
    BY <2>1, <2>2, <1>k DEF Pipeline
\* The run leaves the ledger, and its request still has the facts to save.
<1>19. ASSUME NEW q \in Requests, PublishRun(q) PROVE BusyMeansAtWork'
  <2>1. pc[q] = "publishing" /\ pc'[q] = "facts"
    BY <1>19, GotoMoves DEF PublishRun
  <2>2. \A e \in Documents : pc[e] \in Pipeline => pc'[e] \in Pipeline
    BY <1>19, <2>1, <1>d, GotoMoves DEF PublishRun, Pipeline
  <2>3. UNCHANGED processing
    BY <1>19 DEF PublishRun
  <2> QED
    BY <2>1, <2>2, <2>3 DEF BusyMeansAtWork
<1>20. ASSUME NEW q \in Requests, SaveFacts(q) PROVE BusyMeansAtWork'
  BY <1>20 DEF SaveFacts, BusyMeansAtWork
<1>21. ASSUME NEW q \in Requests, FailRun(q) PROVE BusyMeansAtWork'
  <2>1. CASE current = q
    <3>1. processing' \in {"ready", "failed"}
      BY <1>21, <2>1 DEF FailRun
    <3> QED
      BY <3>1 DEF BusyMeansAtWork
  <2>2. CASE current # q
    BY <1>21, <2>2, <1>k DEF FailRun, Pipeline, analyses
  <2> QED
    BY <2>1, <2>2
<1>22. CASE Rollback \/ UNCHANGED vars
  BY <1>22 DEF Rollback, vars, analyses, BusyMeansAtWork
<1> QED
  BY <1>1, <1>2, <1>3, <1>4, <1>5, <1>6, <1>7, <1>8, <1>9, <1>10, <1>11, <1>12, <1>13,
     <1>14, <1>15, <1>16, <1>17, <1>18, <1>19, <1>20, <1>21, <1>22
     DEF Next, AddDocument, Analyze, CreateContractFails, InsertRowFails, MarkParsingFails,
         StoreFails, CreateRunFails, SaveFactsFails, Crash

\* As long as no process dies and MySQL answers, a contract that is shown as
\* busy is being worked on, however many uploads and analyses overlap.
THEOREM BusyIsTrue ==
    ASSUME "crash" \notin Faults, "db" \notin Faults
    PROVE  Spec => []BusyMeansAtWork
<1>1. Init => TypeOK /\ BusyMeansAtWork
  BY RequestsAssumption, BoundAssumption
     DEF Init, Runs!Init, TypeOK, Requests, BusyMeansAtWork
<1>2. TypeOK /\ BusyMeansAtWork /\ [Next]_vars => (TypeOK /\ BusyMeansAtWork)'
  BY TypeInvariant, BusyInductive
<1> QED
  BY <1>1, <1>2, PTL DEF Spec
=============================================================================
