# Contract intelligence: a verification project

TLA+ specifications of this repository's own logic, TLC configurations that
check them on small instances, and TLAPS proofs of the results that matter most.
The source is the reference: every action is translated from a function of
`src/qa_core`, `src/scripts` or `src/static`, and `PROJECT.json` names the lines
of each definition.

## 1. The system

The service stores contracts, analyses them with a language model, and follows
the obligations and risks it has found; beside that it answers questions from a
versioned knowledge base, in a chat and on the contract page. FastAPI handlers run
in threads, in one process or in several; what they share is MySQL, Milvus, Redis
and the disk. There is no queue and no worker: an upload is parsed, indexed and
analysed inside its request. Knowledge bases, intent models, regression sets and
OCR candidates are made by command-line scripts that hand each other files.

| Component | State it keeps | Operations | What makes it correct |
|---|---|---|---|
| Contract analysis (`contracts/analysis.py`, `store.py`) | `contract_analyses`, `contracts.processing_status` and facts | start, save facts, save result, fail, take over a stale run | one analysis at a time; late writers change nothing; readers see the analysis published last; the status tells the truth |
| Contract documents (`contracts/service.py`) | `contract_documents`, the file, chunks in Milvus, `kb_chunk_versions` | upload, supplement, compensate | a success is part of the analysis shown; a failure leaves nothing searchable; a busy status has somebody at work |
| Contract fulfilment (`service.py`, `obligations.py`, `risk.py`, `time_rules.py`) | `contract_events`, `contract_obligations`, `contract_risks`, `overall_risk_level` | report or change an event, move an obligation, decide a risk, recalculate | closed obligations stay closed; decisions survive; a recalculation leaves events, dates, risks and levels consistent |
| Risks of an analysis (`risk.py`, `semantic_risk.py`, `evidence.py`) | none | check evidence, merge, set levels | merging loses no severity; the model alone is not believed without evidence |
| Structured model tasks (`structured_tasks.py`) | telemetry shared by threads | invoke with one retry | bounded attempts, only retryable categories; what is accepted is unambiguous |
| Knowledge base versions (`governance/kb_versions.py`) | `kb_versions`, `kb_active_versions`, `kb_version_activations`, cache epoch | ensure, record statistics, activate or roll back, archive | one active version, the one the pointer shows; never archived; stable, unique sequence numbers; a gapless log |
| Ingestion (`indexing/`, `governance/chunk_versions.py`, `rebuild_kb_version.py`) | chunks with validity windows in Milvus, their copy in MySQL, the manifest | build incrementally, fully or again, clean up | a version shows each file once, as it was; builds change no older view |
| Retrieval and cache (`retrieval/factory.py`, `cache/`, `pipeline/retrieval_steps.py`) | epoch (MySQL, L1), Redis results, connections, warm-up | search, cache, invalidate, warm up | no result of an older version is served for long; no search of a collection that is gone |
| Answers (`pipeline/`, `api/chat.py`, `memory/history.py`) | the stream of one answer, messages, summary | route, retrieve, generate, grade, save, summarise, clear | one end; what is saved is what was streamed and graded; a summary is of older turns |
| Routing and grading (`intent/`, `retrieval/strategy.py`, `pipeline/context.py`, `citations.py`, `confidence.py`) | none | classify, plan, assemble, cite, grade | a FAQ answer is earned; a follow-up is rewritten; a high grade is supported |
| Releases (`rebuild_scenarios.py`, `enterprise_overlay/`) | reports with fingerprints | plan, run, skip, roll back | only gated versions are active; a skip is justified |
| Quality cycle (`quality/run_v1_quality_cycle.py`) | lock file, reports at fixed paths | start, run steps | no overlap; an ok cycle judged its own reports |
| Regression loop (`evaluate_core_chain.py`, `quality/check_evaluation_gate.py`, ...) | regression set, reports, drafts | evaluate, gate, draft, review, promote | no failing scenario is averaged away; promotions weaken nothing |
| Follow-up and performance gates (`quality/evaluate_followup_chain.py`, `check_followup_gate.py`, `collect_performance_baseline.py`, `check_performance_gate.py`) | sessions of the conversations replayed, reports | replay, measure, gate | a report that passes is about turns that had their history, and cases none of which failed or was slow |
| Benchmark (`evaluation/`) | none | match, score, gate | matching is stable; nothing passes vacuously |
| Thresholds (`intent/calibrate_thresholds.py`, `quality/recommend_runtime_params.py`) | the policy, reports of several ages | calibrate, recommend, apply | advice is feasible; applying it again and again settles |
| Intent model (`intent/train_intent_bert.py`, `intent/governance.py`) | files of a model, its report, the loaded model | train, load, report | what is served is complete; what is reported is held out |
| Material (`quality/`, `indexing/document_loaders.py`) | report | scan, compare, gate | every file accounted for; limits do not hide problems |
| OCR (`ocr/`) | candidates, material | recognise, review, promote | what is promoted was reviewed; nothing is replaced unasked |
| Page (`static/js/contracts.js`) | selection, detail, session, socket | select, write, ask | decisions and sessions belong to the contract they were made on |
| GraphRAG (`graphrag/`) | relation index | build, query | evidence from its source; counts of texts; complete answers |

How they interact. `ContractService` calls `ContractAnalysisService.analyze`,
which calls the model services and, for its state, `ContractStore`; every method
of the store is one transaction (two for `save_analysis_result` and
`replace_rule_risks`). Documents and analyses share
`contracts.processing_status`; an analysis reads a contract's chunks from Milvus
through the validity window of the active knowledge base version. Fulfilment
starts from the rows a published analysis has left. A release builds a version
(ingestion), gates it, and activates it, which advances the epoch under which
retrieval caches. The page and the chat are clients of the handlers. The quality
cycle runs the scripts of the regression loop and of the thresholds.

What is hard. Requests interleave between transactions, and some read, compute
and write without a lock. A run may be declared stale while its thread lives. No
transaction spans two stores, so failures are compensated by hand. Processes die
between any two steps, scripts between any two files. Answers arrive at a page
that shows something else by then. All of it is listed under `hazards` in
`PROJECT.json`, at the line where it bites.

## 2. Modules

| Module | Models | Extends / uses |
|---|---|---|
| `AnalysisLedger` | the abstract promise of the analyses: current, latest, retired runs | |
| `AnalysisRuns` | one contract's analysis runs, transaction by transaction | implements `AnalysisLedger` |
| `ContractDocuments` | documents through disk, MySQL and Milvus, and the analyses that read them | composes with `AnalysisLedger` |
| `ContractFulfilment` | events, obligations, risk decisions, recalculation | |
| `RiskMerging` | evidence, merging and levels of the risks of an analysis | `RuleValues` |
| `TimeRules` | the due date of an obligation: text, rule, calendar | `RuleValues` |
| `ModelTasks` | structured model calls of several threads | `RuleValues` |
| `KbVersions` | a scenario's version table, pointer and log | |
| `KbIngest` | builds of versions, write by write | |
| `KbRelease` | release scripts, their reports and gates | |
| `RetrievalServing` | cached searches during switches and rebuilds | |
| `ChatSession` | one session: streamed answers, history, summary | |
| `RoutingPolicy` | route and retrieval plan of one question | `RuleValues` |
| `AnswerGrading` | context, citations and grade of one answer | `RuleValues` |
| `ThresholdTuning` | calibration and recommendation of thresholds | `RoutingPolicy` |
| `BenchmarkScoring` | matching, rates and gate of the contract benchmark | `RuleValues` |
| `RegressionLoop`, `FollowupGate`, `PerformanceGate`, `QualityCycle`, `IngestionQuality`, `OcrReview`, `IntentModel`, `RelationGraph`, `ContractPage` | the component of the name | `RuleValues` |
| `QualityGates` | what the three gates on material, conversations and times promise together | `IngestionQuality`, `FollowupGate`, `PerformanceGate` |
| `RuleValues` | `None`, sums and filters of sequences as recursive functions (`SumOf`, `Keeping`) | |
| `AnalysisRunsProofs`, `ContractDocumentsProofs`, `ContractFulfilmentProofs`, `KbIngestProofs`, `RetrievalServingProofs`, `ChatSessionProofs` | theorems about the module of the name | TLAPS |
| `OperationsProofs` | theorems about `KbVersions`, `KbRelease`, `QualityCycle`, `ContractPage`, `OcrReview`, `IntentModel`, `QualityGates` | TLAPS |
| `RulesProofs` | theorems about `ModelTasks`, `RiskMerging`, `RoutingPolicy`, `AnswerGrading`, `BenchmarkScoring`, `ThresholdTuning`, `TimeRules`, `RegressionLoop` | TLAPS |
| `MCRules`, `MCOperations` | put independent components side by side for one run | their components |
| `MC...` | symmetry sets and constant functions for TLC | the module of the name |

Common conventions. A request is a program counter (`pc`, or `at` in its record)
and the local variables of the Python function that outlive a transaction. One
action is one transaction, or one call of another store, with everything it
changes; the steps in memory between two of them belong to the action after which
they happen. A transaction that MySQL refuses has changed nothing. A process that
dies (`Crash`, `Killed`, ...) loses its locals only. The kinds of failure an
instance admits are the constant `Faults` (in `KbIngest`, `Practices`). All
processes read one clock, which does not go back. A history variable records what
a property needs to know of the past and influences nothing. A definition that no
action uses and whose name names a mistake (`StaleRunsLeft`, `MergeLater`, ...) is
a plausible bug of the definition after it; it shows that a property can fail.

### AnalysisRuns

`status`, `started`, `finished`, `extraction`, `error` are the columns of
`contract_analyses`; `processing` and `facts` are `processing_status` and the
origin of name and risk level in `contracts`. `Submit` takes the timestamp that
`create_analysis_run` takes before it waits for the row lock, `CreateRun` and
`RejectRun` are its two outcomes under the lock, with the recovery of stale runs.
`SaveExtraction`, `Derive`, `Persist`, `UpdateFacts` follow `analyze`; the model's
answers are reduced to success, degradation of an optional stage (`warned`) or
failure of a stage. `FailAnalysis` is `fail_analysis`. `published` is a history
variable: the run whose result was committed last.

`AnalysisLedger` says what remains when stamps, stages, takeovers and late writes
are forgotten: runs begin one at a time, and only the current one is published or
abandoned. `AnalysisRuns` implements it under the mapping in its last section.

### ContractDocuments

One request adds one document, or analyses. `WriteFile` to `MarkParsed` follow
`_add_document` and its callers, each with its failure (`...Fails`), then
`Compensate`, `MarkFailed`, `GiveUp` follow the except clauses. The analysis part
does not repeat `AnalysisRuns`; it uses the actions of `AnalysisLedger`, which
`AnalysisRuns` has been shown to implement, and adds what the ledger leaves out:
what a run has retrieved (`basis`) and the contract's status. A takeover of a run
that has become stale is the fault "stale". The several retrievals of a run are
one, the first. `undeleted` is a history variable: compensations that failed.

### ContractFulfilment and RiskMerging

`obligations`, `risks`, `events`, `overall` are the tables; dates are day numbers
and every time rule is "`Offset` days after the base event" (the calendar is in `TimeRules`). `Begin...` are the
checks of the service, which read; `AddEvent`, `ChangeEvent`, `SetStatus`,
`DecideRisk` the writes; `ReadObligations` to `SaveLevels` the reads and
transactions of `recalculate_contract_obligations` and `replace_rule_risks`, in
their order. `fresh` marks a risk row written by the analysis itself, whose
fingerprint has another form than those of recalculations. `SharedKey` are the
obligations whose upcoming and overdue risks have the same normalized key.
`alone` is a history variable: nobody else has written since the request read.

`RiskMerging` looks inside the stage of an analysis that the other two take as one
step: risks of rules and of the model arrive one by one, the model's with what
they cite, and are merged by fingerprint in that order.

### KbVersions, KbIngest, KbRelease

`KbVersions`: writers read a whole record and put it back later; `copy` is the
record an operator holds. `Ensure` is the transaction of `ensure_version`, which
does not look again; `Activate` that of `activate_version` (deactivate the others,
write the copy back, move the pointer, log, advance the epoch); `BeginArchive`,
`ReadForArchive`, `Archive` the three transactions of `archive_version`.

`KbIngest`: a version is its sequence number. `vectors` and `index` give each chunk
its window in Milvus and in MySQL, `manifest` is the manifest of each version,
`faq` the rows of each. A build goes through the FAQ, then file by file through
skip, reference, or expire - delete - add - register - record, then through the
files that are missing; it may die between any two writes and be run again.
`built` is a history variable: the material each version was built from. `orderly`
says that nobody has left the line: a full build that leaves the old chunks valid,
a build on a version that is not the newest, an edit of the material during a
release. `ViewsAreExact` is about orderly behaviours, `BuildKeepsOlderViews` about
all.

`KbRelease`: overlay data, activation runs with their fingerprint report, batch
and single rebuilds, gates and rollbacks; a build is one outcome here. `disturbed`
are the scenarios to which something has happened that the report cannot know of.

### RetrievalServing

`epoch` is the namespace row, each process has its `l1` copy, `redis` maps a
version and an epoch to the generation of the content a result was computed from,
`through` is the incarnation of the Milvus collection a connection points to. A
request reads the active version, compares it with the one its process knows,
builds a key, looks, searches, and stores; every one of these is a step. `floor`
(the content of a version when an epoch began) and `due` are history.

### ChatSession

`conn` is the connection with its stage, `out` what has been sent. The steps are
those of `rag.py`: resolve, recall, rewrite, retrieve, generate token by token, cite,
grade, save, end; `Fails` is the except clause, `Leave` a client that goes away.
`history` and `summary` are the tables; a refresh reads the messages and the
summary in two transactions, calls the model and saves. `clear` deletes messages
and summary in two.

### Rules

`RoutingPolicy` and `AnswerGrading` follow one question through decisions that the
code makes on scores; regular expressions and word lists are choices of what they
find, made once. Scores are integers in hundredths, the rates of the
benchmark in millionths, as the code rounds them, and every rounding that a property
can tell is there. `ModelTasks` has several callers on one
telemetry. `TimeRules` follows one obligation from its words to its due date over the
Gregorian calendar, recalculated when its event is reported or corrected.
`BenchmarkScoring` scores question after question. `ThresholdTuning` extends `RoutingPolicy` for the policy and applies advice to it until nothing more
is advised. Each component starts from one of several initial states, in all of
which the others rest: the run is a sum of the components, not their product.

### Operations

`QualityCycle`: `Look`, `Age`, `Unlink`, `Create` are the four system calls of
`__enter__`. `RegressionLoop`: sets of cases with what they expect; what the service
answers is chosen from `Observations`. `FollowupGate`: conversations replayed in
sessions whose history the service fills; a session named by the dataset is entered
again by the next replay. `PerformanceGate`: what the cases of a dataset show, up to
21 of them so that the percentile has something to leave out. `IngestionQuality`: files as what loaders find
in them, FAQ rows, the report and the gate; the pages are those of `PageTexts`. `OcrReview`: scans, candidates, the
directory of promoted texts; the promotion reads, judges and copies in separate
steps. `IntentModel`: datasets, the files of a model in the order they are written,
the loaded model and the report. `RelationGraph`: texts merged into entities and
relations, the index, questions; a stable sort of the relations, which the store keeps in
the order of their first text, is written as one order that ends with text and sentence.
`ContractPage`: `calls` are the requests under way,
each with the contract it is about; their answers come in any order and write into
`page`. `MCOperations` puts them beside `KbVersions` and `KbRelease` as `MCRules`
does with the rules and with `RegressionLoop`.

## 3. Runs

| Run | Instance | Checks | Result |
|---|---|---|---|
| `AnalysisRunsSafety` | 2 requests, 3 runs, clock 0..2, stages, refused transactions, crashes | `TypeOK`, `AtMostOneRunning`, `ReadersSeeLastPublished`, `ContractStatusTruthful`, `EndedRunsAreFrozen`, `LateFailureKeepsStatus`, `ImplementsLedger` | hold |
| `AnalysisRunsLiveness` | 2 requests, 2 runs, failing and degraded stages | `EveryRunEnds`, `AnalyzingEnds` | hold under `FairSpec` |
| `DocumentsFaults` | upload, supplement, re-analysis, every failure but a rollback | `SuccessIsAnalysed`, `FailedLeavesNothing` | hold |
| `DocumentsBusy` | upload, supplement, re-analysis, no crash, MySQL answers | `BusyMeansAtWork` | holds |
| `FulfilmentSolo` | one request at a time, 2 obligations, 3 days, crashes | `ClosedObligationsAreFinal`, `RecalculatedDecisionsSurvive` | hold |
| `FulfilmentRepair` | 2 requests interleaved, crashes | `SoloRecalculationRepairs` | holds |
| `KbIngest` | 1 file with 3 contents, 1 question, 3 versions, all modes and practices | `ViewsAreExact`, `NewestViewIsIndexed`, `BuildKeepsOlderViews` | hold |
| `Serving` | 1 process, 2 requests, 2 versions, 3 epochs, crash and Redis failures | `CachedIsOfItsEpoch`, `StaleOnlyThroughL1`, `SearchesLiveCollection` | hold |
| `Answering` | 3 turns, 2 tokens, errors, disconnection, clearing, failing model | `AnswersAreFaithful`, `SummaryIsOfOlderTurns` | hold |
| `Rules` | seven rule components, defaults of `config/rules.toml` and settings, and the regression loop | `QuestionsAreRoutedSafely`, `GradesAreEarned`, `CallsAreAccounted`, `MergingIsCautious`, `ScoresAreFair`, `DueDatesAreExact`, `TuningIsSafe`, `RegressionIsCaught` | hold |
| `Operations` | ten operational components | `VersionsAgree`, `SeqIsStable`, `ReleasesAreGated`, `CyclesKeepApart`, `GatesJudgeTheWhole`, `PromotionIsReviewed`, `PageActsOnItsContract`, `ModelIsAccounted`, `GraphIsTrueToTexts` | hold |
| `CycleOverlap` | 3 cycles, one of them dead | `OnlyStaleLocksAreRemoved` | violated |

In the runs that put several components side by side each component has one property
(three gates share one),
the conjunction of its type invariant and of the properties that are about it:

| Property | Parts |
|---|---|
| `QuestionsAreRoutedSafely` | a fuzzy FAQ answer meets the stricter thresholds (`FuzzyFaqIsEarned`); a follow-up, and nothing else, is rewritten from a history (`FollowUpIsRewritten`); a lower decision score never loosens the plan (`DoubtOnlyTightens`); the search gathers what the prompt needs (`GathersEnough`) |
| `GradesAreEarned` | the context fits the prompt (`ContextFits`); high confidence needs cited and overlapping claims (`HighIsMostlySupported`); references appended afterwards earn nothing (`ReferencesEarnNothing`) |
| `CallsAreAccounted` | the telemetry adds up (`CallsAddUp`); an ambiguous or misfitting call is not accepted (`AcceptedIsUnambiguous`) |
| `MergingIsCautious` | `NothingIsDowngraded`, `ModelAloneNeedsEvidence`, `LevelsShowTheWorst` |
| `ScoresAreFair` | `MatchingIsStable`, `CountsAddUp`, `NoVacuousPass`, `PassIsClean` |
| `DueDatesAreExact` | offsets in days, workdays, months and years agree with counting (`OffsetsAreExact`); a later event is not due earlier (`LaterEventsAreDueLater`); nothing waits in vain (`WaitsForSomething`) |
| `TuningIsSafe` | the policy check finds what the calibration promised (`PromiseIsKept`); tuning settles (`TuningSettles`); only feasible thresholds are put in force (`AdviceIsFeasible`, of steps) |
| `VersionsAgree` | `LogLeadsToPointer`, `OnlyThePointerIsActive`, `EffectiveIsNotArchived`, `SeqsAreUnique` |
| `ReleasesAreGated` | `ActiveWasGated`, `OnlyTheLastFails`, `SkipIsJustified` |
| `CyclesKeepApart` | `TogetherOnlyAfterStale`, `OkMeansOwnReports` |
| `RegressionIsCaught` | no scenario and no source is averaged away (`NoGroupIsMasked`); `CleanRunPasses`, `PromotionNeverWeakens` (of steps) |
| `GatesJudgeTheWhole` | of `IngestionQuality`: `EveryFileIsAccounted`, `PassIsAboutTheMaterial`, `StoppingHidesNothing`, `ScansNeverPass`; of `FollowupGate`: every turn of a passed report had the earlier turns as its history (`PassedTurnsHadTheirHistory`), `OpeningsHideNothing`, `FaultlessReplayPasses`; of `PerformanceGate`: `PercentileIsNearestRank`, `PassedIsFast` |
| `PromotionIsReviewed` | `WhatIsInWasReviewed`, `OkMeansAllIn`, `NothingIsReplacedUnasked` (of steps) |
| `PageActsOnItsContract` | `SessionOfContract`, `DecisionHitsWhatWasShown`, `QuestionsEnd`, `PatientUserSeesSelected` |
| `ModelIsAccounted` | `ServedIsComplete`, `ReportedIsHeldOut` |
| `GraphIsTrueToTexts` | `EvidenceIsFromItsSource`, `CountsAreOfTexts`, `AnswersAreComplete` |
| `AnswersAreFaithful` | `OneEnding`, `SavedIsWhatWasStreamed`, `EndMeansSaved`, `GradedAsProduced`, `SilenceHasNoSources` |

Each part was broken by a plausible bug of its own while it was written; the bugs are
kept beside the definitions they would change.

`CycleOverlap` is the finding: two starters judge the lock of a dead cycle too old;
the first removes and creates it, the second then removes the fresh lock and creates
its own, and both run, which the comment beside the code rules out.

Other disagreements between the code and its comments or tests that TLC has shown
on variations of these instances (the definitions are in the modules, marked as
refuted):

* `FactsOfLatestAnalysis` (`AnalysisRuns`, no failure): `save_analysis_result` commits
  the result, then updates the contract in a second transaction without a condition.
  Delayed between the two, an analysis overwrites name and risk level of a newer one.
* `ClosedObligationsAreFinal` with two requests: a recalculation writes back statuses
  it read before another request completed the obligation.
* `RiskDecisionsSurvive`: the analysis stores risk fingerprints with business ids, the
  recalculation looks for versioned row ids, so the first recalculation reopens every
  decided risk. From then on decisions survive.
* `LatestEventCounts`: the event a recalculation has selected is stored in the field
  that means "requested explicitly"; later events of the type never count.
* `OnlyThePointerIsActive`, `EffectiveIsNotArchived`, `SeqIsStable` and `SeqsAreUnique`
  with two operators: statistics are written with the whole record as it was before a
  switch, an activation falls between the check and the write of `archive_version`,
  and two creations of a version meet a stale write.
* `OffsetKeepsItsUnit` (`TimeRules`): `normalize_time_rule` takes the model's offset and the
  unit of the text: "30 days" of the model for the text's "1 month" becomes 30 months.
* `OneChunkPerFile` (`KbIngest`): a full build of a new version expires nothing, so the
  chunks of its predecessor stay visible beside its own until they are deleted.
* `ClearedStaysCleared` (`ChatSession`): an answer in progress, or a summary refresh,
  writes a session again after it was cleared.
* `ShownIsSelected`, `EventHitsWhatWasShown` (`ContractPage`): a slow answer replaces the
  detail of the contract selected since, and an event typed then goes to the selected
  contract, not the one shown.
* `BestComesFirst` (`RelationGraph`): the early return at `max_paths` is not sorted.

Bounds and why they are enough. The hazards of `AnalysisRuns` need a victim, a
usurper and a published predecessor: two requests, reused, and three runs give
all three, and a clock of three values with a staleness of one lets a run become
stale, be taken over and the usurper become stale too. In `ContractDocuments` a
requester is not reused, so that two documents and one analyst give an
upload and a supplement that meet each other's analysis and somebody else's;
`MaxSeq = 2` allows one rollback. In `ContractFulfilment` the obligations only
meet in `overall`, so two of them, one of each kind, suffice where levels matter
and one where interleaving does; the calendar is long enough for a due date to
be in the future, today and past. In `KbVersions` three versions are needed for
an active one, a candidate and an archived one. In `KbIngest` files do not meet in
any guard but that of the whole directory; one file that appears, changes, becomes
empty and disappears over three versions gives every window, with a version before
and one after the change. In `RetrievalServing` two requests give a slow one and one
that comes after a switch, two versions a switch and a rollback, three epochs the
result that is one epoch late. In `ChatSession` three turns give one in the summary,
one in the context and one under way. The rule components take the thresholds of the
repository and inputs on, below and above each of them. The operational components
need two of whatever can be confused (two scans of one stem, two datasets, two
scenarios, three contracts, three cycles where one has died). Every bound is a
constant in a guard or a range. No run checks deadlock: requests end, identifiers are
used up and the clock stops at its bound, so every instance legitimately comes to rest.

Symmetry is used only in runs of invariants and step properties, over sets whose
elements the module treats alike.

Fairness. `FairSpec` is weak fairness of `Work(q)` for each request: a thread that
is not killed keeps executing, and each of its calls returns or raises, for the
model client and MySQL have timeouts. Nothing is assumed of `Submit`, `Tick` or
`Crash`. The instance admits neither crashes nor refused transactions: with them
a run stays "running" until somebody asks for another analysis, which nobody has
to do.

## 4. Proofs

| Module | Theorem | Statement |
|---|---|---|
| `AnalysisRunsProofs` | `Invariance` | `Spec => []IInv` |
| | `TypeCorrect`, `MutualExclusion`, `LatestIsLast`, `StatusIsTruthful` | the four invariants of `AnalysisRunsSafety` |
| | `Frozen`, `LateFailuresAreHarmless` | its two step properties |
| | `Implementation` | `Spec => Ledger!Spec` |
| `ContractDocumentsProofs` | `TypeCorrect`, `FailureIsClean` | `Spec => []TypeOK`, `Spec => []FailedLeavesNothing` |
| | `SuccessLasts` | `"rollback" \notin Faults` implies `Spec => []SuccessIsAnalysed` |
| | `BusyIsTrue` | `"crash"`, `"db" \notin Faults` implies `Spec => []BusyMeansAtWork` |
| `ContractFulfilmentProofs` | `TypeCorrect`, `SoloRepairsEverything` | `Spec => []TypeOK`, `Spec => SoloRecalculationRepairs`, for any requests |
| | `ClosedIsFinalSerially`, `DecisionsSurviveSerially` | `OneAtATime` implies `ClosedObligationsAreFinal`, `RecalculatedDecisionsSurvive` |
| `KbIngestProofs` | `TypeCorrect`, `ViewsStayExact`, `NewestViewStaysIndexed`, `OlderViewsAreKept` | `TypeOK` and all properties of `KbIngest` |
| `RetrievalServingProofs` | `ServingIsTyped`, `CacheHoldsItsEpoch`, `OldResultsComeThroughL1`, `SearchesGoToLiveCollections` | `TypeOK` and all properties of `Serving` |
| `ChatSessionProofs` | `AnswersStayFaithful`, `SummaryStaysOfOlderTurns` | all properties of `Answering` |
| `OperationsProofs` | `Invariance`, `TypeCorrect`, `LogIsATrail` | of `KbVersions`: `IInv`, `TypeOK` and `LogLeadsToPointer` |
| | `OneVersionIsActive`, `ServedVersionIsKept`, `NumbersAreUnique`, `VersionTableAgrees`, `NumbersAreKept` | the parts of `VersionsAgree`, `VersionsAgree` itself and `SeqIsStable`, for one operator at a time |
| | `ReleaseIsTyped`, `ActiveVersionsWereGated`, `JobsStopAtFailure`, `SkippingIsSound`, `ReleasesAreSound` | the parts of `ReleasesAreGated` and `ReleasesAreGated` itself |
| | `LockExcludes`, `OkCycleUsedItsOwn`, `CyclesAreKeptApart` | `TogetherOnlyAfterStale`, `OkMeansOwnReports` and `CyclesKeepApart` |
| | `PageStaysOnItsContract`, `PromotionStaysReviewed`, `ModelStaysAccounted` | `PageActsOnItsContract`, `PromotionIsReviewed`, `ModelIsAccounted` |
| | `MaterialStaysJudged`, `FollowupsStayJudged`, `SpeedStaysJudged`, `GatesStayWhole` | the three parts of `GatesJudgeTheWhole` and `GatesJudgeTheWhole` itself |
| | `GraphStaysTrue` | `GraphIsTrueToTexts` |
| `RulesProofs` | `CallsStayAccounted`, `MergingStaysCautious` | `CallsAreAccounted`, `MergingIsCautious` |
| | `FollowUpsKeepTheirHistory` | `RoutingSpec => []FollowUpIsRewritten`, for any thresholds |
| | `QuestionsStayRoutedSafely` | `ThresholdsFit`, `SizesFit` imply `QuestionsAreRoutedSafely` |
| | `ScoresStayFair` | `ScoresAreFair`, for fewer than two million cases |
| | `TuningStaysSafe` | `TuningIsSafe` |
| | `DueDatesStayExact` | `DueDatesAreExact` |
| | `GradesStayEarned`, `RegressionStaysCaught` | `GradesAreEarned`, `RegressionIsCaught` |

They hold for every value of the constants that satisfies the ASSUMEs of the
modules: any number of requests, runs, documents, versions, processes or scenarios,
any bounds, inputs and thresholds, and any set of failures (but for the hypotheses
named in the table). The ASSUMEs say what kind of thing a constant is, that `None` is
told from the values it stands beside, and what the code itself demands (`TopRelated`
and other limits of at least one). Two hypotheses on thresholds are the exception:
nothing in the configuration loader demands `ThresholdsFit` and `SizesFit`; the values
the repository ships satisfy them, which `MCRules` assumes of its instance, so that
TLC evaluates it.

*AnalysisRuns.* None of the properties is inductive. `IInv` adds: a running row
belongs to the one request that works for it (`Ownership`), so that a request
whose `job` is running acts alone; stamps are not in the future (`StampsArePast`),
and the stamps of what is running are not before the finish of what was published
(`PublishedIsLast`, `StampsInOrder`), which is why an order by a timestamp taken
before the lock is nevertheless the order of commits; a request in "facts" has
succeeded (`FactsComeAfterSuccess`), and a contract marked failed has no success
(`FailedMeansNothing`). The implementation proof maps `CreateRun` to `Begin`,
`Persist` to `Publish`, `FailAnalysis` of a running row to `Abandon`, and
everything else to a stutter.

*ContractDocuments.* `PipelineInv` says that vectors exist only from "indexing" on
and what a row marked failed implies about the place of its request; it yields
`FailureIsClean` under all failures, a rollback included. `AnalysisInv` adds that
every document's stamp is within the active sequence (false after a rollback,
hence the assumption), that a request which analyses after adding a document has
retrieved that document (`OwnDocumentRetrieved`), and that once it is included in
an analysis, every later one includes it (`Included`, `LatestIsDone`). `BusyMeansAtWork` is
inductive with the types: a request that leaves the pipeline, or a run that leaves the
ledger, writes the status in the same step or goes on to the step that does. A crash, or
a refused transaction of the clean-up, leaves the status behind, hence the two hypotheses.

*ContractFulfilment.* Two arguments. `OneAtATimeInv`: while one request is served at a
time, a change has been checked against the row it writes (`ChangeIsChecked`), the plan
of a recalculation leaves closed obligations closed (`PlanKeepsClosed`) and carries the
decisions over (`DecisionsAreKept`); TLC refutes both conclusions for two requests.
For `SoloRepairsEverything` any number of requests may have left any mess: a request
that is alone is followed step by step, from what it has read, through what it has
planned and written, to the tables it leaves.

*KbIngest.* A chunk is seen by a version when its window contains the version's number,
so a step must be right for every version at once. `SettledInv`: a newest version that is
released shows what its manifest names. `PendingInv`, of one that is not: what its base
shows, which of those chunks have expired already, what has been written, whether the
build lives or has died and is run again. `WalkInv`, `FileInv` and `GoneInv` say how far a
live build has come: over the files, in one file, in those that are missing. All of them
suppose `orderly`; `OlderViewsAreKept` does not.

*KbVersions.* The log property needs only types and that an operator in the
middle of an operation has chosen a version. The others are false for two operators;
`OneAtATime` says there is one, and `SerialInv` that the record this operator holds
is the row as it is, or differs from it in what the next step will write.

*RetrievalServing.* `CacheInv` bounds the content a request may have seen from below
by the content at the beginning of every epoch its key may still be built from;
`StaleInv` relates what is due to the copy of the epoch in the process; `LiveInv` says
which connections a request of a version can still meet.

*ChatSession.* An answer is followed through the stages: at each of them, what has been
sent, what has been graded and what has been saved are functions of the tokens so far.
The summary is of the oldest turns without a gap; the invariant says so of the summary
saved and of the set of turns that every refresh in progress carries.

*QualityCycle.* `LockInv`: while nobody has taken a lock for stale, whoever is at work
owns the file. `OwnInv`: a cycle that is alone finds at every path it reads what one
of its own earlier steps has left, since a step that reads a report comes after one
that must have written it if all has been well.

*KbRelease.* The invariant follows what the signatures of the last report, and of
the run that will write the next, are of; `SkippingIsSound` then needs that only
`disturbed` scenarios have moved since.

*ContractPage, OcrReview, IntentModel.* `PageInv`: as long as the user has not started a
second call over the first (`overlapped`), there is one (`OneCallAtATime`), and a write
always names the contract it is about (`WritesHaveAContract`). `PromotionStaysReviewed`
needs that the copy about to be made was allowed when its candidate was judged
(`CopyIsAllowed`) and that the rows of the report are true (`RowsAreTrue`).
`TrainingInv`: the labels are written last, so where they are the rest is.

*ModelTasks, RiskMerging.* Each step adds alike to both sides of the equations of the
telemetry, and a caller waits for its second attempt exactly while one has been announced
and not made. `MergedInv`: each merged risk has the worst level reported under its
fingerprint, and evidence that the model was given if its weight comes from the model.

*RoutingPolicy.* `WhatIsKnown` says which decisions have been taken in each stage,
`AfterThePlan` relates the plan to them. *BenchmarkScoring.* Matching takes the best pair
first and is one to one; the proof found that `PassIsClean` needs a bound: from two
million cases on, one failure rounds to a rate of zero. *ThresholdTuning.* The
criteria order the thresholds of a grid totally, so there is one best, and with it in
force it stays the best; replaying the gateway on a sample computes what the gateway does.

*AnswerGrading.* The context fits because documents are taken one by one and each is cut
to what is left; that a high grade is mostly supported is arithmetic: with c of n claims
cited and S the sum of their overlaps, a high score demands 3575·c + 30·S >= 4725·n, which
needs 48 cited claims in 100 even if all overlaps are full, and an overlap of 38 in 100
even if all claims are cited. *RegressionLoop.* `LoopInv`: the cases of the
set are distinct, the rows are of the running cases in their order, and a verdict is that
of the complete rows it was given for. `Meets` over a group loses few or, over one that
meets everything, passes; a merge that does not replace leaves the known cases untouched,
one case after the other, and keeps all ids.

*IngestionQuality, FollowupGate, PerformanceGate.* `MaterialInv`: each file scanned is in
one of the four lists, and nothing has been reported so far exactly if every record
compared so far is backed, whether the comparison has stopped or not. `ReplayInv`: every
turn replayed so far is in the report, and as long as no turn has failed the history of
the session under way ends with the turns of this replay. `BaselineInv`: what is measured
are the last cases of the dataset; a value of the rank asked for exists (there are at
least that many values, and only finitely many are smaller), so the percentile is one.

*RelationGraph.* `GraphInv`: the relations known are shown by the text that each names, the
names known are exactly those mentioned by the texts passed (`CountedIn`), the index is a
sequence of relations. Merging counts a name once because the extractor finds none twice;
texts beyond the limit of files count for nothing because the paths passed never become
fewer. Two relations with equal sort keys are one, since the sentence that shows them gives
the kind; so every rank is taken (`RanksAreTaken`), and sorting, of relations and of paths,
loses none.

*TimeRules.* `DatesInv` says that the rule is a normalised one and the due date its
resolution on the event that counts; the rest is about the calendar: every day number has
one date, dates are in the order of their day numbers, months number consecutively, and
counting workdays one by one counts all of them.

Induction over data is needed for several of these: a function over `0..n` defined by its
predecessor, or a count that grows step by step. It is done by the least counterexample:
`WFMin` and `NatLessThanWellFounded` give every set of numbers its least member
(`LeastNumber`), from which follow `UpTo` (a set with 0 that is closed under successor up
to `n` contains `0..n`) and `StepsExist` (there is a function that computes each value
from the one before). Modules with a theorem use recursive functions over indexes and no
RECURSIVE operators.

Writing the proofs has changed the models in small ways: two CASEs had arms that overlap
(`AddTimeOffset`, `RiskKind`), which TLC does not notice and which leave the choice open;
they are disjoint now.

Every invariant and action property of the passing runs is stated by a theorem. Only
model-checked: liveness (`EveryRunEnds`, `AnalyzingEnds`; fairness and ENABLED are beyond
the prover).

## 5. Not modelled

Text and numbers of models: parsing, chunking, prompts, model answers, vector search
and ranking, word lists, tokenization, formatting, paging; where code decides on
them, their outcomes are the models' choices. Extraction and summary of an analysis
are outcomes in `AnalysisRuns`. The data-scope filters, configuration, scenario registry, observability,
schema migration, error handlers. `update_contract_status` sets an independent
column. Scripts that only look (guardrails, local runtime checks,
smoke tests, RAGAS evaluation, comparisons of versions) keep no state.
`scripts/check_evaluation_gate.py`, `calibrate_thresholds.py`, `run_v1_quality_cycle.py`
and others directly in `scripts/` are older copies of those in subdirectories, which
are modelled. A run that stale recovery has failed names no stage, so that the API
shows all its stages as succeeded; the display is not modelled. `ContractFulfilment`
describes the life of one analysis and is not composed with a re-analysis.
