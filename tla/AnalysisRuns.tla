---------------------------- MODULE AnalysisRuns ----------------------------
(***************************************************************************)
(* Analysis runs of one contract.                                          *)
(*                                                                         *)
(* ContractAnalysisService.analyze (contracts/analysis.py) is executed by  *)
(* several request threads at once, in one process or in several.  It      *)
(* talks to MySQL through ContractStore (contracts/store.py), one          *)
(* transaction per call: create_analysis_run, save_analysis_extraction,    *)
(* save_analysis_result, update_contract_facts, fail_analysis.  Every      *)
(* transaction is one action here; the request may be delayed for as long  *)
(* as the environment likes, or die, between two of them.                  *)
(*                                                                         *)
(* Contracts are independent (the row lock is per contract), so the module *)
(* describes a single one.                                                 *)
(***************************************************************************)
EXTENDS Naturals

CONSTANTS
    Requests,    \* request threads that call analyze
    Runs,        \* analysis run ids (uuid4, so each is used once)
    NoRun,       \* "no run": None
    StaleAfter,  \* contract_analysis_stale_seconds, in clock units
    MaxNow,      \* bound on the clock
    Faults       \* the kinds of failure this instance admits

ASSUME NoRunAssumption  == NoRun \notin Runs
ASSUME ClockAssumption  == StaleAfter \in Nat \ {0} /\ MaxNow \in Nat
ASSUME FaultsAssumption == Faults \subseteq {"stage", "degrade", "db", "crash"}

VARIABLES
    now,         \* utc_now(), shared by all processes
    status,      \* contract_analyses.status, "absent" before the INSERT
    started,     \* contract_analyses.started_at
    finished,    \* contract_analyses.finished_at
    extraction,  \* has extraction_json been written?
    error,       \* contract_analyses.error_summary, as the set of stages it names
    processing,  \* contracts.processing_status
    facts,       \* the run contracts.overall_risk_level/contract_name come from
    pc,          \* where each request is inside analyze
    job,         \* the run a request works for: run_id
    stage,       \* the local variable of that name in analyze
    stamp,       \* the local variable "now" of the store call in progress
    warned,      \* the local variable stage_errors
    published    \* history: the run whose result was committed last

rows    == <<status, started, finished, extraction, error>>
locals  == <<pc, job, stage, stamp, warned>>
vars    == <<now, rows, processing, facts, locals, published>>

OptionalStages == {"semantic_risk", "summary"}
Stages == {"extraction", "obligations", "deterministic_risk", "persistence"}
              \union OptionalStages
RunStatus        == {"absent", "running", "succeeded", "failed"}
Terminal         == {"succeeded", "failed"}
ProcessingStatus == {"uploaded", "parsing", "parsed", "analyzing", "ready", "failed"}
Time             == 0 .. MaxNow

WithStatus(s) == {r \in Runs : status[r] = s}
Running       == WithStatus("running")
Succeeded     == WithStatus("succeeded")

\* is_stale in create_analysis_run: started_at <= now - stale_seconds.
IsStale(r) == started[r] + StaleAfter <= now

\* Mutant: stale runs are stepped over and never failed.
StaleRunsLeft == {}
StaleRuns == {r \in Running : IsStale(r)}

\* Mutant: a run in progress does not keep another one out.
NeverOccupied == FALSE
\* active_running: some run may still be alive.
Occupied == \E r \in Running : ~IsStale(r)

\* Mutant: the UPDATEs go by the id alone.
ById(q) == TRUE
\* "AND status='running'" in the UPDATEs of an analysis row: the run has not
\* been taken away from the request.
StillRunning(q) == status[job[q]] = "running"

\* Mutants: the row's vocabulary is used for the contract; an earlier success
\* is not looked up; the contract is not updated.
RowStatusAfterFailure(r)    == IF Succeeded # {} THEN "succeeded" ELSE "failed"
FailedAfterFailure(r)       == "failed"
SameStatusAfterFailure(r)   == processing
\* processing_status as fail_analysis recomputes it when run r has failed.
StatusAfterFailure(r) ==
    IF Running \ {r} # {} THEN "analyzing"
    ELSE IF Succeeded # {} THEN "ready" ELSE "failed"

\* ORDER BY finished_at DESC LIMIT 1 over the succeeded runs; a set because
\* equal timestamps leave the choice to MySQL.
LatestAnalysis ==
    {r \in Succeeded : \A s \in Succeeded : finished[s] <= finished[r]}

-----------------------------------------------------------------------------
\* The contract has been uploaded and parsed, and nobody has analysed it.
Init ==
    /\ now = 0
    /\ status     = [r \in Runs |-> "absent"]
    /\ started    = [r \in Runs |-> 0]
    /\ finished   = [r \in Runs |-> 0]
    /\ extraction = [r \in Runs |-> FALSE]
    /\ error      = [r \in Runs |-> {}]
    /\ processing = "parsed"
    /\ facts      = NoRun
    /\ pc     = [q \in Requests |-> "idle"]
    /\ job    = [q \in Requests |-> NoRun]
    /\ stage  = [q \in Requests |-> "extraction"]
    /\ stamp  = [q \in Requests |-> 0]
    /\ warned = [q \in Requests |-> {}]
    /\ published = NoRun

Tick ==
    /\ now < MaxNow
    /\ now' = now + 1
    /\ UNCHANGED <<rows, processing, facts, locals, published>>

Goto(q, from, to) ==
    /\ pc[q] = from
    /\ pc' = [pc EXCEPT ![q] = to]

\* analyze is entered; create_analysis_run takes its timestamp before it has
\* the contract's row lock.
Submit(q) ==
    /\ Goto(q, "idle", "creating")
    /\ stamp' = [stamp EXCEPT ![q] = now]
    /\ UNCHANGED <<now, rows, processing, facts, job, stage, warned, published>>

\* The request is over: its locals are gone.
Leave(q) ==
    /\ pc'     = [pc EXCEPT ![q] = "idle"]
    /\ job'    = [job EXCEPT ![q] = NoRun]
    /\ stage'  = [stage EXCEPT ![q] = "extraction"]
    /\ stamp'  = [stamp EXCEPT ![q] = 0]
    /\ warned' = [warned EXCEPT ![q] = {}]

\* create_analysis_run commits: stale runs are failed, the new one is inserted
\* and the contract is marked, all under the contract's row lock.
CreateRun(q) ==
    /\ pc[q] = "creating"
    /\ ~Occupied
    /\ \E r \in WithStatus("absent") :
         /\ status'   = [s \in Runs |-> IF s = r THEN "running"
                                        ELSE IF s \in StaleRuns THEN "failed"
                                        ELSE status[s]]
         /\ finished' = [s \in Runs |-> IF s \in StaleRuns THEN stamp[q] ELSE finished[s]]
         /\ error'    = [s \in Runs |-> IF s \in StaleRuns THEN {"stale_recovery"}
                                        ELSE error[s]]
         /\ started'  = [started EXCEPT ![r] = stamp[q]]
         /\ job'      = [job EXCEPT ![q] = r]
    /\ processing' = "analyzing"
    /\ pc'    = [pc EXCEPT ![q] = "extraction"]
    /\ UNCHANGED <<now, extraction, facts, stage, stamp, warned, published>>

\* A live run exists: ContractConflictError.  The transaction rolls back, the
\* stale runs it had failed included, and analyze has not entered its try yet.
RejectRun(q) ==
    /\ pc[q] = "creating"
    /\ Occupied
    /\ Leave(q)
    /\ UNCHANGED <<now, rows, processing, facts, published>>

\* MySQL refuses the transaction (lost connection, lock timeout, deadlock).
CreateFails(q) ==
    /\ "db" \in Faults
    /\ pc[q] = "creating"
    /\ Leave(q)
    /\ UNCHANGED <<now, rows, processing, facts, published>>

-----------------------------------------------------------------------------
\* Facts extracted and saved; the UPDATE is conditional on a running row.
SaveExtraction(q) ==
    /\ Goto(q, "extraction", "deriving")
    /\ extraction' = [extraction EXCEPT
                        ![job[q]] = @ \/ StillRunning(q)]
    /\ stage' = [stage EXCEPT ![q] = "obligations"]
    /\ UNCHANGED <<now, status, started, finished, error, processing, facts,
                   job, stamp, warned, published>>

\* Obligations, rule risks, semantic risks and summary computed, the last two
\* replaced by nothing when they fail; save_analysis_result takes its timestamp.
Derive(q) ==
    /\ Goto(q, "deriving", "persisting")
    /\ \E ws \in SUBSET OptionalStages :
         /\ ws = {} \/ "degrade" \in Faults
         /\ warned' = [warned EXCEPT ![q] = ws]
    /\ stage' = [stage EXCEPT ![q] = "persistence"]
    /\ stamp' = [stamp EXCEPT ![q] = now]
    /\ UNCHANGED <<now, rows, processing, facts, job, published>>

\* Mutant: the exception is not recorded on the run.
StageFailsSilently(q) ==
    /\ "stage" \in Faults
    /\ pc[q] \in {"extraction", "deriving"}
    /\ Leave(q)
    /\ UNCHANGED <<now, rows, processing, facts, published>>

\* A required stage raises: the model, the retriever, validation or a merge.
\* Only the calls of the optional stages themselves are guarded.
StageFails(q) ==
    /\ "stage" \in Faults
    /\ \/ /\ Goto(q, "extraction", "failing")
          /\ UNCHANGED stage
       \/ /\ Goto(q, "deriving", "failing")
          /\ \E s \in {"obligations", "deterministic_risk", "semantic_risk"} :
               stage' = [stage EXCEPT ![q] = s]
    /\ UNCHANGED <<now, rows, processing, facts, job, stamp, warned, published>>

\* The transaction of save_analysis_result: run row, obligations and risks.
Persist(q) ==
    /\ Goto(q, "persisting", "facts")
    /\ StillRunning(q)
    /\ status'    = [status EXCEPT ![job[q]] = "succeeded"]
    /\ finished'  = [finished EXCEPT ![job[q]] = stamp[q]]
    /\ extraction' = [extraction EXCEPT ![job[q]] = TRUE]
    /\ error'     = [error EXCEPT ![job[q]] = warned[q]]
    /\ published' = job[q]
    /\ UNCHANGED <<now, started, processing, facts, job, stage, stamp, warned>>

\* rowcount is not 1 (the run was taken over), or MySQL refuses: rolled back.
PersistFails(q) ==
    /\ Goto(q, "persisting", "failing")
    /\ ~StillRunning(q) \/ "db" \in Faults
    /\ UNCHANGED <<now, rows, processing, facts, job, stage, stamp, warned, published>>

\* update_contract_facts, the second transaction of save_analysis_result: it
\* asks nothing about the runs.
UpdateFacts(q) ==
    /\ pc[q] = "facts"
    /\ processing' = "ready"
    /\ facts' = job[q]
    /\ Leave(q)
    /\ UNCHANGED <<now, rows, published>>

UpdateFactsFails(q) ==
    /\ "db" \in Faults
    /\ Goto(q, "facts", "failing")
    /\ UNCHANGED <<now, rows, processing, facts, job, stage, stamp, warned, published>>

\* Mutant: the contract is marked whether or not the run was still running,
\* by its history of successes alone.
FailAnalysisBlindly(q) ==
    /\ pc[q] = "failing"
    /\ IF StillRunning(q)
       THEN /\ status'   = [status EXCEPT ![job[q]] = "failed"]
            /\ finished' = [finished EXCEPT ![job[q]] = now]
            /\ error'    = [error EXCEPT ![job[q]] = {stage[q]}]
       ELSE UNCHANGED <<status, finished, error>>
    /\ processing' = IF Succeeded # {} THEN "ready" ELSE "failed"
    /\ Leave(q)
    /\ UNCHANGED <<now, started, extraction, facts, published>>

\* fail_analysis, from the except clause of analyze.
FailAnalysis(q) ==
    /\ pc[q] = "failing"
    /\ IF StillRunning(q)
       THEN /\ status'   = [status EXCEPT ![job[q]] = "failed"]
            /\ finished' = [finished EXCEPT ![job[q]] = now]
            /\ error'    = [error EXCEPT ![job[q]] = {stage[q]}]
            /\ processing' = StatusAfterFailure(job[q])
       ELSE UNCHANGED <<status, finished, error, processing>>
    /\ Leave(q)
    /\ UNCHANGED <<now, started, extraction, facts, published>>

\* The failure cannot be recorded: the run is left running.
FailAnalysisFails(q) ==
    /\ "db" \in Faults
    /\ pc[q] = "failing"
    /\ Leave(q)
    /\ UNCHANGED <<now, rows, processing, facts, published>>

\* The process dies.  Its transactions have committed or are rolled back.
Crash(q) ==
    /\ "crash" \in Faults
    /\ pc[q] # "idle"
    /\ Leave(q)
    /\ UNCHANGED <<now, rows, processing, facts, published>>

-----------------------------------------------------------------------------
\* What the request does by itself once it has been submitted.
Work(q) ==
    \/ CreateRun(q)      \/ RejectRun(q)        \/ CreateFails(q)
    \/ SaveExtraction(q) \/ Derive(q)           \/ StageFails(q)
    \/ Persist(q)        \/ PersistFails(q)
    \/ UpdateFacts(q)    \/ UpdateFactsFails(q)
    \/ FailAnalysis(q)   \/ FailAnalysisFails(q)

Next ==
    \/ Tick
    \/ \E q \in Requests : Submit(q) \/ Work(q) \/ Crash(q)

Spec == Init /\ [][Next]_vars

\* A thread that is not killed keeps executing.
FairSpec == Spec /\ \A q \in Requests : WF_vars(Work(q))

-----------------------------------------------------------------------------
TypeOK ==
    /\ now \in Time
    /\ status     \in [Runs -> RunStatus]
    /\ started    \in [Runs -> Time]
    /\ finished   \in [Runs -> Time]
    /\ extraction \in [Runs -> BOOLEAN]
    /\ error      \in [Runs -> SUBSET (Stages \union {"stale_recovery"})]
    /\ processing \in ProcessingStatus
    /\ facts      \in Runs \union {NoRun}
    /\ pc     \in [Requests -> {"idle", "creating", "extraction", "deriving",
                                "persisting", "facts", "failing"}]
    /\ job    \in [Requests -> Runs \union {NoRun}]
    /\ stage  \in [Requests -> Stages]
    /\ stamp  \in [Requests -> Time]
    /\ warned \in [Requests -> SUBSET OptionalStages]
    /\ published \in Runs \union {NoRun}

-----------------------------------------------------------------------------
\* However creations, recoveries, late results and crashes interleave, two
\* analyses of the contract are never in progress together
\* (create_analysis_run under the contract's row lock).
AtMostOneRunning == \A r, s \in Running : r = s

\* A run that has ended is history: no late extraction, result, failure or
\* recovery of another request ever changes its row again (the
\* "AND status='running'" of the four UPDATEs).
EndedRunsKeepTheirRow ==
    \A r \in Runs : status[r] \in Terminal =>
        UNCHANGED <<status[r], started[r], finished[r], extraction[r], error[r]>>
EndedRunsAreFrozen == [][EndedRunsKeepTheirRow]_vars

\* Readers order by finished_at, a timestamp taken before the transaction that
\* commits it; even so they see the analysis that was committed last, never an
\* earlier one.
ReadersSeeLastPublished ==
    Succeeded # {} => published \in LatestAnalysis

\* The status shown for the contract agrees with its history, whatever order
\* results and failures arrive in: "ready" only with a published analysis to
\* show, "failed" only without one (a failed re-analysis keeps the contract
\* ready: has_success in fail_analysis).
ContractStatusTruthful ==
    /\ processing = "ready"  => Succeeded # {}
    /\ processing = "failed" => Succeeded = {}

\* A failure that arrives late cannot touch the status of a contract another
\* run has taken over: while a run stays running, "analyzing" is given up only
\* by the success of an earlier one (the comment in fail_analysis).
OnlySuccessEndsAnalyzing ==
    (/\ processing = "analyzing"
     /\ \E r \in Running : status'[r] = "running")
    => \/ processing' = "analyzing"
       \/ \E q \in Requests : pc[q] = "facts" /\ pc'[q] = "idle"
LateFailureKeepsStatus == [][OnlySuccessEndsAnalyzing]_vars

\* The run in progress, as a reader of the rows sees it.
CurrentRun == IF Running = {} THEN NoRun ELSE CHOOSE r \in Running : TRUE

\* Behind the stages, stamps, takeovers and late writes there is a plain ledger:
\* runs begin one at a time, and only the current one is published or abandoned.
Ledger == INSTANCE AnalysisLedger
            WITH current <- CurrentRun,
                 latest  <- published,
                 retired <- WithStatus("succeeded") \union WithStatus("failed")
ImplementsLedger == Ledger!Spec

\* Every run comes to an end, as long as no process dies and MySQL answers.
EveryRunEnds ==
    \A r \in Runs : (status[r] = "running") ~> (status[r] \in Terminal)

\* Under the same conditions a contract does not stay "analyzing".
AnalyzingEnds ==
    (processing = "analyzing") ~> (processing # "analyzing")

-----------------------------------------------------------------------------
\* Refuted by TLC with two requests and no failure.  The name and risk level shown
\* with a contract are those of the analysis that is shown with it ("a detail reads
\* only the latest successful run"), once no request is between the two
\* transactions of save_analysis_result.
FactsOfLatestAnalysis ==
    (\A q \in Requests : pc[q] # "facts")
        => facts = NoRun \/ facts \in LatestAnalysis

=============================================================================
