----------------------------- MODULE KbRelease -----------------------------
(***************************************************************************)
(* How knowledge bases are released, one scenario after the other, by the  *)
(* command line: an enterprise overlay is merged with a scenario's data    *)
(* and previewed, a plan is made of the previews, the plan is run and may  *)
(* be skipped when a fingerprint says nothing has changed; or a batch of   *)
(* scenarios is rebuilt.  Either way scripts/rebuild_kb_version.py builds  *)
(* a version, puts it through the quality gate and activates it.           *)
(***************************************************************************)
EXTENDS Integers, Sequences, FiniteSets, SequencesExt, RuleValues

CONSTANTS
    ScenarioOrder, \* scenario ids, in the order of overlay reports and batches
    DataStates,    \* what the data of a scenario may be
    MaxReleases    \* bound: versions activated by rebuilds

ScenarioIds == ToSet(ScenarioOrder)
Partial(S)  == UNION {[R -> S] : R \in SUBSET ScenarioIds}

\* A job of one of the scripts: what is still to be rebuilt, and how the others ended.
Jobs == [kind : {"overlay", "batch"}, todo : SUBSET ScenarioIds, results : Seq(BOOLEAN),
         signatures : Partial(DataStates), activate : BOOLEAN, gate : BOOLEAN, goOn : BOOLEAN]

ASSUME ReleaseAssumption ==
    /\ MaxReleases \in Nat
    /\ None \notin Partial(DataStates) /\ None \notin Jobs

VARIABLES
    data,      \* the merged data directory and FAQ file of each scenario
    commands,  \* scenarios of the activation plan, none if it may not be run or there is none
    report,    \* overlay_signatures of the last report, None if there is none or it failed
    released,  \* the versions of each scenario that have been active: their data, gated
    live,      \* the active one of them, 0 if there is none
    job,       \* the script at work, or None
    disturbed  \* history: scenarios something else has happened to since the run that wrote
               \* the report began: a rollback, another rebuild, new data, a death

releaseVars == <<data, commands, report, released, live, job, disturbed>>

ReleaseTypeOK ==
    /\ data \in [ScenarioIds -> DataStates]
    /\ commands \subseteq ScenarioIds
    /\ report \in Partial(DataStates) \cup {None}
    /\ released \in [ScenarioIds -> Seq([data : DataStates, gated : BOOLEAN])]
    /\ live \in [ScenarioIds -> Nat]
    /\ \A s \in ScenarioIds : /\ live[s] \in 0..Len(released[s])
                              /\ live[s] = 0 <=> released[s] = <<>>
    /\ job \in Jobs \cup {None}
    /\ disturbed \subseteq ScenarioIds

ReleaseInit ==
    /\ \E c \in DataStates : data = [s \in ScenarioIds |-> c]
    /\ commands = {} /\ report = None
    /\ released = [s \in ScenarioIds |-> <<>>]
    /\ live = [s \in ScenarioIds |-> 0]
    /\ job = None /\ disturbed = {}

-----------------------------------------------------------------------------
(* The scripts that build an overlay and plan its activation.              *)

\* The directories of the scenarios asked for are made anew; a plan made of the report has
\* a command for each, and may be run if no row is blocked and it is to activate.
BuildOverlay(asked, contents, plan) ==
    /\ data' = [s \in ScenarioIds |-> IF s \in asked THEN contents[s] ELSE data[s]]
    /\ commands' = CASE plan = "none"    -> commands
                     [] plan = "blocked" -> {}
                     [] plan = "ready"   -> asked
    /\ disturbed' = IF job = None \/ job.kind = "batch" THEN disturbed
                    ELSE disturbed \cup {s \in asked : data'[s] # data[s]}
    /\ UNCHANGED <<report, released, live, job>>

-----------------------------------------------------------------------------
(* run_activation_plan.                                                    *)

MatchesAnySignature(signatures) ==
    /\ report # None
    /\ \E s \in DOMAIN signatures :
          s \in DOMAIN report /\ report[s] = signatures[s]

\* The last report was ok and has the signature of every scenario.
MatchingPreviousReport(signatures) ==
    /\ report # None /\ DOMAIN signatures # {}
    /\ \A s \in DOMAIN signatures :
          s \in DOMAIN report /\ report[s] = signatures[s]

SelectedPlanItems(selected) == {s \in commands : selected = {} \/ s \in selected}
ActivationSignatures(ids)   == [s \in ids |-> data[s]]

\* Without --force an unchanged overlay is skipped, and the report is then about the
\* scenarios selected now.
RunActivationPlan(selected, force) ==
    /\ job = None /\ commands # {}
    /\ LET ids        == SelectedPlanItems(selected)
           signatures == ActivationSignatures(ids)
       IN  IF ~force /\ MatchingPreviousReport(signatures)
             THEN report' = signatures /\ UNCHANGED <<job, disturbed>>
             ELSE /\ job' = [kind |-> "overlay", todo |-> ids, results |-> <<>>,
                             signatures |-> signatures, activate |-> TRUE, gate |-> TRUE,
                             goOn |-> FALSE]
                  /\ disturbed' = disturbed \ ids
                  /\ UNCHANGED report
    /\ UNCHANGED <<data, commands, released, live>>

-----------------------------------------------------------------------------
(* rebuild_kb_version.py, run for the next scenario of the job.            *)

PlaceOf(s) == CHOOSE i \in DOMAIN ScenarioOrder : ScenarioOrder[i] = s

IsNext(s) == s \in job.todo /\ \A r \in job.todo : PlaceOf(s) <= PlaceOf(r)

FinishedGoingOn(s, ok) ==
    job' = [job EXCEPT !.results = Append(@, ok), !.todo = @ \ {s}]

\* The command ends well, or it fails and ends the job unless that is to go on.
Finished(s, ok) ==
    job' = [job EXCEPT !.results = Append(@, ok),
                       !.todo = IF ok \/ job.goOn THEN @ \ {s} ELSE {}]

\* validate_args: activation always goes through the gate.
GateAsAsked == job.gate
GateRuns    == job.gate \/ job.activate

NumberReleased == FoldSeq(LAMBDA s, n : n + Len(released[s]), 0, ScenarioOrder)

\* A version is created and filled from the data as they are now; then the gate, if it runs,
\* and the activation, if asked for.  A version that is not activated stays staged, and
\* nothing else ever makes it active.
Rebuild(s, ingested, passes) ==
    LET ok == ingested /\ (GateRuns => passes)
    IN  /\ job # None /\ IsNext(s)
        /\ IF ok /\ job.activate
             THEN /\ NumberReleased < MaxReleases
                  /\ released' = [released EXCEPT ![s] =
                        Append(@, [data |-> data[s], gated |-> GateRuns /\ passes])]
                  /\ live' = [live EXCEPT ![s] = Len(released'[s])]
                  /\ disturbed' = disturbed \cup (IF job.kind = "batch" THEN {s} ELSE {})
             ELSE UNCHANGED <<released, live, disturbed>>
        /\ Finished(s, ok)
        /\ UNCHANGED <<data, commands, report>>

\* The report of a run is written when all is over; a batch only prints.
EndOfJob ==
    /\ job # None /\ job.todo = {}
    /\ report' = IF job.kind = "batch" THEN report
                 ELSE IF job.results # <<>> /\ \A i \in DOMAIN job.results : job.results[i]
                   THEN job.signatures ELSE None
    /\ job' = None
    /\ UNCHANGED <<data, commands, released, live, disturbed>>

\* The script dies: no report.
JobDies ==
    /\ job # None
    /\ disturbed' = disturbed \cup DOMAIN job.signatures
    /\ job' = None
    /\ UNCHANGED <<data, commands, report, released, live>>

-----------------------------------------------------------------------------
(* Rebuilding without a plan, and rolling back.                            *)

\* rebuild_scenarios.py, which refuses to activate without the gate.  A batch that only
\* stages versions is left out: it changes nothing here.
RebuildScenarios(ids, goOn) ==
    /\ job = None
    /\ job' = [kind |-> "batch", todo |-> ids, results |-> <<>>, signatures |-> <<>>,
               activate |-> TRUE, gate |-> TRUE, goOn |-> goOn]
    /\ UNCHANGED <<data, commands, report, released, live, disturbed>>

\* rebuild_kb_version.py by hand, without asking for the gate.
RebuildOne(s, activate) ==
    /\ job = None
    /\ job' = [kind |-> "batch", todo |-> {s}, results |-> <<>>,
               signatures |-> <<>>, activate |-> activate, gate |-> FALSE, goOn |-> FALSE]
    /\ UNCHANGED <<data, commands, report, released, live, disturbed>>

RollbackOneTooFar(s, n) ==
    /\ n \in DOMAIN released[s] /\ n # live[s]
    /\ live' = [live EXCEPT ![s] = n - 1]
    /\ disturbed' = disturbed \cup {s}
    /\ UNCHANGED <<data, commands, report, released, job>>

\* manage_kb_versions.py activate: only a version that has been active before.
Rollback(s, n) ==
    /\ n \in DOMAIN released[s] /\ n # live[s]
    /\ live' = [live EXCEPT ![s] = n]
    /\ disturbed' = disturbed \cup {s}
    /\ UNCHANGED <<data, commands, report, released, job>>

-----------------------------------------------------------------------------

ReleaseNext ==
    \/ \E a \in (SUBSET ScenarioIds) \ {{}}, p \in {"none", "blocked", "ready"} :
          \E c \in [a -> DataStates] : BuildOverlay(a, c, p)
    \/ \E s \in {{}} \cup {{i} : i \in ScenarioIds}, f \in BOOLEAN : RunActivationPlan(s, f)
    \/ (\E s \in ScenarioIds, i, p \in BOOLEAN : Rebuild(s, i, p)) \/ EndOfJob \/ JobDies
    \/ \E c \in BOOLEAN : RebuildScenarios(ScenarioIds, c)
    \/ \E s \in ScenarioIds, a \in BOOLEAN : RebuildOne(s, a)
    \/ \E s \in ScenarioIds, n \in 1..MaxReleases : Rollback(s, n)

ReleaseSpec == ReleaseInit /\ [][ReleaseNext]_releaseVars

-----------------------------------------------------------------------------
(* Properties.                                                             *)

\* Whoever releases what in which order, only versions that have passed the quality gate
\* are ever active: no flags get around it.
ActiveWasGated == \A s \in ScenarioIds : live[s] # 0 => released[s][live[s]].gated

\* Whenever a run would skip scenarios because their fingerprints have not changed, they are
\* served from the data the fingerprints are of, after whatever partial failures, selections
\* and forced runs, unless something the report cannot know of has happened to them.
SkipIsJustified ==
    job = None =>
        \A selected \in SUBSET ScenarioIds :
            LET signatures == ActivationSignatures(SelectedPlanItems(selected))
            IN  MatchingPreviousReport(signatures) =>
                    \A s \in DOMAIN signatures \ disturbed :
                        live[s] # 0 /\ released[s][live[s]].data = signatures[s]

\* A job not told to go on touches nothing after the first scenario that fails.
OnlyTheLastFails ==
    job # None /\ ~job.goOn => \A i \in 1..(Len(job.results) - 1) : job.results[i]

\* However scenarios are built, gated, activated, skipped and rolled back: what is served has
\* passed the gate, a job stops at its first failure, and only what is served is skipped.
ReleasesAreGated == ReleaseTypeOK /\ ActiveWasGated /\ OnlyTheLastFails /\ SkipIsJustified
=============================================================================
