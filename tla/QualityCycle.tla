--------------------------- MODULE QualityCycle ---------------------------
(***************************************************************************)
(* The unattended quality cycle of scripts/quality/run_v1_quality_cycle.py:*)
(* a lock file keeps scheduled cycles apart, the steps run one after the   *)
(* other whether or not they succeed, and hand each other reports at       *)
(* fixed paths, where those of earlier cycles still lie.                   *)
(***************************************************************************)
EXTENDS Integers, Sequences, FiniteSets, RuleValues

CONSTANTS
    Cycles,      \* processes started by the scheduler, each for one cycle
    LockStale,   \* age from which a lock file no longer counts
    MaxClock     \* bound on time

ASSUME CycleAssumption ==
    /\ LockStale \in Nat \ {0} /\ MaxClock \in Nat
    /\ None \notin Cycles /\ None \notin [at : 0..MaxClock, by : Cycles]

VARIABLES
    clock,
    lock,       \* None, or when the lock file was written and by whom
    cyclePhase, \* what each process is doing
    position,   \* the step each process comes to next
    passed,     \* whether every step of each process has succeeded so far
    reportsBy,  \* for each report file, the process that wrote it, or None
    used,       \* the processes whose reports each one has read
    together,   \* history: processes that were at work while another one was
    distrusted  \* history: a lock file has been taken for stale

cycleVars == <<clock, lock, cyclePhase, position, passed, reportsBy, used, together, distrusted>>

\* build_steps, without the optional performance steps: what a step reads and writes.  The
\* reports nobody else reads are left out, and so are the defaults of optional inputs.
Steps ==
    <<[name |-> "core_chain_evaluation",       reads |-> {},           writes |-> {"evaluation"}],
      [name |-> "evaluation_gate",             reads |-> {"evaluation"}, writes |-> {}],
      [name |-> "intent_policy_evaluation",    reads |-> {},           writes |-> {"intent"}],
      [name |-> "threshold_calibration",       reads |-> {},           writes |-> {"thresholds"}],
      [name |-> "runtime_param_recommendation",
       reads |-> {"evaluation", "intent", "thresholds"},               writes |-> {}],
      [name |-> "evaluation_bad_case_draft",   reads |-> {"evaluation"}, writes |-> {}],
      [name |-> "feedback_bad_case_draft",     reads |-> {},           writes |-> {}]>>

\* The recommendation goes on without a report it does not find.
Optional == {"runtime_param_recommendation"}

ReportFiles == UNION {Steps[i].writes : i \in DOMAIN Steps}

Phases == {"out", "exists", "stale", "create", "work", "exit", "ok", "failed", "refused", "died"}

CycleTypeOK ==
    /\ clock \in 0..MaxClock
    /\ lock \in [at : 0..MaxClock, by : Cycles] \cup {None}
    /\ cyclePhase \in [Cycles -> Phases]
    /\ position \in [Cycles -> 1..(Len(Steps) + 1)]
    /\ \A p \in Cycles :
          cyclePhase[p] \in {"exit", "ok", "failed"} => position[p] = Len(Steps) + 1
    /\ passed \in [Cycles -> BOOLEAN]
    /\ reportsBy \in [ReportFiles -> Cycles \cup {None}]
    /\ used \in [Cycles -> SUBSET Cycles]
    /\ together \subseteq Cycles /\ distrusted \in BOOLEAN

CycleInit ==
    /\ clock = 0 /\ lock = None
    /\ cyclePhase = [p \in Cycles |-> "out"]
    /\ position = [p \in Cycles |-> 1]
    /\ passed = [p \in Cycles |-> TRUE]
    /\ reportsBy = [f \in ReportFiles |-> None]
    /\ used = [p \in Cycles |-> {}]
    /\ together = {} /\ distrusted = FALSE

-----------------------------------------------------------------------------
(* QualityCycleLock.__enter__: look, look at the age, remove, create.      *)

Working(p) == cyclePhase[p] \in {"work", "exit"}

Goes(p, next) == cyclePhase' = [cyclePhase EXCEPT ![p] = next]

Look(p) ==
    /\ cyclePhase[p] = "out"
    /\ Goes(p, IF lock = None THEN "create" ELSE "exists")
    /\ UNCHANGED <<clock, lock, position, passed, reportsBy, used, together, distrusted>>

\* A file gone in the meantime is an error main does not catch.
Age(p) ==
    /\ cyclePhase[p] = "exists"
    /\ Goes(p, IF lock = None THEN "died"
               ELSE IF clock - lock.at < LockStale THEN "refused" ELSE "stale")
    /\ distrusted' = (distrusted \/ (lock # None /\ clock - lock.at >= LockStale))
    /\ UNCHANGED <<clock, lock, position, passed, reportsBy, used, together>>

Unlink(p) ==
    /\ cyclePhase[p] = "stale"
    /\ Goes(p, IF lock = None THEN "died" ELSE "create")
    /\ lock' = None
    /\ UNCHANGED <<clock, position, passed, reportsBy, used, together, distrusted>>

\* Whoever is at work when another one begins is so together with it.
Begin(p) ==
    /\ Goes(p, "work")
    /\ lock' = [at |-> clock, by |-> p]
    /\ together' = together \cup (LET others == {q \in Cycles : Working(q)}
                                  IN  IF others = {} THEN {} ELSE others \cup {p})

CreateAnyway(p) ==
    /\ cyclePhase[p] = "create"
    /\ Begin(p)
    /\ UNCHANGED <<clock, position, passed, reportsBy, used, distrusted>>

\* O_CREAT | O_EXCL: one of several succeeds.
Create(p) ==
    /\ cyclePhase[p] = "create"
    /\ IF lock = None THEN Begin(p)
       ELSE Goes(p, "refused") /\ UNCHANGED <<lock, together>>
    /\ UNCHANGED <<clock, position, passed, reportsBy, used, distrusted>>

\* __exit__ removes the file, whosever it is.
Exit(p) ==
    /\ cyclePhase[p] = "exit"
    /\ lock' = None
    /\ Goes(p, IF passed[p] THEN "ok" ELSE "failed")
    /\ UNCHANGED <<clock, position, passed, reportsBy, used, together, distrusted>>

-----------------------------------------------------------------------------
(* run_command_step, for each of the steps.                                *)

RunLastCounts(p, good, written) ==
    LET step == Steps[position[p]]
        here == {f \in step.reads : reportsBy[f] # None}
    IN  /\ cyclePhase[p] = "work" /\ position[p] <= Len(Steps)
        /\ good => written /\ (here = step.reads \/ step.name \in Optional)
        /\ used' = [used EXCEPT ![p] = @ \cup {reportsBy[f] : f \in here}]
        /\ reportsBy' = [f \in ReportFiles |->
                            IF written /\ f \in step.writes THEN p ELSE reportsBy[f]]
        /\ passed' = [passed EXCEPT ![p] = good]
        /\ position' = [position EXCEPT ![p] = @ + 1]
        /\ UNCHANGED <<clock, lock, cyclePhase, together, distrusted>>

\* A step succeeds, or fails, with its report written or not; the others follow in any case.
RunStep(p, good, written) ==
    LET step == Steps[position[p]]
        here == {f \in step.reads : reportsBy[f] # None}
    IN  /\ cyclePhase[p] = "work" /\ position[p] <= Len(Steps)
        /\ good => written /\ (here = step.reads \/ step.name \in Optional)
        /\ used' = [used EXCEPT ![p] = @ \cup {reportsBy[f] : f \in here}]
        /\ reportsBy' = [f \in ReportFiles |->
                            IF written /\ f \in step.writes THEN p ELSE reportsBy[f]]
        /\ passed' = [passed EXCEPT ![p] = @ /\ good]
        /\ position' = [position EXCEPT ![p] = @ + 1]
        /\ UNCHANGED <<clock, lock, cyclePhase, together, distrusted>>

ReportFirstFailure(p) ==
    /\ cyclePhase[p] = "work" /\ (position[p] > Len(Steps) \/ ~passed[p])
    /\ Goes(p, "exit")
    /\ UNCHANGED <<clock, lock, position, passed, reportsBy, used, together, distrusted>>

\* The cycle's own report: ok if every step was.
Report(p) ==
    /\ cyclePhase[p] = "work" /\ position[p] > Len(Steps)
    /\ Goes(p, "exit")
    /\ UNCHANGED <<clock, lock, position, passed, reportsBy, used, together, distrusted>>

\* The process is killed: its lock file stays.
Killed(p) ==
    /\ Working(p)
    /\ Goes(p, "died")
    /\ UNCHANGED <<clock, lock, position, passed, reportsBy, used, together, distrusted>>

Passes ==
    /\ clock < MaxClock /\ lock # None
    /\ clock' = clock + 1
    /\ UNCHANGED <<lock, cyclePhase, position, passed, reportsBy, used, together, distrusted>>

CycleNext ==
    \/ \E p \in Cycles : Look(p) \/ Age(p) \/ Unlink(p) \/ Create(p) \/ Exit(p)
                         \/ Report(p) \/ Killed(p)
    \/ \E p \in Cycles, g, w \in BOOLEAN : RunStep(p, g, w)
    \/ Passes

CycleSpec == CycleInit /\ [][CycleNext]_cycleVars

-----------------------------------------------------------------------------
(* Properties.                                                             *)

\* However the starts of scheduled cycles interleave, two are at work at the same time only
\* after somebody has taken a lock file for stale: the lock admits one of several starters,
\* and a cycle that ends leaves no other one without its lock.
TogetherOnlyAfterStale == together # {} => distrusted

\* A cycle reported as ok that had the reports to itself has judged, tuned and drafted from
\* its own reports only, although those of earlier cycles lie at the same paths and a failed
\* step leaves them there.
OkMeansOwnReports ==
    \A p \in Cycles : cyclePhase[p] \in {"exit", "ok"} /\ passed[p] /\ p \notin together
                        => used[p] = {p}

\* A starter removes only a lock file that has outlived the limit, so that creating it
\* atomically "avoids the overlap of removing before creating".
OnlyStaleLocksAreRemoved ==
    [][\A p \in Cycles : cyclePhase[p] = "stale" /\ cyclePhase'[p] = "create"
                            => clock - lock.at >= LockStale]_cycleVars

\* Cycles keep apart: no two work at once unless a lock was taken for stale, and one that ends
\* well and alone has used its own reports only.
CyclesKeepApart == CycleTypeOK /\ TogetherOnlyAfterStale /\ OkMeansOwnReports
=============================================================================
