-------------------------- MODULE AnalysisRunsProofs --------------------------
(***************************************************************************)
(* Proofs about AnalysisRuns, for any set of requests and of runs, any     *)
(* staleness bound and any selection of failures.                          *)
(*                                                                         *)
(* The two locks that matter are not in the code as locks.  A request owns *)
(* the run it created (Ownership): nobody else ever writes its result.  And *)
(* a request that is about to publish holds a timestamp no older than that *)
(* of the last published run (StampsInOrder), because a run can only have  *)
(* been published before this one was created.                             *)
(***************************************************************************)
EXTENDS AnalysisRuns, TLAPS

Ended == WithStatus("succeeded") \union WithStatus("failed")

\* A request beyond creation works for a run that exists, and for its own.
Ownership ==
    /\ \A q \in Requests :
         pc[q] \notin {"idle", "creating"} =>
             /\ job[q] \in Runs
             /\ status[job[q]] # "absent"
    /\ \A p, q \in Requests :
         /\ p # q
         /\ pc[p] \notin {"idle", "creating"}
         /\ pc[q] \notin {"idle", "creating"}
         => job[p] # job[q]

\* Timestamps were read from the clock.
StampsArePast ==
    /\ \A r \in Runs : finished[r] <= now
    /\ \A q \in Requests : stamp[q] <= now

\* The published run is the last one among the succeeded.
PublishedIsLast ==
    /\ published = NoRun => Succeeded = {}
    /\ published # NoRun => published \in Succeeded
    /\ \A r \in Succeeded : finished[r] <= finished[published]

\* A result that will be accepted carries a timestamp from after the last
\* publication.
StampsInOrder ==
    \A q \in Requests :
        pc[q] = "persisting" /\ StillRunning(q) /\ published # NoRun
            => finished[published] <= stamp[q]

\* A request between the two transactions of save_analysis_result has
\* published.
FactsComeAfterSuccess ==
    \A q \in Requests : pc[q] = "facts" => status[job[q]] = "succeeded"

\* "failed" is only shown when there is nothing else to show.
FailedMeansNothing ==
    processing = "failed" => Running = {} /\ Succeeded = {}

IInv ==
    /\ TypeOK
    /\ AtMostOneRunning
    /\ Ownership
    /\ StampsArePast
    /\ PublishedIsLast
    /\ StampsInOrder
    /\ FactsComeAfterSuccess
    /\ FailedMeansNothing
    /\ ContractStatusTruthful

-----------------------------------------------------------------------------
\* Every step of a request, the clock and a crash keep the types.
LEMMA TypeInvariant == TypeOK /\ [Next]_vars => TypeOK'
<1> SUFFICES ASSUME TypeOK, [Next]_vars PROVE TypeOK'
  OBVIOUS
<1> USE NoRunAssumption, ClockAssumption
    DEF TypeOK, RunStatus, ProcessingStatus, Time, Stages, OptionalStages,
        WithStatus, Running, Succeeded, rows, locals
<1>1. CASE Tick
  BY <1>1 DEF Tick
<1>2. ASSUME NEW q \in Requests, Submit(q) PROVE TypeOK'
  BY <1>2 DEF Submit, Goto
<1>3. ASSUME NEW q \in Requests, CreateRun(q) PROVE TypeOK'
  BY <1>3 DEF CreateRun, StaleRuns, IsStale, Occupied
<1>4. ASSUME NEW q \in Requests, RejectRun(q) PROVE TypeOK'
  BY <1>4 DEF RejectRun, Leave, Occupied
<1>5. ASSUME NEW q \in Requests, CreateFails(q) PROVE TypeOK'
  BY <1>5 DEF CreateFails, Leave
<1>6. ASSUME NEW q \in Requests, SaveExtraction(q) PROVE TypeOK'
  BY <1>6 DEF SaveExtraction, Goto, StillRunning
<1>7. ASSUME NEW q \in Requests, Derive(q) PROVE TypeOK'
  BY <1>7 DEF Derive, Goto
<1>8. ASSUME NEW q \in Requests, StageFails(q) PROVE TypeOK'
  BY <1>8 DEF StageFails, Goto
<1>9. ASSUME NEW q \in Requests, Persist(q) PROVE TypeOK'
  BY <1>9 DEF Persist, Goto, StillRunning
<1>10. ASSUME NEW q \in Requests, PersistFails(q) PROVE TypeOK'
  BY <1>10 DEF PersistFails, Goto, StillRunning
<1>11. ASSUME NEW q \in Requests, UpdateFacts(q) PROVE TypeOK'
  BY <1>11 DEF UpdateFacts, Leave
<1>12. ASSUME NEW q \in Requests, UpdateFactsFails(q) PROVE TypeOK'
  BY <1>12 DEF UpdateFactsFails, Goto
<1>13. ASSUME NEW q \in Requests, FailAnalysis(q) PROVE TypeOK'
  BY <1>13 DEF FailAnalysis, Leave, StatusAfterFailure, StillRunning
<1>14. ASSUME NEW q \in Requests, FailAnalysisFails(q) PROVE TypeOK'
  BY <1>14 DEF FailAnalysisFails, Leave
<1>15. ASSUME NEW q \in Requests, Crash(q) PROVE TypeOK'
  BY <1>15 DEF Crash, Leave
<1>16. CASE UNCHANGED vars
  BY <1>16 DEF vars
<1> QED
  BY <1>1, <1>2, <1>3, <1>4, <1>5, <1>6, <1>7, <1>8,
     <1>9, <1>10, <1>11, <1>12, <1>13, <1>14, <1>15, <1>16 DEF Next, Work

\* A parsed contract nobody has analysed satisfies the invariant.
LEMMA Initially == Init => IInv
<1> SUFFICES ASSUME Init PROVE IInv
  OBVIOUS
<1>1. TypeOK
  BY NoRunAssumption, ClockAssumption
  DEF Init, TypeOK, RunStatus, ProcessingStatus, Time, Stages
<1>2. Running = {} /\ Succeeded = {}
  BY DEF Init, WithStatus, Running, Succeeded
<1> QED
  BY <1>1, <1>2 DEF Init, IInv, AtMostOneRunning, Ownership, StampsArePast,
     PublishedIsLast, StampsInOrder, FactsComeAfterSuccess, FailedMeansNothing,
     ContractStatusTruthful

\* Every step keeps the invariant; the creation of a run and the commit of its
\* result are the steps that need its conjuncts together.
LEMMA Inductive == IInv /\ [Next]_vars => IInv'
<1> SUFFICES ASSUME IInv, [Next]_vars PROVE IInv'
  OBVIOUS
<1> USE NoRunAssumption, ClockAssumption
    DEF IInv, TypeOK, Time, WithStatus, Running, Succeeded, rows, locals,
        AtMostOneRunning, Ownership, StampsArePast, PublishedIsLast,
        StampsInOrder, FactsComeAfterSuccess, FailedMeansNothing,
        ContractStatusTruthful, StillRunning
<1>t. TypeOK'
  BY TypeInvariant
<1>1. CASE Tick
  BY <1>t, <1>1 DEF Tick
<1>2. ASSUME NEW q \in Requests, Submit(q) PROVE IInv'
  BY <1>t, <1>2 DEF Submit, Goto
<1>3. ASSUME NEW q \in Requests, CreateRun(q) PROVE IInv'
  BY <1>t, <1>3 DEF CreateRun, StaleRuns, IsStale, Occupied
<1>4. ASSUME NEW q \in Requests, RejectRun(q) PROVE IInv'
  BY <1>t, <1>4 DEF RejectRun, Leave, Occupied
<1>5. ASSUME NEW q \in Requests, CreateFails(q) PROVE IInv'
  BY <1>t, <1>5 DEF CreateFails, Leave
<1>6. ASSUME NEW q \in Requests, SaveExtraction(q) PROVE IInv'
  BY <1>t, <1>6 DEF SaveExtraction, Goto
<1>7. ASSUME NEW q \in Requests, Derive(q) PROVE IInv'
  BY <1>t, <1>7 DEF Derive, Goto
<1>8. ASSUME NEW q \in Requests, StageFails(q) PROVE IInv'
  BY <1>t, <1>8 DEF StageFails, Goto
<1>9. ASSUME NEW q \in Requests, Persist(q) PROVE IInv'
  BY <1>t, <1>9 DEF Persist, Goto
<1>10. ASSUME NEW q \in Requests, PersistFails(q) PROVE IInv'
  BY <1>t, <1>10 DEF PersistFails, Goto
<1>11. ASSUME NEW q \in Requests, UpdateFacts(q) PROVE IInv'
  BY <1>t, <1>11 DEF UpdateFacts, Leave
<1>12. ASSUME NEW q \in Requests, UpdateFactsFails(q) PROVE IInv'
  BY <1>t, <1>12 DEF UpdateFactsFails, Goto
<1>13. ASSUME NEW q \in Requests, FailAnalysis(q) PROVE IInv'
  BY <1>t, <1>13 DEF FailAnalysis, Leave, StatusAfterFailure
<1>14. ASSUME NEW q \in Requests, FailAnalysisFails(q) PROVE IInv'
  BY <1>t, <1>14 DEF FailAnalysisFails, Leave
<1>15. ASSUME NEW q \in Requests, Crash(q) PROVE IInv'
  BY <1>t, <1>15 DEF Crash, Leave
<1>16. CASE UNCHANGED vars
  BY <1>t, <1>16 DEF vars
<1> QED
  BY <1>1, <1>2, <1>3, <1>4, <1>5, <1>6, <1>7, <1>8,
     <1>9, <1>10, <1>11, <1>12, <1>13, <1>14, <1>15, <1>16 DEF Next, Work

\* The strengthened invariant of the module.
THEOREM Invariance == Spec => []IInv
<1>1. Init => IInv
  BY Initially
<1>2. IInv /\ [Next]_vars => IInv'
  BY Inductive
<1> QED
  BY <1>1, <1>2, PTL DEF Spec

-----------------------------------------------------------------------------
\* Every variable of the model, hence every column and every local of the
\* code, keeps its type.
THEOREM TypeCorrect == Spec => []TypeOK
BY Invariance, PTL DEF IInv

\* No interleaving of creations, takeovers, failures and crashes has two runs
\* of the contract in progress.
THEOREM MutualExclusion == Spec => []AtMostOneRunning
BY Invariance, PTL DEF IInv

\* The analysis readers select by finished_at is the one committed last.
THEOREM LatestIsLast == Spec => []ReadersSeeLastPublished
<1>1. IInv => ReadersSeeLastPublished
  BY DEF IInv, PublishedIsLast, ReadersSeeLastPublished, LatestAnalysis
<1> QED
  BY <1>1, Invariance, PTL

\* "ready" and "failed" are only shown when the history says so.
THEOREM StatusIsTruthful == Spec => []ContractStatusTruthful
BY Invariance, PTL DEF IInv

\* The row of an ended run never changes again.
THEOREM Frozen == Spec => EndedRunsAreFrozen
<1>1. IInv /\ [Next]_vars => [EndedRunsKeepTheirRow]_vars
  <2> SUFFICES ASSUME IInv, Next, NEW r \in Runs, status[r] \in Terminal
               PROVE  UNCHANGED <<status[r], started[r], finished[r],
                                  extraction[r], error[r]>>
    BY DEF EndedRunsKeepTheirRow
  <2> USE DEF IInv, TypeOK, Terminal, WithStatus, Running, rows, StillRunning
  <2>1. CASE Tick
    BY <2>1 DEF Tick
  <2>2. ASSUME NEW q \in Requests,
               Submit(q) \/ RejectRun(q) \/ CreateFails(q) \/ Derive(q)
                 \/ StageFails(q) \/ PersistFails(q) \/ UpdateFacts(q)
                 \/ UpdateFactsFails(q) \/ FailAnalysisFails(q) \/ Crash(q)
        PROVE  UNCHANGED rows
    BY <2>2 DEF Submit, RejectRun, CreateFails, Derive, StageFails, PersistFails,
       UpdateFacts, UpdateFactsFails, FailAnalysisFails, Crash
  <2>3. ASSUME NEW q \in Requests, CreateRun(q)
        PROVE  UNCHANGED <<status[r], started[r], finished[r], extraction[r], error[r]>>
    BY <2>3 DEF CreateRun, StaleRuns
  <2>4. ASSUME NEW q \in Requests, SaveExtraction(q) \/ Persist(q) \/ FailAnalysis(q)
        PROVE  UNCHANGED <<status[r], started[r], finished[r], extraction[r], error[r]>>
    BY <2>4 DEF SaveExtraction, Persist, FailAnalysis
  <2> QED
    BY <2>1, <2>2, <2>3, <2>4 DEF Next, Work
<1> QED
  BY <1>1, Invariance, PTL DEF Spec, EndedRunsAreFrozen

\* As long as a run is in progress, only an earlier success replaces "analyzing".
THEOREM LateFailuresAreHarmless == Spec => LateFailureKeepsStatus
<1>1. IInv /\ [Next]_vars => [OnlySuccessEndsAnalyzing]_vars
  <2> SUFFICES ASSUME IInv, Next, processing = "analyzing",
                      NEW r \in Running, status'[r] = "running"
               PROVE  \/ processing' = "analyzing"
                      \/ \E q \in Requests : pc[q] = "facts" /\ pc'[q] = "idle"
    BY DEF OnlySuccessEndsAnalyzing
  <2>1. CASE Tick
    BY <2>1 DEF Tick
  <2>2. ASSUME NEW q \in Requests,
               Submit(q) \/ CreateRun(q) \/ RejectRun(q) \/ CreateFails(q)
                 \/ SaveExtraction(q) \/ Derive(q) \/ StageFails(q) \/ Persist(q)
                 \/ PersistFails(q) \/ UpdateFactsFails(q)
                 \/ FailAnalysisFails(q) \/ Crash(q)
        PROVE  processing' = "analyzing"
    BY <2>2 DEF Submit, CreateRun, RejectRun, CreateFails, SaveExtraction, Derive,
       StageFails, Persist, PersistFails, UpdateFactsFails, FailAnalysisFails, Crash
  <2>3. ASSUME NEW q \in Requests, UpdateFacts(q)
        PROVE  pc[q] = "facts" /\ pc'[q] = "idle"
    BY <2>3 DEF UpdateFacts, Leave, IInv, TypeOK
  \* The one run in progress is the one that fails, or nothing is written.
  <2>4. ASSUME NEW q \in Requests, FailAnalysis(q)
        PROVE  processing' = "analyzing"
    <3>1. StillRunning(q) => job[q] = r
      BY <2>4 DEF FailAnalysis, StillRunning, IInv, TypeOK, Ownership,
         AtMostOneRunning, Running, WithStatus
    <3>2. StillRunning(q) => status'[r] = "failed"
      BY <3>1, <2>4 DEF FailAnalysis, IInv, TypeOK, Running, WithStatus
    <3> QED
      BY <3>2, <2>4 DEF FailAnalysis
  <2> QED
    BY <2>1, <2>2, <2>3, <2>4 DEF Next, Work
<1> QED
  BY <1>1, Invariance, PTL DEF Spec, LateFailureKeepsStatus

-----------------------------------------------------------------------------
\* The implementation of the ledger.

\* Since at most one run is in progress, CHOOSE finds it.
LEMMA CurrentRunIsTheRunningOne ==
    ASSUME AtMostOneRunning
    PROVE  /\ Running = {} => CurrentRun = NoRun
           /\ \A r \in Running : CurrentRun = r
BY DEF AtMostOneRunning, CurrentRun

\* Steps that leave the status column alone do not move the ledger.
LEMMA SameStatusSameCurrent ==
    ASSUME UNCHANGED status PROVE UNCHANGED <<CurrentRun, Ended>>
BY DEF CurrentRun, Ended, Running, WithStatus

\* Creation begins a run, the commit of a result publishes it, a recorded
\* failure abandons it; nothing else moves the ledger.
THEOREM Implementation == Spec => ImplementsLedger
<1>1. Init => Ledger!Init
  BY DEF Init, Ledger!Init, CurrentRun, Running, WithStatus
<1>2. IInv /\ IInv' /\ [Next]_vars => [Ledger!Next]_Ledger!vars
  <2> SUFFICES ASSUME IInv, IInv', Next PROVE [Ledger!Next]_Ledger!vars
    BY SameStatusSameCurrent
    DEF vars, rows, Ledger!vars, Ended, CurrentRun, Running, WithStatus
  <2> USE DEF IInv, TypeOK, Ledger!vars
  <2>1. ASSUME UNCHANGED <<status, published>> PROVE UNCHANGED Ledger!vars
    BY <2>1, SameStatusSameCurrent DEF Ended
  <2>2. CASE Tick
    BY <2>1, <2>2 DEF Tick, rows
  <2>3. ASSUME NEW q \in Requests,
               Submit(q) \/ RejectRun(q) \/ CreateFails(q) \/ SaveExtraction(q)
                 \/ Derive(q) \/ StageFails(q) \/ PersistFails(q) \/ UpdateFacts(q)
                 \/ UpdateFactsFails(q) \/ FailAnalysisFails(q) \/ Crash(q)
        PROVE  UNCHANGED <<status, published>>
    BY <2>3 DEF Submit, RejectRun, CreateFails, SaveExtraction, Derive, StageFails,
       PersistFails, UpdateFacts, UpdateFactsFails, FailAnalysisFails, Crash, rows
  <2>4. ASSUME NEW q \in Requests, CreateRun(q) PROVE Ledger!Next
    <3>1. PICK r \in WithStatus("absent") :
            status' = [s \in Runs |-> IF s = r THEN "running"
                                     ELSE IF s \in StaleRuns THEN "failed"
                                     ELSE status[s]]
      BY <2>4 DEF CreateRun
    <3>2. StaleRuns = Running
      BY <2>4 DEF CreateRun, Occupied, StaleRuns
    <3>3. r \in Runs /\ r \notin Running /\ r \notin Ended /\ r # NoRun
      BY NoRunAssumption DEF WithStatus, Running, Ended
    <3>4. CurrentRun' = r
      <4>1. r \in Running'
        BY <3>1, <3>3 DEF Running, WithStatus
      <4> QED
        BY <4>1, CurrentRunIsTheRunningOne, AtMostOneRunning'
           DEF AtMostOneRunning, CurrentRun
    <3>5. Ended' = Ended \union Running
      BY <3>1, <3>2, <3>3 DEF Ended, Running, WithStatus
    <3>6. Running = {CurrentRun} \ {NoRun}
      BY CurrentRunIsTheRunningOne, NoRunAssumption DEF Running, WithStatus
    <3>7. r \notin Ended \union {CurrentRun}
      BY <3>3, <3>6
    <3>8. Ledger!Begin(r)
      BY <3>4, <3>5, <3>6, <3>7, <2>4 DEF Ledger!Begin, CreateRun, Ended
    <3> QED
      BY <3>3, <3>8 DEF Ledger!Next
  \* A run that leaves "running" by its own request was the current one.
  <2>5. ASSUME NEW q \in Requests, pc[q] \in {"persisting", "failing"},
               StillRunning(q), NEW s \in Terminal,
               status' = [status EXCEPT ![job[q]] = s]
        PROVE  CurrentRun = job[q] /\ Ledger!End
    <3>1. job[q] \in Running /\ job[q] # NoRun
      BY <2>5, NoRunAssumption DEF Ownership, StillRunning, Running, WithStatus
    <3>2. Running = {job[q]}
      BY <3>1 DEF AtMostOneRunning
    <3>3. CurrentRun = job[q]
      BY <3>2, CurrentRunIsTheRunningOne
    <3>4. Running' = {}
      BY <2>5, <3>2 DEF Running, WithStatus, Terminal
    <3>5. CurrentRun' = NoRun
      BY <3>4 DEF CurrentRun
    <3>6. Ended' = Ended \union {job[q]}
      BY <2>5, <3>1 DEF Ended, WithStatus, Running, Terminal
    <3> QED
      BY <3>1, <3>3, <3>5, <3>6 DEF Ledger!End, Ended
  <2>6. ASSUME NEW q \in Requests, Persist(q) PROVE Ledger!Next
    BY <2>5, <2>6 DEF Persist, Goto, Terminal, Ledger!Next, Ledger!Publish
  <2>7. ASSUME NEW q \in Requests, FailAnalysis(q) PROVE [Ledger!Next]_Ledger!vars
    <3>1. CASE StillRunning(q)
      BY <2>5, <2>7, <3>1
         DEF FailAnalysis, Terminal, Ledger!Next, Ledger!Abandon
    <3>2. CASE ~StillRunning(q)
      BY <2>1, <2>7, <3>2 DEF FailAnalysis
    <3> QED
      BY <3>1, <3>2
  <2> QED
    BY <2>1, <2>2, <2>3, <2>4, <2>6, <2>7 DEF Next, Work
<1> QED
  BY <1>1, <1>2, Invariance, PTL DEF Spec, ImplementsLedger, Ledger!Spec
==============================================================================
