----------------------------- MODULE RulesProofs -----------------------------
(***************************************************************************)
(* Proofs about the rules that decide, each over its own inputs:           *)
(* structured calls of the model and their record (ModelTasks), the        *)
(* merging of risks (RiskMerging), the routing of a question               *)
(* (RoutingPolicy), the benchmark of the risk analysis and its gate        *)
(* (BenchmarkScoring), the tuning of the two governed thresholds           *)
(* (ThresholdTuning), due dates (TimeRules), the grading of an answer      *)
(* (AnswerGrading), and the loop of evaluation, gate and bad cases         *)
(* (RegressionLoop). Each component has its own variables and its own      *)
(* specification; nothing is assumed of the others.                        *)
(***************************************************************************)
EXTENDS ModelTasks, RiskMerging, RoutingPolicy, BenchmarkScoring, ThresholdTuning, TimeRules,
        AnswerGrading, RegressionLoop, FiniteSetTheorems, SequenceTheorems,
        WellFoundedInduction, TLAPS

\* A least number.
LEMMA LeastNumber ==
    ASSUME NEW S \in SUBSET Nat, S # {}
    PROVE  \E m \in S : \A x \in S : m <= x
<1> DEFINE less == OpToRel(<, Nat)
<1>1. IsWellFoundedOn(less, Nat)
  BY NatLessThanWellFounded
<1> HIDE DEF less
<1>2. PICK m \in S : \A x \in S : ~ (<<x, m>> \in less)
  BY <1>1, WFMin
<1>3. \A x \in S : ~ (x < m)
  BY <1>2 DEF less, OpToRel
<1> QED
  BY <1>3

-----------------------------------------------------------------------------
(* Structured calls, for any analyses and any limit of the record.         *)
(*                                                                         *)
(* Every attempt adds to one side of both equations what it adds to the    *)
(* other; a caller is waiting for its retry exactly as long as the retry   *)
(* has been announced and not been made.                                   *)

\* The attempts of a record that belong to a kind of attempts.
Of(t, kind) == {i \in DOMAIN t : t[i] \in kind}

Firsts         == {a \in Attempt : a.number = 1}
FirstSuccesses == {a \in Attempt : a.number = 1 /\ a.result \in Success}
Retries        == {a \in Attempt : a.retry}
RetrySuccesses == {a \in Attempt : a.number = 2 /\ a.result \in Success}
Failures       == {a \in Attempt : a.result = "FAILURE" /\ a.terminal}

Waiting == {c \in Callers : call[c] = "second"}

\* One attempt more is one more of its kind.
LEMMA OneMore ==
    ASSUME NEW t \in Seq(Attempt), NEW a \in Attempt, NEW kind
    PROVE  /\ Cardinality(Of(Append(t, a), kind)) =
                Cardinality(Of(t, kind)) + (IF a \in kind THEN 1 ELSE 0)
           /\ Cardinality(Of(t, kind)) \in Nat
<1> DEFINE more == Append(t, a)
           n    == Len(t) + 1
<1>1. /\ DOMAIN t = 1 .. Len(t) /\ Len(t) \in Nat /\ n \notin DOMAIN t
      /\ DOMAIN more = DOMAIN t \cup {n} /\ more[n] = a
      /\ \A i \in DOMAIN t : more[i] = t[i]
  BY AppendProperties
<1>2. IsFiniteSet(Of(t, kind)) /\ Cardinality(Of(t, kind)) \in Nat
  <2>1. IsFiniteSet(DOMAIN t)
    BY <1>1, FS_Interval
  <2>2. Of(t, kind) \in SUBSET DOMAIN t
    BY DEF Of
  <2> QED
    BY <2>1, <2>2, FS_Subset, FS_CardinalityType
<1> HIDE DEF more, n
<1>3. CASE a \in kind
  <2>1. Of(more, kind) = Of(t, kind) \cup {n} /\ n \notin Of(t, kind)
    BY <1>1, <1>3 DEF Of
  <2> QED
    BY <1>2, <1>3, <2>1, FS_AddElement DEF more
<1>4. CASE a \notin kind
  <2>1. Of(more, kind) = Of(t, kind)
    BY <1>1, <1>4 DEF Of
  <2> QED
    BY <1>2, <1>4, <2>1 DEF more
<1> QED
  BY <1>3, <1>4

\* The telemetry counts by kind.
LEMMA SnapshotCounts ==
    ASSUME telemetry \in Seq(Attempt)
    PROVE  /\ Snapshot.calls = Cardinality(Of(telemetry, Firsts))
           /\ Snapshot.attempts = Len(telemetry)
           /\ Snapshot.firstSuccesses = Cardinality(Of(telemetry, FirstSuccesses))
           /\ Snapshot.retries = Cardinality(Of(telemetry, Retries))
           /\ Snapshot.retrySuccesses = Cardinality(Of(telemetry, RetrySuccesses))
           /\ Snapshot.failures = Cardinality(Of(telemetry, Failures))
<1>1. \A i \in DOMAIN telemetry : telemetry[i] \in Attempt
  BY ElementOfSeq
<1>2. /\ {i \in DOMAIN telemetry : telemetry[i].number = 1} = Of(telemetry, Firsts)
      /\ {i \in DOMAIN telemetry : telemetry[i].number = 1 /\ telemetry[i].result \in Success}
           = Of(telemetry, FirstSuccesses)
      /\ {i \in DOMAIN telemetry : telemetry[i].retry} = Of(telemetry, Retries)
      /\ {i \in DOMAIN telemetry : telemetry[i].number = 2 /\ telemetry[i].result \in Success}
           = Of(telemetry, RetrySuccesses)
      /\ {i \in DOMAIN telemetry : telemetry[i].result = "FAILURE" /\ telemetry[i].terminal}
           = Of(telemetry, Failures)
  BY <1>1 DEF Of, Firsts, FirstSuccesses, Retries, RetrySuccesses, Failures
<1> QED
  BY <1>2 DEF Snapshot, Count

\* The calls in the record add up.
Balanced(t, waiting) ==
    /\ Cardinality(Of(t, Firsts)) =
         Cardinality(Of(t, FirstSuccesses)) + Cardinality(Of(t, RetrySuccesses))
         + Cardinality(Of(t, Failures)) + waiting
    /\ Len(t) = Cardinality(Of(t, Firsts)) + Cardinality(Of(t, Retries)) - waiting

LEMMA CallsAddUpAre ==
    telemetry \in Seq(Attempt) =>
        (CallsAddUp <=> (whole => Balanced(telemetry, Cardinality(Waiting))))
BY SnapshotCounts DEF CallsAddUp, Balanced, Waiting

LEMMA CallsAddUpArePrimed ==
    telemetry' \in Seq(Attempt) =>
        (CallsAddUp' <=> (whole' => Balanced(telemetry', Cardinality(Waiting'))))
<1>1. (telemetry \in Seq(Attempt) =>
         (CallsAddUp <=> (whole => Balanced(telemetry, Cardinality(Waiting)))))'
  BY CallsAddUpAre, PTL
<1> QED
  BY <1>1

\* What the attempt that was made and the callers that wait are worth to the equations.
LEMMA BalanceKept ==
    ASSUME NEW t \in Seq(Attempt), NEW a \in Attempt, NEW w \in Nat, NEW v \in Nat,
           Balanced(t, w),
           \/ a.number = 1 /\ ~a.retry /\ a.result \in Success /\ v = w
           \/ a.number = 1 /\ ~a.retry /\ a.result = "FAILURE" /\ a.terminal /\ v = w
           \/ a.number = 1 /\ a.retry /\ a.result = "FAILURE" /\ ~a.terminal /\ v = w + 1
           \/ a.number = 2 /\ ~a.retry /\ a.result \in Success /\ v = w - 1
           \/ a.number = 2 /\ ~a.retry /\ a.result = "FAILURE" /\ a.terminal /\ v = w - 1
    PROVE  Balanced(Append(t, a), v)
<1>1. Len(Append(t, a)) = Len(t) + 1 /\ Len(t) \in Nat
  BY AppendProperties
<1>2. \A kind : /\ Cardinality(Of(Append(t, a), kind)) =
                     Cardinality(Of(t, kind)) + (IF a \in kind THEN 1 ELSE 0)
                /\ Cardinality(Of(t, kind)) \in Nat
  BY OneMore
<1>3. /\ a \in Firsts <=> a.number = 1
      /\ a \in FirstSuccesses <=> a.number = 1 /\ a.result \in Success
      /\ a \in Retries <=> a.retry
      /\ a \in RetrySuccesses <=> a.number = 2 /\ a.result \in Success
      /\ a \in Failures <=> a.result = "FAILURE" /\ a.terminal
  BY DEF Firsts, FirstSuccesses, Retries, RetrySuccesses, Failures
<1>4. "FAILURE" \notin Success
  BY DEF Success
<1> DEFINE N(kind) == Cardinality(Of(t, kind))
           M(kind) == Cardinality(Of(Append(t, a), kind))
<1>5. \A kind : N(kind) \in Nat /\ M(kind) = N(kind) + (IF a \in kind THEN 1 ELSE 0)
  BY <1>2
<1>6. /\ N(Firsts) = N(FirstSuccesses) + N(RetrySuccesses) + N(Failures) + w
      /\ Len(t) = N(Firsts) + N(Retries) - w
  BY DEF Balanced
<1> HIDE DEF N, M
<1>7. PICK first \in {0, 1}, soon \in {0, 1}, retry \in {0, 1}, late \in {0, 1}, failed \in {0, 1} :
         /\ M(Firsts) = N(Firsts) + first /\ M(FirstSuccesses) = N(FirstSuccesses) + soon
         /\ M(Retries) = N(Retries) + retry /\ M(RetrySuccesses) = N(RetrySuccesses) + late
         /\ M(Failures) = N(Failures) + failed
         /\ first = soon + late + failed + v - w
         /\ 1 = first + retry + w - v
  <2> DEFINE One(kind) == IF a \in kind THEN 1 ELSE 0
  <2>1. /\ One(Firsts) \in {0, 1} /\ One(FirstSuccesses) \in {0, 1} /\ One(Retries) \in {0, 1}
        /\ One(RetrySuccesses) \in {0, 1} /\ One(Failures) \in {0, 1}
    OBVIOUS
  <2>2. /\ One(Firsts) = One(FirstSuccesses) + One(RetrySuccesses) + One(Failures) + v - w
        /\ 1 = One(Firsts) + One(Retries) + w - v
    BY <1>3, <1>4
  <2> QED
    BY <1>5, <2>1, <2>2
<1> DEFINE n  == Len(t)
           c  == N(Firsts)
           s  == N(FirstSuccesses)
           l  == N(RetrySuccesses)
           f  == N(Failures)
           r  == N(Retries)
<1>8. c \in Nat /\ s \in Nat /\ l \in Nat /\ f \in Nat /\ r \in Nat /\ n \in Nat
  BY <1>1, <1>5
<1>9. c = s + l + f + w /\ n = c + r - w
  BY <1>6
<1>10. /\ M(Firsts) = c + first /\ M(FirstSuccesses) = s + soon /\ M(Retries) = r + retry
       /\ M(RetrySuccesses) = l + late /\ M(Failures) = f + failed
       /\ Len(Append(t, a)) = n + 1
  BY <1>1, <1>7
<1> HIDE DEF n, c, s, l, f, r
<1>11. /\ c + first = (s + soon) + (l + late) + (f + failed) + v
       /\ n + 1 = (c + first) + (r + retry) - v
  BY <1>7, <1>8, <1>9
<1>12. /\ M(Firsts) = M(FirstSuccesses) + M(RetrySuccesses) + M(Failures) + v
       /\ Len(Append(t, a)) = M(Firsts) + M(Retries) - v
  BY <1>10, <1>11
<1> QED
  BY <1>12 DEF Balanced, M

\* A caller begins to wait, or stops.
LEMMA WaitingChanges ==
    ASSUME TasksTypeOK, NEW c \in Callers, NEW p, call' = [call EXCEPT ![c] = p]
    PROVE  /\ Cardinality(Waiting) \in Nat /\ Cardinality(Waiting') \in Nat
           /\ Cardinality(Waiting') = Cardinality(Waiting)
                - (IF call[c] = "second" THEN 1 ELSE 0) + (IF p = "second" THEN 1 ELSE 0)
<1> DEFINE others == Waiting \ {c}
<1>1. IsFiniteSet(Waiting) /\ IsFiniteSet(others) /\ c \notin others
      /\ Cardinality(Waiting) \in Nat /\ Cardinality(others) \in Nat
  <2>1. Waiting \in SUBSET Callers /\ others \in SUBSET Callers
    BY DEF Waiting
  <2> QED
    BY <2>1, TasksAssumption, FS_Subset, FS_CardinalityType
<1>2. Waiting' = IF p = "second" THEN others \cup {c} ELSE others
  BY DEF Waiting, TasksTypeOK
<1>3. Cardinality(others) = Cardinality(Waiting) - (IF call[c] = "second" THEN 1 ELSE 0)
  <2>1. c \in Waiting <=> call[c] = "second"
    BY DEF Waiting
  <2> QED
    BY <1>1, <2>1, FS_RemoveElement
<1>4. Cardinality(others \cup {c}) = Cardinality(others) + 1
  BY <1>1, FS_AddElement
<1> HIDE DEF others
<1> QED
  BY <1>1, <1>2, <1>3, <1>4

\* An attempt goes into the record.
LEMMA RecordStep ==
    ASSUME TasksTypeOK, CallsAddUp, NEW c \in Callers, NEW p, NEW a \in Attempt, Record(a),
           call' = [call EXCEPT ![c] = p],
           call[c] \in {"first", "second"}, a.number = Number(c),
           \/ ~a.retry /\ a.result \in Success /\ p # "second"
           \/ ~a.retry /\ a.result = "FAILURE" /\ a.terminal /\ p # "second"
           \/ a.retry /\ a.result = "FAILURE" /\ ~a.terminal /\ p = "second" /\ call[c] = "first"
    PROVE  /\ telemetry' \in Seq(Attempt) /\ Len(telemetry') <= TelemetryLimit
           /\ whole' \in BOOLEAN /\ CallsAddUp'
<1> DEFINE all == Append(telemetry, a)
<1>1. /\ telemetry \in Seq(Attempt) /\ Len(telemetry) \in Nat
      /\ Len(telemetry) <= TelemetryLimit /\ TelemetryLimit \in Nat
  BY TasksAssumption, LenProperties DEF TasksTypeOK
<1>2. /\ all \in Seq(Attempt) /\ Len(all) = Len(telemetry) + 1 /\ all # <<>>
  BY <1>1, AppendProperties
<1>3. Tail(all) \in Seq(Attempt) /\ Len(Tail(all)) = Len(telemetry)
  BY <1>1, <1>2, HeadTailProperties
<1>4. /\ telemetry' = IF Len(all) > TelemetryLimit THEN Tail(all) ELSE all
      /\ whole' = (whole /\ Len(telemetry) < TelemetryLimit)
  BY DEF Record
<1> HIDE DEF all
<1>5. telemetry' \in Seq(Attempt) /\ Len(telemetry') <= TelemetryLimit
  BY <1>1, <1>2, <1>3, <1>4
<1>6. whole' \in BOOLEAN
  BY <1>4
<1>7. ASSUME whole' PROVE Balanced(telemetry', Cardinality(Waiting'))
  <2>1. whole /\ Len(telemetry) < TelemetryLimit
    BY <1>4, <1>7
  <2>2. telemetry' = all
    BY <1>1, <1>2, <1>4, <2>1
  <2>3. Balanced(telemetry, Cardinality(Waiting))
    BY <1>1, <2>1, CallsAddUpAre
  <2>4. /\ Cardinality(Waiting) \in Nat /\ Cardinality(Waiting') \in Nat
        /\ Cardinality(Waiting') = Cardinality(Waiting)
             - (IF call[c] = "second" THEN 1 ELSE 0) + (IF p = "second" THEN 1 ELSE 0)
    BY WaitingChanges
  <2>5. /\ a.number = 1 => call[c] = "first"
        /\ a.number = 2 => call[c] = "second"
        /\ a.number \in {1, 2}
    BY DEF Number, Attempt
  <2> QED
    BY <1>1, <2>2, <2>3, <2>4, <2>5, BalanceKept DEF all
<1> QED
  BY <1>5, <1>6, <1>7, CallsAddUpArePrimed

LEMMA InvokeStep ==
    ASSUME CallsAreAccounted, NEW c \in Callers, Invoke(c)
    PROVE  CallsAreAccounted'
<1>1. TasksTypeOK /\ CallsAddUp /\ AcceptedIsUnambiguous
  BY DEF CallsAreAccounted
<1>2. TasksTypeOK' /\ AcceptedIsUnambiguous'
  BY <1>1 DEF TasksTypeOK, AcceptedIsUnambiguous, Invoke
<1>3. Cardinality(Waiting') = Cardinality(Waiting)
  <2>1. call' = [call EXCEPT ![c] = "first"] /\ call[c] # "second"
    BY DEF Invoke
  <2> QED
    <3>1. /\ Cardinality(Waiting) \in Nat
          /\ Cardinality(Waiting') = Cardinality(Waiting)
               - (IF call[c] = "second" THEN 1 ELSE 0) + (IF "first" = "second" THEN 1 ELSE 0)
      BY <1>1, <2>1, WaitingChanges
    <3> QED
      BY <2>1, <3>1
<1>4. telemetry' = telemetry /\ whole' = whole /\ telemetry \in Seq(Attempt)
  BY <1>1 DEF Invoke, TasksTypeOK
<1>5. CallsAddUp'
  BY <1>1, <1>3, <1>4, CallsAddUpAre, CallsAddUpArePrimed
<1> QED
  BY <1>2, <1>5 DEF CallsAreAccounted

\* Every way to a success leads through a payload that fits an unambiguous call.
LEMMA SuccessIsUnambiguous ==
    ASSUME NEW r \in Responses, NormalizeResponse(r) \in Success
    PROVE  /\ r.fits /\ r.tool # "several" /\ r.named
           /\ ~r.parsed /\ r.tool = "invalid" => r.args = "braces"
<1>1. /\ r \in Response
      /\ ~r.mapping => r.tool = "none" /\ r.named
      /\ r.tool = "invalid" => r.args \in Arguments \ {"parsed"}
  BY DEF Responses, Sensible, Response
<1>2. Validated(r) \in Success => r.fits
  BY DEF Validated, Success
<1>3. r.tool = "invalid" /\ NormalizeInvalidCall(r) \in Success => r.fits /\ r.args = "braces"
  <2> SUFFICES ASSUME r.tool = "invalid", ~(r.fits /\ r.args = "braces")
               PROVE  NormalizeInvalidCall(r) \notin Success
    OBVIOUS
  <2> QED
    BY <1>1 DEF NormalizeInvalidCall, Success, Arguments
<1> QED
  BY <1>1, <1>2, <1>3 DEF NormalizeResponse, Success

LEMMA RespondStep ==
    ASSUME CallsAreAccounted, NEW c \in Callers, NEW r \in Responses, Respond(c, r)
    PROVE  CallsAreAccounted'
<1> DEFINE outcome == NormalizeResponse(r)
           retry   == call[c] = "first" /\ outcome \in Retryable
           next    == IF outcome \in Success THEN "returned" ELSE IF retry THEN "second" ELSE "raised"
           a       == [number |-> Number(c), retry |-> retry,
                       result |-> IF outcome \in Success THEN outcome ELSE "FAILURE",
                       terminal |-> outcome \notin Success /\ ~retry]
<1>1. TasksTypeOK /\ CallsAddUp /\ AcceptedIsUnambiguous
  BY DEF CallsAreAccounted
<1>2. /\ call[c] \in {"first", "second"} /\ call' = [call EXCEPT ![c] = next]
      /\ accepted' = [accepted EXCEPT ![c] = IF outcome \in Success THEN r ELSE None]
      /\ Record(a)
  BY DEF Respond, Calling
<1>3. Success \cap Retryable = {} /\ Success \subseteq Outcomes /\ "FAILURE" \in Outcomes
  BY DEF Success, Retryable, Outcomes
<1>4. /\ a \in Attempt /\ a.number = Number(c) /\ a.retry = retry
      /\ a.result = (IF outcome \in Success THEN outcome ELSE "FAILURE")
      /\ a.terminal = (outcome \notin Success /\ ~retry)
  <2>1. retry \in BOOLEAN /\ (outcome \notin Success /\ ~retry) \in BOOLEAN
    OBVIOUS
  <2>2. Number(c) \in {1, 2}
    BY DEF Number
  <2>3. (IF outcome \in Success THEN outcome ELSE "FAILURE") \in Outcomes
    BY <1>3
  <2> QED
    BY <2>1, <2>2, <2>3 DEF Attempt
<1>5. next \in {"second", "returned", "raised"} /\ (next = "second" <=> retry /\ outcome \notin Success)
  OBVIOUS
<1>6. \/ ~a.retry /\ a.result \in Success /\ next # "second"
      \/ ~a.retry /\ a.result = "FAILURE" /\ a.terminal /\ next # "second"
      \/ a.retry /\ a.result = "FAILURE" /\ ~a.terminal /\ next = "second" /\ call[c] = "first"
  BY <1>3, <1>4, <1>5
<1>7. /\ telemetry' \in Seq(Attempt) /\ Len(telemetry') <= TelemetryLimit
      /\ whole' \in BOOLEAN /\ CallsAddUp'
  <2> HIDE DEF next, a
  <2> QED
    BY <1>1, <1>2, <1>4, <1>6, RecordStep
<1>8. TasksTypeOK'
  BY <1>1, <1>2, <1>5, <1>7 DEF TasksTypeOK
<1>9. AcceptedIsUnambiguous'
  <2> SUFFICES ASSUME NEW d \in Callers, accepted'[d] # None
               PROVE  /\ accepted'[d].fits
                      /\ accepted'[d].tool # "several" /\ accepted'[d].named
                      /\ ~accepted'[d].parsed /\ accepted'[d].tool = "invalid" =>
                           accepted'[d].args = "braces"
    BY DEF AcceptedIsUnambiguous
  <2>1. CASE d = c
    <3>1. accepted'[d] = r /\ outcome \in Success
      BY <1>1, <1>2, <2>1 DEF TasksTypeOK
    <3> QED
      BY <3>1, SuccessIsUnambiguous
  <2>2. CASE d # c
    <3>1. accepted'[d] = accepted[d]
      BY <1>1, <1>2, <2>2 DEF TasksTypeOK
    <3> QED
      BY <1>1, <3>1 DEF AcceptedIsUnambiguous
  <2> QED
    BY <2>1, <2>2
<1> QED
  BY <1>7, <1>8, <1>9 DEF CallsAreAccounted

LEMMA ProviderFailsStep ==
    ASSUME CallsAreAccounted, NEW c \in Callers, ProviderFails(c)
    PROVE  CallsAreAccounted'
<1> DEFINE a == [number |-> Number(c), retry |-> FALSE, result |-> "FAILURE", terminal |-> TRUE]
<1>1. TasksTypeOK /\ CallsAddUp /\ AcceptedIsUnambiguous
  BY DEF CallsAreAccounted
<1>2. /\ call[c] \in {"first", "second"} /\ call' = [call EXCEPT ![c] = "raised"]
      /\ accepted' = accepted /\ Record(a)
  BY DEF ProviderFails, Calling
<1>3. /\ a \in Attempt /\ a.number = Number(c) /\ ~a.retry /\ a.result = "FAILURE" /\ a.terminal
  BY DEF Attempt, Number, Outcomes
<1> HIDE DEF a
<1>4. /\ telemetry' \in Seq(Attempt) /\ Len(telemetry') <= TelemetryLimit
      /\ whole' \in BOOLEAN /\ CallsAddUp'
  BY <1>1, <1>2, <1>3, RecordStep
<1>5. TasksTypeOK' /\ AcceptedIsUnambiguous'
  BY <1>1, <1>2, <1>4 DEF TasksTypeOK, AcceptedIsUnambiguous
<1> QED
  BY <1>4, <1>5 DEF CallsAreAccounted

LEMMA EmptyIsBalanced == <<>> \in Seq(Attempt) /\ Balanced(<<>>, 0)
<1>1. \A kind : Of(<<>>, kind) = {}
  BY DEF Of
<1>2. \A kind : Cardinality(Of(<<>>, kind)) = 0
  BY <1>1, FS_EmptySet
<1>3. <<>> \in Seq(Attempt) /\ Len(<<>>) = 0
  OBVIOUS
<1> QED
  BY <1>2, <1>3 DEF Balanced

LEMMA ClearStep ==
    ASSUME CallsAreAccounted, ClearTelemetry
    PROVE  CallsAreAccounted'
<1>1. /\ telemetry' = <<>> /\ whole' = (\A c \in Callers : call[c] # "second")
      /\ call' = call /\ accepted' = accepted
  BY DEF ClearTelemetry
<1>2. whole' \in BOOLEAN
  BY <1>1
<1>3. TasksTypeOK' /\ AcceptedIsUnambiguous'
  BY <1>1, <1>2, TasksAssumption DEF CallsAreAccounted, TasksTypeOK, AcceptedIsUnambiguous
<1>4. whole' => Waiting' = {}
  BY <1>1 DEF Waiting
<1>5. CallsAddUp'
  BY <1>1, <1>4, EmptyIsBalanced, FS_EmptySet, CallsAddUpArePrimed
<1> QED
  BY <1>3, <1>5 DEF CallsAreAccounted

\* For any analyses that share the runner, in whatever order their attempts are made, and any
\* limit of the record: as long as it has lost nothing every call is accounted for once, and
\* only an unambiguous call of the right schema is accepted (structured_tasks.py).
THEOREM CallsStayAccounted == TasksSpec => []CallsAreAccounted
<1>1. TasksInit => CallsAreAccounted
  <2> SUFFICES ASSUME TasksInit PROVE CallsAreAccounted
    OBVIOUS
  <2>1. TasksTypeOK /\ AcceptedIsUnambiguous
    BY TasksAssumption DEF TasksInit, TasksTypeOK, AcceptedIsUnambiguous
  <2>2. Waiting = {} /\ telemetry = <<>>
    BY DEF TasksInit, Waiting
  <2>3. CallsAddUp
    BY <2>2, EmptyIsBalanced, FS_EmptySet, CallsAddUpAre
  <2> QED
    BY <2>1, <2>3 DEF CallsAreAccounted
<1>2. CallsAreAccounted /\ [TasksNext]_tasksVars => CallsAreAccounted'
  <2> SUFFICES ASSUME CallsAreAccounted, [TasksNext]_tasksVars PROVE CallsAreAccounted'
    OBVIOUS
  <2>1. CASE UNCHANGED tasksVars
    BY <2>1 DEF tasksVars, CallsAreAccounted, TasksTypeOK, CallsAddUp, Snapshot, Count,
                AcceptedIsUnambiguous
  <2> QED
    BY <2>1, InvokeStep, RespondStep, ProviderFailsStep, ClearStep DEF TasksNext
<1> QED
  BY <1>1, <1>2, PTL DEF TasksSpec

-----------------------------------------------------------------------------
(* The merging of risks, for any obligations, chunks, keys and scores.     *)
(*                                                                         *)
(* Taking a risk keeps what is known of every fingerprint: the level is    *)
(* the worst reported, and evidence that makes a model's risk weighty came *)
(* from a chunk it was given, whichever of two reports gave it.            *)

\* A risk that only the model saw is high, or needs no review, on evidence only.
Weighty(risk) ==
    risk.source = "llm" /\ (risk.level >= HighLevel \/ ~risk.review) => risk.evidence \in Retrieved

\* Types, and a fingerprint's level; a risk of the model names evidence it was given or none.
MergedInv ==
    \A f \in Fingerprint :
        IF merged[f] = None THEN worst[f] = 0
        ELSE /\ merged[f] \in Risk
             /\ merged[f].level = worst[f]
             /\ merged[f].evidence \in Retrieved \cup {None}
             /\ Weighty(merged[f])

MergingInv == MergingTypeOK /\ MergedInv /\ LevelsShowTheWorst

\* The greatest of some levels.
LEMMA MaxOfLevels ==
    ASSUME NEW S \in SUBSET Levels, S # {}
    PROVE  Max(S) \in S /\ \A x \in S : Max(S) >= x
<1>1. \E m \in S : \A x \in S : m >= x
  <2>1. S \subseteq {1, 2, 3, 4}
    BY DEF Levels, LowLevel, CriticalLevel
  <2>2. CASE 4 \in S
    BY <2>1, <2>2
  <2>3. CASE 4 \notin S /\ 3 \in S
    BY <2>1, <2>3
  <2>4. CASE 4 \notin S /\ 3 \notin S /\ 2 \in S
    BY <2>1, <2>4
  <2>5. CASE 4 \notin S /\ 3 \notin S /\ 2 \notin S
    <3>1. PICK x \in S : TRUE
      OBVIOUS
    <3>2. \A y \in S : y = 1
      BY <2>1, <2>5
    <3> QED
      BY <3>1, <3>2
  <2> QED
    BY <2>2, <2>3, <2>4, <2>5
<1> QED
  BY <1>1 DEF Max

LEMMA NormalizeLevelIsALevel ==
    ASSUME NEW s \in Nat, NEW l \in Nat, NEW u \in Nat
    PROVE  NormalizeLevel(s, l, u) \in Levels
<1>1. Within(s) \in 1 .. 4 /\ Within(l) \in 1 .. 4 /\ Within(u) \in 1 .. 4
  BY DEF Within, Larger, Smaller
<1> DEFINE sum == Within(s) + Within(l) + Within(u)
<1>2. sum \in Nat
  BY <1>1
<1> HIDE DEF sum
<1>3. (CASE sum >= 11 -> CriticalLevel
         [] sum \in 8..10 -> HighLevel
         [] sum \in 5..7 -> MediumLevel
         [] OTHER -> LowLevel) \in Levels
  BY <1>2 DEF Levels, LowLevel, MediumLevel, HighLevel, CriticalLevel
<1> QED
  BY <1>3 DEF NormalizeLevel, sum

LEMMA FingerprintOfIsOne ==
    ASSUME NEW o \in Obligations \cup {None}, NEW c \in Chunks \cup {None}, NEW n \in Names
    PROVE  FingerprintOf(o, c, n) \in Fingerprint
BY DEF FingerprintOf, Fingerprint

\* What two reports make of a risk is at least as careful as either.
LEMMA MergeIsCautious ==
    ASSUME NEW a \in Risk, NEW b \in Risk, Weighty(a), Weighty(b),
           a.evidence \in Retrieved \cup {None}, b.evidence \in Retrieved \cup {None}
    PROVE  /\ Merge(a, b) \in Risk
           /\ Merge(a, b).level = Larger(a.level, b.level)
           /\ Merge(a, b).evidence \in Retrieved \cup {None}
           /\ Weighty(Merge(a, b))
<1>1. /\ a.level \in Levels /\ b.level \in Levels /\ Levels \subseteq Int
      /\ a.review \in BOOLEAN /\ b.review \in BOOLEAN
      /\ a.source \in {"rule", "llm", "hybrid"} /\ b.source \in {"rule", "llm", "hybrid"}
      /\ a.evidence \in Chunks \cup {None} /\ b.evidence \in Chunks \cup {None}
  BY DEF Risk, Levels, LowLevel, CriticalLevel
<1> DEFINE m == Merge(a, b)
<1>2. /\ m.level = (IF b.level > a.level THEN b.level ELSE a.level)
      /\ m.source = (IF a.source # b.source THEN "hybrid" ELSE a.source)
      /\ m.evidence = (LET higher == IF b.level > a.level THEN b ELSE a
                       IN  IF higher.evidence # None THEN higher.evidence
                           ELSE IF a.evidence # None THEN a.evidence ELSE b.evidence)
      /\ m.review = (a.review /\ b.review)
  BY DEF Merge
<1>3. m = [level |-> m.level, source |-> m.source, evidence |-> m.evidence, review |-> m.review]
  BY DEF Merge
<1> HIDE DEF m
<1>4. /\ m.level \in Levels /\ m.source \in {"rule", "llm", "hybrid"}
      /\ m.evidence \in (Chunks \cup {None}) /\ m.evidence \in Retrieved \cup {None}
  BY <1>1, <1>2
<1>5. m.review \in BOOLEAN
  BY <1>2
<1>6. m \in Risk
  BY <1>3, <1>4, <1>5 DEF Risk
<1>7. m.level = Larger(a.level, b.level)
  <2>1. a.level \in Int /\ b.level \in Int
    BY <1>1
  <2> QED
    BY <1>2, <2>1 DEF Larger
<1>8. Weighty(m)
  <2> SUFFICES ASSUME m.source = "llm", m.level >= HighLevel \/ ~m.review
               PROVE  m.evidence \in Retrieved
    BY DEF Weighty
  <2>1. a.source = "llm" /\ b.source = "llm"
    BY <1>2
  <2>2. HighLevel \in Int
    BY DEF HighLevel
  <2>3. a.evidence \in Retrieved \/ b.evidence \in Retrieved
    <3>1. CASE m.level >= HighLevel
      BY <1>1, <1>2, <2>1, <2>2, <3>1 DEF Weighty
    <3>2. CASE ~m.review
      BY <1>2, <2>1, <3>2 DEF Weighty
    <3> QED
      BY <3>1, <3>2
  <2> QED
    BY <1>2, <2>3
<1> QED
  BY <1>4, <1>6, <1>7, <1>8 DEF m

\* A risk is taken up.
LEMMA TakeStep ==
    ASSUME MergingTypeOK, MergedInv, NEW f \in Fingerprint, NEW risk \in Risk, Take(f, risk),
           Weighty(risk), risk.evidence \in Retrieved \cup {None}
    PROVE  /\ merged' \in [Fingerprint -> Risk \cup {None}]
           /\ worst' \in [Fingerprint -> 0 .. CriticalLevel]
           /\ MergedInv'
<1>1. /\ merged \in [Fingerprint -> Risk \cup {None}] /\ worst \in [Fingerprint -> 0 .. CriticalLevel]
      /\ merged' = [merged EXCEPT ![f] = IF @ = None THEN risk ELSE Merge(@, risk)]
      /\ worst' = [worst EXCEPT ![f] = Larger(@, risk.level)]
  BY DEF MergingTypeOK, Take
<1>2. risk.level \in 1 .. CriticalLevel /\ CriticalLevel \in Nat
  BY DEF Risk, Levels, LowLevel, CriticalLevel
<1>3. \A g \in Fingerprint : g # f => merged'[g] = merged[g] /\ worst'[g] = worst[g]
  BY <1>1
<1>4. /\ merged'[f] \in Risk /\ merged'[f].level = worst'[f]
      /\ merged'[f].evidence \in Retrieved \cup {None} /\ Weighty(merged'[f])
      /\ worst'[f] \in 0 .. CriticalLevel
  <2>1. worst'[f] = Larger(worst[f], risk.level) /\ worst[f] \in 0 .. CriticalLevel
    BY <1>1
  <2>2. CASE merged[f] = None
    <3>1. merged'[f] = risk /\ worst[f] = 0
      BY <1>1, <2>2 DEF MergedInv
    <3> QED
      BY <1>2, <2>1, <3>1 DEF Larger
  <2>3. CASE merged[f] # None
    <3>1. /\ merged'[f] = Merge(merged[f], risk) /\ merged[f] \in Risk
          /\ merged[f].level = worst[f]
          /\ merged[f].evidence \in Retrieved \cup {None} /\ Weighty(merged[f])
      BY <1>1, <2>3 DEF MergedInv
    <3>2. /\ merged'[f] \in Risk /\ merged'[f].level = Larger(worst[f], risk.level)
          /\ merged'[f].evidence \in Retrieved \cup {None} /\ Weighty(merged'[f])
      BY <3>1, MergeIsCautious
    <3> QED
      BY <1>2, <2>1, <3>2 DEF Larger
  <2> QED
    BY <2>2, <2>3
<1>5. merged' \in [Fingerprint -> Risk \cup {None}]
  BY <1>1, <1>3, <1>4
<1>6. worst' \in [Fingerprint -> 0 .. CriticalLevel]
  BY <1>1, <1>3, <1>4
<1>7. ASSUME NEW g \in Fingerprint
      PROVE  IF merged'[g] = None THEN worst'[g] = 0
             ELSE /\ merged'[g] \in Risk /\ merged'[g].level = worst'[g]
                  /\ merged'[g].evidence \in Retrieved \cup {None} /\ Weighty(merged'[g])
  <2>1. CASE g = f
    <3>1. merged'[f] # None
      BY <1>4, NoneIsNoRisk
    <3> QED
      BY <1>4, <2>1, <3>1
  <2>2. CASE g # f
    BY <1>3, <2>2 DEF MergedInv
  <2> QED
    BY <2>1, <2>2
<1> QED
  BY <1>5, <1>6, <1>7 DEF MergedInv

\* A rule's risk carries the evidence of its obligation and is never the model's alone.
LEMMA RuleRiskIsSound ==
    ASSUME NEW level \in Levels, NEW chunk \in Retrieved \cup {None}
    PROVE  /\ RuleRisk(level, chunk) \in Risk /\ Weighty(RuleRisk(level, chunk))
           /\ RuleRisk(level, chunk).evidence \in Retrieved \cup {None}
BY MergingAssumption DEF RuleRisk, Risk, Weighty

LEMMA SemanticRiskIsSound ==
    ASSUME NEW level \in Levels, NEW shown \in Retrieved \cup {None}, NEW review \in BOOLEAN
    PROVE  /\ SemanticRisk(level, shown, review) \in Risk
           /\ Weighty(SemanticRisk(level, shown, review))
           /\ SemanticRisk(level, shown, review).evidence \in Retrieved \cup {None}
<1> DEFINE risk == SemanticRisk(level, shown, review)
<1>1. /\ risk.level = (IF shown = None THEN Smaller(level, MediumLevel) ELSE level)
      /\ risk.source = "llm" /\ risk.evidence = shown
      /\ risk.review = (review \/ shown = None)
      /\ risk = [level |-> risk.level, source |-> "llm", evidence |-> shown,
                 review |-> risk.review]
  BY DEF SemanticRisk
<1> HIDE DEF risk
<1>2. level \in Int /\ MediumLevel = 2 /\ HighLevel = 3 /\ Levels = 1 .. 4
  BY DEF Levels, LowLevel, CriticalLevel, MediumLevel, HighLevel
<1>3. risk.level \in Levels
  BY <1>1, <1>2 DEF Smaller
<1>4. shown \in Chunks \cup {None}
  BY MergingAssumption
<1>5. risk \in Risk
  <2>1. (review \/ shown = None) \in BOOLEAN
    OBVIOUS
  <2> QED
    BY <1>1, <1>3, <1>4, <2>1 DEF Risk
<1>6. shown = None => risk.level <= 2 /\ risk.review
  <2>1. shown = None => risk.level = Smaller(level, MediumLevel)
    BY <1>1
  <2>2. Smaller(level, MediumLevel) <= 2
    BY <1>2 DEF Smaller
  <2>3. shown = None => risk.review
    BY <1>1
  <2> QED
    BY <2>1, <2>2, <2>3
<1>7. Weighty(risk)
  BY <1>1, <1>2, <1>3, <1>6 DEF Weighty
<1> QED
  BY <1>1, <1>5, <1>7 DEF risk

LEMMA TakenStep ==
    ASSUME MergingInv, NEW f \in Fingerprint, NEW risk \in Risk, Take(f, risk),
           Weighty(risk), risk.evidence \in Retrieved \cup {None},
           phase' \in {"rules", "semantic"}, judged' \subseteq Obligations,
           found' \in 0 .. MaxFound, UNCHANGED <<levels, overall>>
    PROVE  MergingInv'
<1>1. MergingTypeOK' /\ MergedInv'
  BY TakeStep DEF MergingInv, MergingTypeOK
<1> QED
  BY <1>1 DEF MergingInv, LevelsShowTheWorst

LEMMA NothingTakenStep ==
    ASSUME MergingInv, UNCHANGED <<merged, worst, levels, overall>>,
           phase' \in {"rules", "semantic", "apply"}, judged' \subseteq Obligations,
           found' \in 0 .. MaxFound
    PROVE  MergingInv'
BY DEF MergingInv, MergingTypeOK, MergedInv, LevelsShowTheWorst

LEMMA JudgeObligationStep ==
    ASSUME MergingInv, NEW o \in Obligations, NEW state \in {"overdue", "upcoming", "quiet"},
           NEW urgent \in BOOLEAN, NEW chunk \in Retrieved \cup {None}, NEW name \in Names,
           JudgeObligation(o, state, urgent, chunk, name)
    PROVE  MergingInv'
<1>1. /\ phase' = "rules" /\ judged' = judged \cup {o} /\ UNCHANGED <<found, levels, overall>>
      /\ judged \subseteq Obligations /\ found \in 0 .. MaxFound
  BY DEF JudgeObligation, MergingInv, MergingTypeOK
<1>2. FingerprintOf(o, chunk, name) \in Fingerprint
  BY MergingAssumption, FingerprintOfIsOne
<1>3. CASE state = "overdue"
  <2> DEFINE level == NormalizeLevel(IF urgent THEN 4 ELSE 3, 4, 4)
  <2>1. level \in Levels
    BY NormalizeLevelIsALevel
  <2>2. Take(FingerprintOf(o, chunk, name), RuleRisk(level, chunk))
    BY <1>3 DEF JudgeObligation
  <2> HIDE DEF level
  <2> QED
    BY <1>1, <1>2, <2>1, <2>2, RuleRiskIsSound, TakenStep
<1>4. CASE state = "upcoming"
  <2> DEFINE level == NormalizeLevel(2, 3, IF urgent THEN 4 ELSE 3)
  <2>1. level \in Levels
    BY NormalizeLevelIsALevel
  <2>2. Take(FingerprintOf(o, chunk, name), RuleRisk(level, chunk))
    BY <1>4 DEF JudgeObligation
  <2> HIDE DEF level
  <2> QED
    BY <1>1, <1>2, <2>1, <2>2, RuleRiskIsSound, TakenStep
<1>5. CASE state = "quiet"
  <2>1. UNCHANGED <<merged, worst>>
    BY <1>5 DEF JudgeObligation
  <2> QED
    BY <1>1, <2>1, NothingTakenStep
<1> QED
  BY <1>3, <1>4, <1>5

LEMMA JudgeContractStep ==
    ASSUME MergingInv, NEW expires \in BOOLEAN, NEW urgent \in BOOLEAN,
           NEW chunk \in Retrieved \cup {None}, NEW name \in Names,
           JudgeContract(expires, urgent, chunk, name)
    PROVE  MergingInv'
<1>1. /\ phase' = "semantic" /\ UNCHANGED <<judged, found, levels, overall>>
      /\ judged \subseteq Obligations /\ found \in 0 .. MaxFound
  BY DEF JudgeContract, MergingInv, MergingTypeOK
<1>2. FingerprintOf(None, chunk, name) \in Fingerprint
  BY MergingAssumption, FingerprintOfIsOne
<1>3. CASE expires
  <2> DEFINE level == IF urgent THEN HighLevel ELSE MediumLevel
  <2>1. level \in Levels
    BY DEF Levels, LowLevel, MediumLevel, HighLevel, CriticalLevel
  <2>2. Take(FingerprintOf(None, chunk, name), RuleRisk(level, chunk))
    BY <1>3 DEF JudgeContract
  <2> HIDE DEF level
  <2> QED
    BY <1>1, <1>2, <2>1, <2>2, RuleRiskIsSound, TakenStep
<1>4. CASE ~expires
  <2>1. UNCHANGED <<merged, worst>>
    BY <1>4 DEF JudgeContract
  <2> QED
    BY <1>1, <2>1, NothingTakenStep
<1> QED
  BY <1>3, <1>4

LEMMA ReportRiskStep ==
    ASSUME MergingInv, NEW o \in Obligations \cup {None}, NEW chunk \in Chunks \cup {None},
           NEW quoted \in BOOLEAN, NEW name \in Names, NEW level \in Levels,
           NEW unsure \in BOOLEAN, NEW oneSided \in BOOLEAN,
           ReportRisk(o, chunk, quoted, name, level, unsure, oneSided)
    PROVE  MergingInv'
<1> DEFINE shown == Grounded(chunk, quoted)
           risk     == SemanticRisk(level, shown, unsure)
<1>1. /\ phase' = "semantic" /\ judged' = judged /\ found' = found + 1
      /\ UNCHANGED <<levels, overall>> /\ judged \subseteq Obligations
      /\ found' \in 0 .. MaxFound
  BY MergingAssumption DEF ReportRisk, MergingInv, MergingTypeOK
<1>2. shown \in Retrieved \cup {None} /\ shown \in Chunks \cup {None}
  BY MergingAssumption DEF Grounded
<1>3. IF oneSided THEN UNCHANGED <<merged, worst>> ELSE Take(FingerprintOf(o, shown, name), risk)
  BY DEF ReportRisk
<1> HIDE DEF shown
<1>4. FingerprintOf(o, shown, name) \in Fingerprint
  BY <1>2, FingerprintOfIsOne
<1>5. risk \in Risk /\ Weighty(risk) /\ risk.evidence \in Retrieved \cup {None}
  BY <1>2, SemanticRiskIsSound
<1> HIDE DEF risk
<1>6. CASE oneSided
  BY <1>1, <1>3, <1>6, NothingTakenStep
<1>7. CASE ~oneSided
  BY <1>1, <1>3, <1>4, <1>5, <1>7, TakenStep
<1> QED
  BY <1>6, <1>7

\* The worst of some risks is no better than any of them.
LEMMA WorstOfIsWorst ==
    ASSUME MergedInv, NEW fs \in SUBSET Present
    PROVE  /\ WorstOf(fs) \in Levels
           /\ \A f \in fs : WorstOf(fs) >= merged[f].level
<1> DEFINE S == {merged[f].level : f \in fs} \cup {LowLevel}
<1>1. S \in SUBSET Levels /\ S # {}
  BY DEF MergedInv, Present, Risk, Levels, LowLevel, CriticalLevel
<1>2. \A f \in fs : merged[f].level \in S
  OBVIOUS
<1>3. WorstOf(fs) = Max(S)
  BY DEF WorstOf
<1> HIDE DEF S
<1> QED
  BY <1>1, <1>2, <1>3, MaxOfLevels

LEMMA ApplyStep ==
    ASSUME MergingInv, NEW given \in [Obligations -> {LowLevel, HighLevel}], Apply(given)
    PROVE  MergingInv'
<1> DEFINE Its(o) == {f \in Present : f[1] = o}
<1>1. /\ levels' = [o \in Obligations |-> IF WorstOf(Its(o)) > LowLevel THEN WorstOf(Its(o)) ELSE given[o]]
      /\ overall' = WorstOf(Present) /\ phase' = "done"
      /\ UNCHANGED <<judged, found, merged, worst>>
  BY DEF Apply
<1>2. MergedInv /\ MergingTypeOK
  BY DEF MergingInv
<1>3. /\ overall' \in Levels /\ \A f \in Present : overall' >= merged[f].level
  BY <1>1, <1>2, WorstOfIsWorst
<1>4. \A o : /\ WorstOf(Its(o)) \in Levels
             /\ \A f \in Its(o) : WorstOf(Its(o)) >= merged[f].level
  BY <1>2, WorstOfIsWorst
<1>5. /\ LowLevel = 1 /\ Levels = 1 .. 4
      /\ \A o \in Obligations : given[o] \in Levels /\ given[o] >= 1
  BY DEF Levels, LowLevel, HighLevel, CriticalLevel
<1> HIDE DEF Its
<1>6. \A o \in Obligations : levels'[o] \in Levels /\ levels'[o] >= WorstOf(Its(o))
  BY <1>1, <1>4, <1>5
<1>7. levels' \in [Obligations -> Levels]
  BY <1>1, <1>6
<1>8. Present' = Present /\ MergedInv'
  BY <1>1, <1>2 DEF Present, MergedInv
<1>9. ASSUME NEW f \in Present, f[1] # None PROVE levels'[f[1]] >= merged[f].level
  <2>1. f \in Fingerprint /\ f[1] \in Obligations /\ f \in Its(f[1])
    BY <1>9 DEF Present, Fingerprint, Its
  <2>2. merged[f].level \in Levels
    BY <1>2, <1>5 DEF MergedInv, Present, Risk
  <2> QED
    BY <1>4, <1>5, <1>6, <2>1, <2>2
<1>10. LevelsShowTheWorst'
  BY <1>1, <1>3, <1>8, <1>9 DEF LevelsShowTheWorst
<1>11. MergingTypeOK'
  BY <1>1, <1>2, <1>3, <1>7 DEF MergingTypeOK
<1> QED
  BY <1>8, <1>10, <1>11 DEF MergingInv

\* For any obligations, chunks, keys and scores, and reports in any order: no report of a risk
\* is played down by another, what only the model saw is high on evidence it was given and
\* nothing else, and the levels shown are no better than any risk (risk.py, semantic_risk.py).
THEOREM MergingStaysCautious == MergingSpec => []MergingIsCautious
<1>1. MergingInit => MergingInv
  BY MergingAssumption DEF MergingInit, MergingInv, MergingTypeOK, MergedInv, LevelsShowTheWorst,
     Levels, LowLevel, CriticalLevel
<1>2. MergingInv /\ [MergingNext]_mergingVars => MergingInv'
  <2> SUFFICES ASSUME MergingInv, [MergingNext]_mergingVars PROVE MergingInv'
    OBVIOUS
  <2>1. ASSUME NEW o \in Obligations, NEW s \in {"overdue", "upcoming", "quiet"},
               NEW u \in BOOLEAN, NEW c \in Retrieved \cup {None}, NEW n \in Names,
               JudgeObligation(o, s, u, c, n)
        PROVE  MergingInv'
    BY <2>1, JudgeObligationStep
  <2>2. ASSUME NEW e \in BOOLEAN, NEW u \in BOOLEAN, NEW c \in Retrieved \cup {None},
               NEW n \in Names, JudgeContract(e, u, c, n)
        PROVE  MergingInv'
    BY <2>2, JudgeContractStep
  <2>3. ASSUME NEW o \in Obligations \cup {None}, NEW c \in Chunks \cup {None},
               NEW q \in BOOLEAN, NEW n \in Names, NEW s \in Scores, NEW l \in Scores,
               NEW u \in Scores, NEW unsure \in BOOLEAN, NEW oneSided \in BOOLEAN,
               ReportRisk(o, c, q, n, NormalizeLevel(s, l, u), unsure, oneSided)
        PROVE  MergingInv'
    <3>1. NormalizeLevel(s, l, u) \in Levels
      BY MergingAssumption, NormalizeLevelIsALevel
    <3> QED
      BY <2>3, <3>1, ReportRiskStep
  <2>4. CASE EndSemantic
    BY <2>4, NothingTakenStep DEF EndSemantic, MergingInv, MergingTypeOK
  <2>5. ASSUME NEW given \in [Obligations -> {LowLevel, HighLevel}], Apply(given)
        PROVE  MergingInv'
    BY <2>5, ApplyStep
  <2>6. CASE UNCHANGED mergingVars
    BY <2>6 DEF mergingVars, MergingInv, MergingTypeOK, MergedInv, LevelsShowTheWorst, Present
  <2> QED
    <3>1. CASE \E o \in Obligations, s \in {"overdue", "upcoming", "quiet"}, u \in BOOLEAN,
                  c \in Retrieved \cup {None}, n \in Names : JudgeObligation(o, s, u, c, n)
      BY <2>1, <3>1
    <3>2. CASE \E e, u \in BOOLEAN, c \in Retrieved \cup {None}, n \in Names :
                  JudgeContract(e, u, c, n)
      BY <2>2, <3>2
    <3>3. CASE \E o \in Obligations \cup {None}, c \in Chunks \cup {None}, q \in BOOLEAN,
                  n \in Names, s, l, u \in Scores, unsure, oneSided \in BOOLEAN :
                     ReportRisk(o, c, q, n, NormalizeLevel(s, l, u), unsure, oneSided)
      BY <2>3, <3>3
    <3>4. CASE \E given \in [Obligations -> {LowLevel, HighLevel}] : Apply(given)
      BY <2>5, <3>4
    <3> QED
      BY <2>4, <2>6, <3>1, <3>2, <3>3, <3>4 DEF MergingNext
<1>3. MergingInv => MergingIsCautious
  BY DEF MergingInv, MergedInv, MergingIsCautious, NothingIsDowngraded, ModelAloneNeedsEvidence,
         Present, Weighty
<1> QED
  BY <1>1, <1>2, <1>3, PTL DEF MergingSpec

-----------------------------------------------------------------------------
(* The routing of a question, for any settings, categories and scores.     *)
(*                                                                         *)
(* Two facts travel with the question: only a follow-up with a history is  *)
(* marked for rewriting, by the rules and by the gateway alike, and after  *)
(* planning the plan is the one its decision and its text call for.  What  *)
(* the plan promises is then a fact about the patches, one after another.  *)

\* What the rules and the gateway may decide of a question.
RuleInv(r, q) ==
    /\ r \in Rule
    /\ r.rewrite <=> r.intent = "FOLLOW_UP"
    /\ r.rewrite => q.history /\ r.reason = "follow_up_rule"

DecisionInv(d, q) ==
    /\ d \in Decision
    /\ d.intent = "FOLLOW_UP" <=> d.rewrite
    /\ d.rewrite => q.history
    /\ d.policy = "conflict" => d.score <= ConflictScore

\* How far the question has come says what is known of it.
WhatIsKnown ==
    /\ at \in {"ask", "boundary", "fast", "classify"} => decision = None /\ plan = None
    /\ at \in {"direct", "refused"} => decision = None /\ plan = None
    /\ at = "gateway" => RuleInv(rule, text) /\ decision = None /\ plan = None
    /\ at \in {"rewrite", "plan", "error"} => DecisionInv(decision, text) /\ plan = None

\* The plan is the one for the decision and the text as they are now.
PlanInv ==
    /\ DecisionInv(decision, text)
    /\ asks \in Asks
    /\ plan = PlanFor(decision.intent, decision.score, asks.category, asks.table)

AfterThePlan ==
    /\ at \in {"faq", "documents"} => PlanInv
    /\ at = "answered" =>
         \/ faq.exact /\ decision = None /\ plan = None
         \/ /\ PlanInv /\ faq \in Faq
            /\ ~faq.exact => ~plan.exact /\ faq.score >= plan.threshold

RoutingInv == RoutingTypeOK /\ WhatIsKnown /\ AfterThePlan

-----------------------------------------------------------------------------
(* The operators. *)

LEMMA SettingsAreNumbers ==
    /\ Settings.faq \in Nat /\ Settings.doc \in Nat /\ Settings.context \in Nat
    /\ Settings.direct \in Nat /\ Settings.shortFaq \in Nat /\ Settings.complexDoc \in Nat
    /\ Settings.shortChars \in Nat /\ Settings.fastChars \in Nat
  BY SettingsAssumption

LEMMA StrategyIsNumbers ==
    /\ Strategy.floor \in Nat /\ Strategy.discount \in Nat /\ Strategy.short \in Nat
    /\ Strategy.low \in Nat /\ Strategy.medium \in Nat /\ Strategy.mediumDirect \in Nat
    /\ Strategy.pricing \in Nat /\ Strategy.compliance \in Nat /\ Strategy.lowDirect \in Nat
    /\ Strategy.followUpFaq \in Nat /\ Strategy.strongFaqDoc \in Nat
    /\ Strategy.knowledgeContext \in Nat /\ Strategy.guardContext \in Nat
    /\ Strategy.tableContext \in Nat /\ Strategy.low < Strategy.medium
  BY StrategyAssumption


\* A category that scores, of which the first in the scenario's order is taken, or none.
LEMMA BestSourceIsASource ==
    ASSUME NEW scores \in [SourceSet -> MatchScores]
    PROVE  BestSource(scores) \in SourceSet \cup {NoSource}
<1> DEFINE best == {i \in 1 .. Len(Sources) :
                      /\ scores[Sources[i]] > 0
                      /\ \A j \in 1 .. Len(Sources) : scores[Sources[j]] <= scores[Sources[i]]}
           first == CHOOSE i \in best : \A j \in best : i <= j
<1>1. BestSource(scores) = IF best = {} THEN NoSource ELSE Sources[first]
  BY DEF BestSource
<1>2. ASSUME best # {}
      PROVE  Sources[first] \in SourceSet
  <2>1. best \subseteq Nat
    BY TextAssumption
  <2>2. \E i \in best : \A j \in best : i <= j
    BY <1>2, <2>1, LeastNumber
  <2>3. first \in best
    BY <2>2
  <2>4. first \in 1 .. Len(Sources)
    BY <2>3
  <2> QED
    BY <2>4 DEF SourceSet
<1> QED
  BY <1>1, <1>2

\* The scores of the strong rules differ, so one that fires is the best.
LEMMA RuleOfIsARule ==
    ASSUME NEW hints \in SUBSET Hints, text \in Text
    PROVE  RuleInv(RuleOf(hints), text)
<1> DEFINE fired == StrongRules(hints)
           best  == CHOOSE r \in fired : \A other \in fired : other[3] <= r[3]
           rules == {<<"faq", "FAQ_QUERY", RuleScores.faq>>,
                     <<"knowledge", "KNOWLEDGE_QUERY", RuleScores.knowledge>>,
                     <<"question_shape", "FAQ_QUERY", RuleScores.sourceShape>>,
                     <<"direct_shape", "FAQ_QUERY", RuleScores.directShape>>}
<1>1. /\ RuleScores.faq \in 1 .. 100 /\ RuleScores.knowledge \in 1 .. 100
      /\ RuleScores.sourceShape \in 1 .. 100 /\ RuleScores.directShape \in 1 .. 100
  BY ScoresAssumption
<1>2. fired \subseteq rules
  BY DEF StrongRules
<1>3. \A r \in rules : r[2] \in Intents \ {"FOLLOW_UP"} /\ r[3] \in 1 .. 100
  BY <1>1 DEF Intents
<1> HIDE DEF fired, rules
<1>4. ASSUME fired # {}
      PROVE  best \in fired
  <2> DEFINE scores == {100 - r[3] : r \in fired}
  <2>1. scores \in SUBSET Nat /\ scores # {}
    BY <1>2, <1>3, <1>4
  <2>2. \E m \in scores : \A x \in scores : m <= x
    BY <2>1, LeastNumber
  <2>3. PICK r \in fired : \A x \in scores : 100 - r[3] <= x
    BY <2>2
  <2>5. \A other \in fired : 100 - other[3] \in scores
    OBVIOUS
  <2>4. \A other \in fired : other[3] <= r[3]
    <3>1. \A other \in fired : 100 - r[3] <= 100 - other[3]
      BY <2>3, <2>5
    <3>2. \A other \in fired : other[3] \in 1 .. 100
      BY <1>2, <1>3
    <3>3. r[3] \in 1 .. 100
      BY <3>2
    <3> HIDE DEF scores
    <3> SUFFICES ASSUME NEW other \in fired PROVE other[3] <= r[3]
      OBVIOUS
    <3>4. other[3] \in Int /\ r[3] \in Int /\ 100 - r[3] <= 100 - other[3]
      BY <3>1, <3>2, <3>3
    <3> QED
      BY <3>4
  <2> QED
    BY <2>4
<1> HIDE DEF best
<1>5. CASE IsFollowUp(hints)
  <2>1. RuleOf(hints) = [intent |-> "FOLLOW_UP", score |-> 80, reason |-> "follow_up_rule",
                         rewrite |-> TRUE]
    BY <1>5 DEF RuleOf
  <2>2. text.history
    BY <1>5 DEF IsFollowUp
  <2> QED
    BY <2>1, <2>2 DEF RuleInv, Rule, Intents, Reasons
<1>6. CASE ~IsFollowUp(hints) /\ fired # {}
  <2>1. RuleOf(hints) = [intent |-> best[2], score |-> best[3], reason |-> "strong_rule",
                         rewrite |-> FALSE]
    BY <1>6 DEF RuleOf, fired, best
  <2>2. best[2] \in Intents \ {"FOLLOW_UP"} /\ best[3] \in 0 .. 100
    BY <1>2, <1>3, <1>4, <1>6
  <2> QED
    BY <2>1, <2>2 DEF RuleInv, Rule, Reasons
<1>7. CASE ~IsFollowUp(hints) /\ fired = {}
  <2>1. RuleOf(hints) = [intent |-> "KNOWLEDGE_QUERY", score |-> 60,
                         reason |-> "default_knowledge", rewrite |-> FALSE]
    BY <1>7 DEF RuleOf, fired
  <2> QED
    BY <2>1 DEF RuleInv, Rule, Intents, Reasons
<1> QED
  BY <1>5, <1>6, <1>7

\* The gateway keeps what was found out of the history, and a conflict has a low score.
LEMMA FuseIsADecision ==
    ASSUME RuleInv(rule, text), text \in Text, NEW predicted \in Intents,
           NEW score \in 0 .. 100, NEW d,
           LET f == Fuse(rule, predicted, score, text.history, ModelMinScore)
           IN  d = [intent |-> f.intent, score |-> f.score, policy |-> f.policy,
                    rewrite |-> rule.rewrite \/ f.intent = "FOLLOW_UP"]
    PROVE  DecisionInv(d, text)
<1> DEFINE f == Fuse(rule, predicted, score, text.history, ModelMinScore)
<1>1. /\ rule.intent \in Intents /\ rule.score \in 0 .. 100 /\ rule.rewrite \in BOOLEAN
      /\ rule.rewrite <=> rule.intent = "FOLLOW_UP"
      /\ rule.rewrite => text.history /\ rule.reason = "follow_up_rule"
  BY DEF RuleInv, Rule
<1>2. text.history \in BOOLEAN
  BY DEF Text
<1>3. /\ f.intent \in Intents /\ f.score \in 0 .. 100 /\ f.policy \in DecisionPolicies
      /\ f.intent \in {rule.intent, predicted}
      /\ f.intent # rule.intent => rule.reason = "default_knowledge"
      /\ f.intent = "FOLLOW_UP" => text.history
      /\ f.policy = "conflict" => f.score <= ConflictScore
  <2>1. CASE predicted = "FOLLOW_UP" /\ ~text.history
    BY <2>1, <1>1, <1>2 DEF Fuse, DecisionPolicies
  <2>2. CASE ~(predicted = "FOLLOW_UP" /\ ~text.history) /\ score < ModelMinScore
    BY <2>2, <1>1, <1>2 DEF Fuse, DecisionPolicies
  <2>3. CASE /\ ~(predicted = "FOLLOW_UP" /\ ~text.history) /\ ~(score < ModelMinScore)
             /\ predicted = rule.intent
    BY <2>3, <1>1, <1>2 DEF Fuse, DecisionPolicies, Agreed, Larger, Smaller, AgreementBoost
  <2>4. CASE /\ ~(predicted = "FOLLOW_UP" /\ ~text.history) /\ ~(score < ModelMinScore)
             /\ predicted # rule.intent /\ rule.reason = "default_knowledge"
    BY <2>4, <1>1, <1>2 DEF Fuse, DecisionPolicies
  <2>5. CASE /\ ~(predicted = "FOLLOW_UP" /\ ~text.history) /\ ~(score < ModelMinScore)
             /\ predicted # rule.intent /\ rule.reason # "default_knowledge"
    BY <2>5, <1>1, <1>2 DEF Fuse, DecisionPolicies, Smaller, ConflictScore
  <2> QED
    BY <2>1, <2>2, <2>3, <2>4, <2>5
<1> DEFINE mark == rule.rewrite \/ f.intent = "FOLLOW_UP"
<1>4. d = [intent |-> f.intent, score |-> f.score, policy |-> f.policy, rewrite |-> mark]
  OBVIOUS
<1>9. mark \in BOOLEAN /\ (mark <=> rule.rewrite \/ f.intent = "FOLLOW_UP")
  BY <1>1
<1> HIDE DEF f, mark
<1>5. d \in Decision
  BY <1>3, <1>4, <1>9 DEF Decision
<1>6. d.intent = f.intent /\ d.score = f.score /\ d.policy = f.policy
  BY <1>4
<1>7. d.rewrite = mark
  BY <1>4
<1>8. rule.rewrite => f.intent = "FOLLOW_UP"
  BY <1>1, <1>3
<1> QED
  BY <1>1, <1>3, <1>5, <1>6, <1>7, <1>8, <1>9 DEF DecisionInv

-----------------------------------------------------------------------------
(* The patches of the plan. *)

\* The search gathers what the prompt is to hold, however large the later patches make it.
Sized(p) == p.context <= p.doc /\ p.context <= Settings.complexDoc

\* A plan asks for no more than another.
AtMost(p, q) ==
    /\ p.threshold <= q.threshold /\ p.doc <= q.doc /\ p.context <= q.context
    /\ p.exact => q.exact

\* A patch that never makes a fuzzy answer easier.
Raises(p, q) == p.threshold <= q.threshold /\ (p.exact => q.exact)

LEMMA PlanIsNumbers ==
    ASSUME NEW p \in Plan
    PROVE  /\ p.faq \in Nat /\ p.doc \in Nat /\ p.context \in Nat /\ p.threshold \in Nat
           /\ p.exact \in BOOLEAN
  BY DEF Plan

LEMMA LargerIs ==
    ASSUME NEW a \in Int, NEW b \in Int
    PROVE  /\ Larger(a, b) \in {a, b}
           /\ Larger(a, b) >= a /\ Larger(a, b) >= b
           /\ a \in Nat => Larger(a, b) \in Nat
  BY DEF Larger

LEMMA BaseIsAPlan ==
    /\ BaseParams \in Plan
    /\ BaseParams.doc = Settings.doc /\ BaseParams.context = Settings.context
    /\ BaseParams.threshold = Settings.direct /\ BaseParams.exact = FALSE
  BY SettingsAreNumbers DEF BaseParams, Plan

LEMMA IntentPatchIsSafe ==
    ASSUME NEW intent \in Intents, NEW q, q = IntentPatch(BaseParams, intent)
    PROVE  /\ q \in Plan /\ q.exact = FALSE
           /\ intent = "FAQ_QUERY" => q.threshold >= Strategy.floor
           /\ intent = "FOLLOW_UP" => q.threshold >= Strategy.short
           /\ SizesFit => Sized(q) /\ q.context <= Larger(12, 2 * Settings.context)
<1> DEFINE b == BaseParams
<1>1. /\ b \in Plan /\ b.faq \in Nat /\ b.doc = Settings.doc /\ b.context = Settings.context
      /\ b.threshold = Settings.direct /\ b.exact = FALSE
  BY BaseIsAPlan, PlanIsNumbers
<1> HIDE DEF b
<1>2. CASE intent = "FAQ_QUERY"
  <2> DEFINE doc == Larger(Strategy.strongFaqDoc, Settings.doc \div 2)
             low == Larger(Strategy.floor, Settings.direct - Strategy.discount)
  <2>1. q = [b EXCEPT !.doc = doc, !.threshold = low]
    BY <1>2 DEF IntentPatch, b
  <2>2. /\ doc \in Nat /\ low \in Nat /\ low >= Strategy.floor
        /\ SizesFit => Settings.context <= doc
    BY SettingsAreNumbers, StrategyIsNumbers DEF Larger, SizesFit
  <2> HIDE DEF doc, low
  <2>3. /\ q \in Plan /\ q.exact = FALSE /\ q.threshold = low /\ q.doc = doc
        /\ q.context = Settings.context
    BY <1>1, <2>1, <2>2 DEF Plan
  <2>4. SizesFit => Settings.context <= Settings.complexDoc
    BY DEF SizesFit
  <2>5. Settings.context <= Larger(12, 2 * Settings.context)
    BY SettingsAreNumbers DEF Larger
  <2> QED
    BY <1>2, <2>2, <2>3, <2>4, <2>5 DEF Sized
<1>3. CASE intent = "KNOWLEDGE_QUERY"
  <2> DEFINE doc == Larger(Settings.doc, ManyDocs)
             ctx == Larger(Settings.context, Strategy.knowledgeContext)
  <2>1. q = [b EXCEPT !.doc = doc, !.context = ctx]
    BY <1>1, <1>3 DEF IntentPatch, b
  <2>2. /\ doc \in Nat /\ ctx \in Nat
        /\ SizesFit => /\ ctx <= doc /\ ctx <= Settings.complexDoc
                       /\ ctx <= Larger(12, 2 * Settings.context)
    BY SettingsAreNumbers, StrategyIsNumbers DEF Larger, SizesFit, ManyDocs
  <2> HIDE DEF doc, ctx
  <2>3. q \in Plan /\ q.exact = FALSE /\ q.doc = doc /\ q.context = ctx
    BY <1>1, <2>1, <2>2 DEF Plan
  <2> QED
    BY <1>3, <2>2, <2>3 DEF Sized
<1>4. CASE intent = "FOLLOW_UP"
  <2> DEFINE faqs == Larger(Settings.faq, Strategy.followUpFaq)
             doc  == Larger(Settings.doc, ManyDocs)
             ctx  == Larger(Settings.context, Strategy.knowledgeContext)
             high == Larger(Settings.direct, Larger(Settings.direct,
                                          Larger(Strategy.short, Strategy.mediumDirect)))
  <2>1. q = [b EXCEPT !.faq = faqs, !.doc = doc, !.context = ctx, !.threshold = high]
    BY <1>1, <1>4 DEF IntentPatch, b
  <2>2. /\ faqs \in Nat /\ doc \in Nat /\ ctx \in Nat
        /\ SizesFit => /\ ctx <= doc /\ ctx <= Settings.complexDoc
                       /\ ctx <= Larger(12, 2 * Settings.context)
    BY SettingsAreNumbers, StrategyIsNumbers DEF Larger, SizesFit, ManyDocs
  <2>3. high \in Nat /\ high >= Strategy.short
    BY SettingsAreNumbers, StrategyIsNumbers DEF Larger
  <2> HIDE DEF faqs, doc, ctx, high
  <2>4. q \in Plan /\ q.exact = FALSE /\ q.doc = doc /\ q.context = ctx /\ q.threshold = high
    BY <1>1, <2>1, <2>2, <2>3 DEF Plan
  <2> QED
    BY <1>4, <2>2, <2>3, <2>4 DEF Sized
<1> QED
  BY <1>2, <1>3, <1>4 DEF Intents

LEMMA ShortPatchIsSafe ==
    ASSUME NEW p \in Plan, NEW intent, NEW q, q = ShortPatch(p, intent)
    PROVE  /\ q \in Plan /\ Raises(p, q)  /\ (q.exact = p.exact)
           /\ IsShort /\ intent # "FOLLOW_UP" => q.threshold >= Strategy.short
           /\ Sized(p) /\ p.context <= Larger(12, 2 * Settings.context) => Sized(q)
<1>1. /\ p.faq \in Nat /\ p.doc \in Nat /\ p.context \in Nat /\ p.threshold \in Nat
      /\ p.exact \in BOOLEAN
  BY PlanIsNumbers
<1>2. CASE IsShort /\ intent # "FOLLOW_UP"
  <2> DEFINE doc  == Smaller(p.doc, Larger(12, 2 * Settings.context))
             high == Larger(p.threshold, Strategy.short)
  <2>1. q = [p EXCEPT !.doc = doc, !.threshold = high]
    BY <1>2 DEF ShortPatch
  <2>2. /\ doc \in Nat /\ high \in Nat /\ high >= p.threshold /\ high >= Strategy.short
        /\ p.context <= p.doc /\ p.context <= Larger(12, 2 * Settings.context) => p.context <= doc
    BY <1>1, SettingsAreNumbers, StrategyIsNumbers DEF Larger, Smaller
  <2> HIDE DEF doc, high
  <2>3. /\ q \in Plan /\ q.exact = p.exact /\ q.doc = doc /\ q.context = p.context
        /\ q.threshold = high
    BY <2>1, <2>2 DEF Plan
  <2> QED
    BY <1>1, <2>2, <2>3 DEF Sized, Raises
<1>3. CASE ~(IsShort /\ intent # "FOLLOW_UP")
  BY <1>1, <1>3 DEF ShortPatch, Raises
<1> QED
  BY <1>2, <1>3

LEMMA ScorePatchIsSafe ==
    ASSUME NEW p \in Plan, NEW score \in Nat, NEW q, q = ScorePatch(p, score)
    PROVE  /\ q \in Plan /\ Raises(p, q)
           /\ score < Strategy.low => q.exact
           /\ ~(score < Strategy.low) /\ score < Strategy.medium
                => q.threshold >= Strategy.mediumDirect
           /\ SizesFit /\ Sized(p) => Sized(q)
<1>1. /\ p.faq \in Nat /\ p.doc \in Nat /\ p.context \in Nat /\ p.threshold \in Nat
      /\ p.exact \in BOOLEAN
  BY PlanIsNumbers
<1>2. CASE score < Strategy.low
  <2> DEFINE doc  == Larger(p.doc, Settings.complexDoc)
             ctx  == Larger(p.context, Strategy.guardContext)
             high == Larger(p.threshold, Larger(Settings.direct, Strategy.lowDirect))
  <2>1. q = [p EXCEPT !.doc = doc, !.context = ctx, !.threshold = high, !.exact = TRUE]
    BY <1>2 DEF ScorePatch
  <2>2. /\ doc \in Nat /\ ctx \in Nat /\ high \in Nat /\ high >= p.threshold
        /\ SizesFit /\ Sized(p) => ctx <= doc /\ ctx <= Settings.complexDoc
    BY <1>1, SettingsAreNumbers, StrategyIsNumbers DEF Larger, SizesFit, Sized
  <2> HIDE DEF doc, ctx, high
  <2>3. q \in Plan /\ q.exact = TRUE /\ q.doc = doc /\ q.context = ctx /\ q.threshold = high
    BY <2>1, <2>2 DEF Plan
  <2> QED
    BY <1>1, <1>2, <2>2, <2>3 DEF Sized, Raises
<1>3. CASE ~(score < Strategy.low) /\ score < Strategy.medium
  <2> DEFINE doc  == Larger(p.doc, Settings.doc)
             high == Larger(p.threshold, Larger(Settings.direct, Strategy.mediumDirect))
  <2>1. q = [p EXCEPT !.doc = doc, !.threshold = high]
    BY <1>3 DEF ScorePatch
  <2>2. /\ doc \in Nat /\ doc >= p.doc
        /\ high \in Nat /\ high >= p.threshold /\ high >= Strategy.mediumDirect
    BY <1>1, SettingsAreNumbers, StrategyIsNumbers DEF Larger
  <2> HIDE DEF doc, high
  <2>3. /\ q \in Plan /\ q.exact = p.exact /\ q.doc = doc /\ q.context = p.context
        /\ q.threshold = high
    BY <2>1, <2>2 DEF Plan
  <2>4. Sized(p) => p.context <= doc
    BY <1>1, <2>2 DEF Sized
  <2> QED
    BY <1>1, <1>3, <2>2, <2>3, <2>4 DEF Sized, Raises
<1>4. CASE ~(score < Strategy.low) /\ ~(score < Strategy.medium)
  BY <1>1, <1>4 DEF ScorePatch, Raises
<1> QED
  BY <1>2, <1>3, <1>4

LEMMA CategoryPatchIsSafe ==
    ASSUME NEW p \in Plan, NEW category \in Categories, NEW q, q = CategoryPatch(p, category)
    PROVE  /\ q \in Plan /\ Raises(p, q)
           /\ category = "pricing" => q.threshold >= Strategy.pricing
           /\ category = "compliance" => q.threshold >= Strategy.compliance
           /\ SizesFit /\ Sized(p) => Sized(q)
           /\ category = "default" => q = p
           /\ category # "default" =>
                /\ q.doc = Larger(p.doc, Settings.complexDoc)
                /\ q.context = Larger(p.context, Strategy.guardContext)
                /\ q.threshold = CASE category = "pricing" -> Larger(p.threshold, Strategy.pricing)
                                   [] category = "compliance" ->
                                        Larger(p.threshold, Strategy.compliance)
                                   [] OTHER -> p.threshold
                /\ q.exact = p.exact
<1>1. /\ p.faq \in Nat /\ p.doc \in Nat /\ p.context \in Nat /\ p.threshold \in Nat
      /\ p.exact \in BOOLEAN
  BY PlanIsNumbers
<1>2. CASE category = "default"
  BY <1>1, <1>2 DEF CategoryPatch, Raises
<1>3. CASE category # "default"
  <2> DEFINE faqs == IF category = "pricing" THEN Larger(p.faq, Settings.faq) ELSE p.faq
             doc  == Larger(p.doc, Settings.complexDoc)
             ctx  == Larger(p.context, Strategy.guardContext)
             high == CASE category = "pricing" -> Larger(p.threshold, Strategy.pricing)
                       [] category = "compliance" -> Larger(p.threshold, Strategy.compliance)
                       [] OTHER -> p.threshold
  <2>1. q = [p EXCEPT !.faq = faqs, !.doc = doc, !.context = ctx, !.threshold = high]
    BY <1>3 DEF CategoryPatch
  <2>2. /\ faqs \in Nat /\ doc \in Nat /\ ctx \in Nat
        /\ SizesFit /\ Sized(p) => ctx <= doc /\ ctx <= Settings.complexDoc
    BY <1>1, SettingsAreNumbers, StrategyIsNumbers DEF Larger, SizesFit, Sized
  <2>3. /\ high \in Nat /\ high >= p.threshold
        /\ category = "pricing" => high >= Strategy.pricing
        /\ category = "compliance" => high >= Strategy.compliance
    <3>1. CASE category = "pricing"
      BY <1>1, <3>1, StrategyIsNumbers DEF Larger
    <3>2. CASE category = "compliance"
      BY <1>1, <3>2, StrategyIsNumbers DEF Larger
    <3>3. CASE category # "pricing" /\ category # "compliance"
      BY <1>1, <3>3
    <3> QED
      BY <3>1, <3>2, <3>3
  <2> HIDE DEF faqs, doc, ctx, high
  <2>4. q \in Plan /\ q.exact = p.exact /\ q.doc = doc /\ q.context = ctx /\ q.threshold = high
    BY <2>1, <2>2, <2>3 DEF Plan
  <2>5. Raises(p, q) /\ (SizesFit /\ Sized(p) => Sized(q))
    BY <1>1, <2>2, <2>3, <2>4 DEF Sized, Raises
  <2> QED
    BY <1>3, <2>3, <2>4, <2>5 DEF doc, ctx, high
<1> QED
  BY <1>2, <1>3

LEMMA TablePatchIsSafe ==
    ASSUME NEW p \in Plan, NEW table \in BOOLEAN, NEW q, q = TablePatch(p, table)
    PROVE  /\ q \in Plan /\ Raises(p, q)
           /\ table => q.exact
           /\ SizesFit /\ Sized(p) => Sized(q)
           /\ ~table => q = p
           /\ table => /\ q.doc = Larger(p.doc, Settings.complexDoc)
                       /\ q.context = Larger(p.context, Strategy.tableContext)
                       /\ q.threshold = p.threshold
<1>1. /\ p.faq \in Nat /\ p.doc \in Nat /\ p.context \in Nat /\ p.threshold \in Nat
      /\ p.exact \in BOOLEAN
  BY PlanIsNumbers
<1>2. CASE ~table
  BY <1>1, <1>2 DEF TablePatch, Raises
<1>3. CASE table
  <2> DEFINE doc == Larger(p.doc, Settings.complexDoc)
             ctx == Larger(p.context, Strategy.tableContext)
  <2>1. q = [p EXCEPT !.doc = doc, !.context = ctx, !.exact = TRUE]
    BY <1>3 DEF TablePatch
  <2>2. /\ doc \in Nat /\ ctx \in Nat
        /\ SizesFit /\ Sized(p) => ctx <= doc /\ ctx <= Settings.complexDoc
    BY <1>1, SettingsAreNumbers, StrategyIsNumbers DEF Larger, SizesFit, Sized
  <2> HIDE DEF doc, ctx
  <2>3. /\ q \in Plan /\ q.exact = TRUE /\ q.doc = doc /\ q.context = ctx
        /\ q.threshold = p.threshold
    BY <2>1, <2>2 DEF Plan
  <2>4. Raises(p, q) /\ (SizesFit /\ Sized(p) => Sized(q))
    BY <1>1, <2>2, <2>3 DEF Sized, Raises
  <2> QED
    BY <1>3, <2>3, <2>4 DEF doc, ctx
<1> QED
  BY <1>2, <1>3

-----------------------------------------------------------------------------
(* Every patch is monotonic, and the score's patch turns against the score. *)

LEMMA ScorePatchTightens ==
    ASSUME ThresholdsFit, SizesFit, NEW p \in Plan, NEW score \in Nat, NEW surer \in Nat,
           score <= surer, NEW q, NEW r, q = ScorePatch(p, score), r = ScorePatch(p, surer)
    PROVE  AtMost(r, q)
<1>1. /\ p.faq \in Nat /\ p.doc \in Nat /\ p.context \in Nat /\ p.threshold \in Nat
      /\ p.exact \in BOOLEAN
  BY PlanIsNumbers
<1> DEFINE lowDoc  == Larger(p.doc, Settings.complexDoc)
           lowCtx  == Larger(p.context, Strategy.guardContext)
           lowHigh == Larger(p.threshold, Larger(Settings.direct, Strategy.lowDirect))
           medDoc  == Larger(p.doc, Settings.doc)
           medHigh == Larger(p.threshold, Larger(Settings.direct, Strategy.mediumDirect))
<1>2. /\ lowDoc \in Nat /\ lowCtx \in Nat /\ lowHigh \in Nat /\ medDoc \in Nat /\ medHigh \in Nat
      /\ p.doc <= medDoc /\ medDoc <= lowDoc /\ p.context <= lowCtx
      /\ p.threshold <= medHigh
  BY <1>1, SettingsAreNumbers, StrategyIsNumbers DEF Larger, SizesFit
<1>3. medHigh <= lowHigh
  BY <1>1, SettingsAreNumbers, StrategyIsNumbers DEF Larger, ThresholdsFit
<1> DEFINE low(x) == /\ x.doc = lowDoc /\ x.context = lowCtx /\ x.threshold = lowHigh
                     /\ x.exact = TRUE
           med(x) == /\ x.doc = medDoc /\ x.context = p.context /\ x.threshold = medHigh
                     /\ x.exact = p.exact
<1>4. \A x, s : /\ x = ScorePatch(p, s) /\ s < Strategy.low
                => low(x)
  <2> SUFFICES ASSUME NEW x, NEW s, x = ScorePatch(p, s), s < Strategy.low
               PROVE  low(x)
    OBVIOUS
  <2>1. x = [p EXCEPT !.doc = lowDoc, !.context = lowCtx, !.threshold = lowHigh, !.exact = TRUE]
    BY DEF ScorePatch
  <2> HIDE DEF lowDoc, lowCtx, lowHigh
  <2> QED
    BY <2>1 DEF Plan
<1>5. \A x, s : /\ x = ScorePatch(p, s) /\ ~(s < Strategy.low) /\ s < Strategy.medium
                => med(x)
  <2> SUFFICES ASSUME NEW x, NEW s, x = ScorePatch(p, s), ~(s < Strategy.low),
                      s < Strategy.medium
               PROVE  med(x)
    OBVIOUS
  <2>1. x = [p EXCEPT !.doc = medDoc, !.threshold = medHigh]
    BY DEF ScorePatch
  <2> HIDE DEF medDoc, medHigh
  <2> QED
    BY <2>1 DEF Plan
<1>6. \A x, s : /\ x = ScorePatch(p, s) /\ ~(s < Strategy.low) /\ ~(s < Strategy.medium)
                => x = p
  BY DEF ScorePatch
<1> HIDE DEF lowDoc, lowCtx, lowHigh, medDoc, medHigh
<1>7. CASE surer < Strategy.low
  <2>1. score < Strategy.low
    BY <1>7, StrategyIsNumbers
  <2> QED
    BY <1>2, <1>4, <1>7, <2>1 DEF AtMost
<1>8. CASE ~(surer < Strategy.low) /\ surer < Strategy.medium
  <2>1. med(r)
    BY <1>5, <1>8
  <2>2. CASE score < Strategy.low
    <3>1. low(q)
      BY <1>4, <2>2
    <3> QED
      BY <1>1, <1>2, <1>3, <2>1, <3>1 DEF AtMost
  <2>3. CASE ~(score < Strategy.low)
    <3>1. score < Strategy.medium
      BY <1>8, StrategyIsNumbers
    <3>2. med(q)
      BY <1>5, <2>3, <3>1
    <3> QED
      BY <1>1, <1>2, <2>1, <3>2 DEF AtMost
  <2> QED
    BY <2>2, <2>3
<1>9. CASE ~(surer < Strategy.low) /\ ~(surer < Strategy.medium)
  <2>1. r = p
    BY <1>6, <1>9
  <2>2. CASE score < Strategy.low
    <3>1. low(q)
      BY <1>4, <2>2
    <3> QED
      BY <1>1, <1>2, <1>3, <2>1, <3>1 DEF AtMost
  <2>3. CASE ~(score < Strategy.low) /\ score < Strategy.medium
    <3>1. med(q)
      BY <1>5, <2>3
    <3> QED
      BY <1>1, <1>2, <2>1, <3>1 DEF AtMost
  <2>4. CASE ~(score < Strategy.low) /\ ~(score < Strategy.medium)
    <3>1. q = p
      BY <1>6, <2>4
    <3> QED
      BY <1>1, <2>1, <3>1 DEF AtMost
  <2> QED
    BY <2>2, <2>3, <2>4
<1> QED
  BY <1>7, <1>8, <1>9

LEMMA LargerIsMonotonic ==
    ASSUME NEW a \in Nat, NEW b \in Nat, a <= b, NEW c \in Nat
    PROVE  Larger(a, c) <= Larger(b, c)
  BY DEF Larger

LEMMA LaterPatchesAreMonotonic ==
    ASSUME NEW p \in Plan, NEW q \in Plan, AtMost(p, q), NEW category \in Categories,
           NEW table \in BOOLEAN, NEW r, NEW s,
           r = TablePatch(CategoryPatch(p, category), table),
           s = TablePatch(CategoryPatch(q, category), table)
    PROVE  AtMost(r, s)
<1> DEFINE p1 == CategoryPatch(p, category)
           q1 == CategoryPatch(q, category)
<1>1. /\ p.doc \in Nat /\ p.context \in Nat /\ p.threshold \in Nat
      /\ q.doc \in Nat /\ q.context \in Nat /\ q.threshold \in Nat
  BY PlanIsNumbers
<1>2. p1 \in Plan /\ q1 \in Plan
  BY CategoryPatchIsSafe
<1>3. AtMost(p1, q1)
  <2>1. CASE category = "default"
    <3>1. p1 = p /\ q1 = q
      BY <2>1 DEF CategoryPatch
    <3> QED
      BY <3>1
  <2>2. CASE category # "default"
    <3> DEFINE high(n) == CASE category = "pricing" -> Larger(n, Strategy.pricing)
                            [] category = "compliance" -> Larger(n, Strategy.compliance)
                            [] OTHER -> n
    <3>1. /\ p1.doc = Larger(p.doc, Settings.complexDoc)
          /\ p1.context = Larger(p.context, Strategy.guardContext)
          /\ p1.threshold = high(p.threshold) /\ p1.exact = p.exact
      BY <2>2, CategoryPatchIsSafe
    <3>2. /\ q1.doc = Larger(q.doc, Settings.complexDoc)
          /\ q1.context = Larger(q.context, Strategy.guardContext)
          /\ q1.threshold = high(q.threshold) /\ q1.exact = q.exact
      BY <2>2, CategoryPatchIsSafe
    <3>3. high(p.threshold) <= high(q.threshold)
      <4>1. p.threshold <= q.threshold
        BY DEF AtMost
      <4>2. CASE category = "pricing"
        BY <1>1, <4>1, <4>2, LargerIsMonotonic, StrategyIsNumbers
      <4>3. CASE category = "compliance"
        BY <1>1, <4>1, <4>3, LargerIsMonotonic, StrategyIsNumbers
      <4>4. CASE category # "pricing" /\ category # "compliance"
        BY <1>1, <4>1, <4>4
      <4> QED
        BY <4>2, <4>3, <4>4
    <3>4. /\ Larger(p.doc, Settings.complexDoc) <= Larger(q.doc, Settings.complexDoc)
          /\ Larger(p.context, Strategy.guardContext) <= Larger(q.context, Strategy.guardContext)
      BY <1>1, LargerIsMonotonic, SettingsAreNumbers, StrategyIsNumbers DEF AtMost
    <3> HIDE DEF high, p1, q1
    <3> QED
      BY <3>1, <3>2, <3>3, <3>4 DEF AtMost
  <2> QED
    BY <2>1, <2>2
<1>4. r = TablePatch(p1, table) /\ s = TablePatch(q1, table)
  OBVIOUS
<1> HIDE DEF p1, q1
<1>5. /\ p1.doc \in Nat /\ p1.context \in Nat /\ p1.threshold \in Nat
      /\ q1.doc \in Nat /\ q1.context \in Nat /\ q1.threshold \in Nat
  BY <1>2, PlanIsNumbers
<1>6. CASE ~table
  <2>1. r = p1 /\ s = q1
    BY <1>4, <1>6 DEF TablePatch
  <2> QED
    BY <1>3, <2>1
<1>7. CASE table
  <2>1. /\ r.doc = Larger(p1.doc, Settings.complexDoc)
        /\ r.context = Larger(p1.context, Strategy.tableContext)
        /\ r.threshold = p1.threshold
    BY <1>2, <1>4, <1>7, TablePatchIsSafe
  <2>2. /\ s.doc = Larger(q1.doc, Settings.complexDoc)
        /\ s.context = Larger(q1.context, Strategy.tableContext)
        /\ s.threshold = q1.threshold /\ s.exact
    BY <1>2, <1>4, <1>7, TablePatchIsSafe
  <2>3. /\ Larger(p1.doc, Settings.complexDoc) <= Larger(q1.doc, Settings.complexDoc)
        /\ Larger(p1.context, Strategy.tableContext) <= Larger(q1.context, Strategy.tableContext)
    BY <1>3, <1>5, LargerIsMonotonic, SettingsAreNumbers, StrategyIsNumbers DEF AtMost
  <2> QED
    BY <1>3, <1>5, <2>1, <2>2, <2>3 DEF AtMost
<1> QED
  BY <1>6, <1>7

-----------------------------------------------------------------------------
(* The plan as a whole. *)

\* What a plan promises for the decision and the text it was made for.
LEMMA PlanIsSafe ==
    ASSUME NEW intent \in Intents, NEW score \in Nat, NEW category \in Categories,
           NEW table \in BOOLEAN, NEW p, p = PlanFor(intent, score, category, table)
    PROVE  /\ p \in Plan
           /\ score < Strategy.low => p.exact
           /\ table => p.exact
           /\ intent = "FAQ_QUERY" => p.threshold >= Strategy.floor
           /\ ~(score < Strategy.low) /\ score < Strategy.medium
                => p.threshold >= Strategy.mediumDirect
           /\ IsShort => p.threshold >= Strategy.short
           /\ category = "pricing" => p.threshold >= Strategy.pricing
           /\ category = "compliance" => p.threshold >= Strategy.compliance
           /\ SizesFit => Sized(p)
<1> DEFINE p1 == IntentPatch(BaseParams, intent)
           p2 == ShortPatch(p1, intent)
           p3 == ScorePatch(p2, score)
           p4 == CategoryPatch(p3, category)
<1>1. /\ p1 \in Plan
      /\ intent = "FAQ_QUERY" => p1.threshold >= Strategy.floor
      /\ intent = "FOLLOW_UP" => p1.threshold >= Strategy.short
      /\ SizesFit => Sized(p1) /\ p1.context <= Larger(12, 2 * Settings.context)
  BY IntentPatchIsSafe
<1> HIDE DEF p1
<1>2. /\ p2 \in Plan /\ Raises(p1, p2)
      /\ IsShort /\ intent # "FOLLOW_UP" => p2.threshold >= Strategy.short
      /\ SizesFit => Sized(p2)
  BY <1>1, ShortPatchIsSafe
<1> HIDE DEF p2
<1>3. /\ p3 \in Plan /\ Raises(p2, p3)
      /\ score < Strategy.low => p3.exact
      /\ ~(score < Strategy.low) /\ score < Strategy.medium
           => p3.threshold >= Strategy.mediumDirect
      /\ SizesFit => Sized(p3)
  BY <1>2, ScorePatchIsSafe
<1> HIDE DEF p3
<1>4. /\ p4 \in Plan /\ Raises(p3, p4)
      /\ category = "pricing" => p4.threshold >= Strategy.pricing
      /\ category = "compliance" => p4.threshold >= Strategy.compliance
      /\ SizesFit => Sized(p4)
  BY <1>3, CategoryPatchIsSafe
<1> HIDE DEF p4
<1>5. p = TablePatch(p4, table)
  BY DEF PlanFor, p1, p2, p3, p4
<1>6. p \in Plan /\ Raises(p4, p) /\ (table => p.exact) /\ (SizesFit => Sized(p))
  BY <1>4, <1>5, TablePatchIsSafe
<1>7. /\ p1.threshold \in Nat /\ p2.threshold \in Nat /\ p3.threshold \in Nat
      /\ p4.threshold \in Nat /\ p.threshold \in Nat
  BY <1>1, <1>2, <1>3, <1>4, <1>6, PlanIsNumbers
<1>8. /\ p1.threshold <= p.threshold /\ p2.threshold <= p.threshold
      /\ p3.threshold <= p.threshold /\ p4.threshold <= p.threshold
  BY <1>2, <1>3, <1>4, <1>6, <1>7 DEF Raises
<1>9. score < Strategy.low => p.exact
  BY <1>3, <1>4, <1>6 DEF Raises
<1>10. IsShort => p.threshold >= Strategy.short
  <2>1. CASE intent = "FOLLOW_UP"
    BY <1>1, <1>7, <1>8, <2>1, StrategyIsNumbers
  <2>2. CASE intent # "FOLLOW_UP"
    BY <1>2, <1>7, <1>8, <2>2, StrategyIsNumbers
  <2> QED
    BY <2>1, <2>2
<1>11. /\ intent = "FAQ_QUERY" => p.threshold >= Strategy.floor
       /\ ~(score < Strategy.low) /\ score < Strategy.medium
            => p.threshold >= Strategy.mediumDirect
       /\ category = "pricing" => p.threshold >= Strategy.pricing
       /\ category = "compliance" => p.threshold >= Strategy.compliance
  BY <1>1, <1>3, <1>4, <1>7, <1>8, StrategyIsNumbers
<1> QED
  BY <1>6, <1>9, <1>10, <1>11

\* With a surer decision the same question is not asked for more.
LEMMA PlanTightens ==
    ASSUME ThresholdsFit, SizesFit, NEW intent \in Intents, NEW score \in Nat,
           NEW surer \in Nat, score <= surer, NEW category \in Categories, NEW table \in BOOLEAN
    PROVE  AtMost(PlanFor(intent, surer, category, table), PlanFor(intent, score, category, table))
<1> DEFINE p2 == ShortPatch(IntentPatch(BaseParams, intent), intent)
           q3 == ScorePatch(p2, score)
           r3 == ScorePatch(p2, surer)
<1>1. p2 \in Plan
  BY IntentPatchIsSafe, ShortPatchIsSafe
<1> HIDE DEF p2
<1>2. q3 \in Plan /\ r3 \in Plan
  BY <1>1, ScorePatchIsSafe
<1>3. AtMost(r3, q3)
  BY <1>1, ScorePatchTightens
<1> HIDE DEF q3, r3
<1>4. AtMost(TablePatch(CategoryPatch(r3, category), table),
             TablePatch(CategoryPatch(q3, category), table))
  BY <1>2, <1>3, LaterPatchesAreMonotonic
<1> QED
  BY <1>4 DEF PlanFor, p2, q3, r3

-----------------------------------------------------------------------------
(* The invariant. *)

LEMMA RoutingInitIsSafe == RoutingInit => RoutingInv
<1> SUFFICES ASSUME RoutingInit PROVE RoutingInv
  OBVIOUS
<1>1. text \in Text /\ at = "ask" /\ rule = None /\ decision = None /\ plan = None /\ asks = None
      /\ faq = None
  BY DEF RoutingInit, Text
<1>2. RoutingTypeOK
  BY <1>1 DEF RoutingTypeOK, Places
<1> QED
  BY <1>1, <1>2 DEF RoutingInv, WhatIsKnown, AfterThePlan

LEMMA ClassifyDirectKeeps ==
    ASSUME RoutingInv, NEW shape, ClassifyDirect(shape)
    PROVE  RoutingInv'
<1>1. at = "ask" /\ at' \in {"direct", "boundary"}
      /\ UNCHANGED <<text, rule, decision, plan, asks, faq>>
  BY DEF ClassifyDirect
<1>2. RoutingTypeOK'
  BY <1>1 DEF RoutingInv, RoutingTypeOK, Places
<1>3. decision' = None /\ plan' = None
  BY <1>1 DEF RoutingInv, WhatIsKnown
<1> QED
  BY <1>1, <1>2, <1>3 DEF RoutingInv, WhatIsKnown, AfterThePlan

LEMMA CheckBoundaryKeeps ==
    ASSUME RoutingInv, NEW scores \in [SourceSet -> MatchScores], NEW isolated \in BOOLEAN,
           CheckBoundary(scores, isolated)
    PROVE  RoutingInv'
<1>1. /\ at = "boundary" /\ at' \in {"refused", "fast"}
      /\ text' = [text EXCEPT !.source = BestSource(scores)]
      /\ UNCHANGED <<rule, decision, plan, asks, faq>>
  BY DEF CheckBoundary
<1>2. text' \in Text
  <2>1. text \in Text
    BY DEF RoutingInv, RoutingTypeOK
  <2> QED
    BY <1>1, <2>1, BestSourceIsASource DEF Text
<1>3. RoutingTypeOK'
  BY <1>1, <1>2 DEF RoutingInv, RoutingTypeOK, Places
<1>4. decision' = None /\ plan' = None
  BY <1>1 DEF RoutingInv, WhatIsKnown
<1> QED
  BY <1>1, <1>3, <1>4 DEF RoutingInv, WhatIsKnown, AfterThePlan

LEMMA FastFaqKeeps ==
    ASSUME RoutingInv, NEW hint \in BOOLEAN, NEW hit \in BOOLEAN, FastFaq(hint, hit)
    PROVE  RoutingInv'
<1>1. at = "fast" /\ UNCHANGED <<text, rule, decision, plan, asks>>
  BY DEF FastFaq
<1>2. decision' = None /\ plan' = None
  BY <1>1 DEF RoutingInv, WhatIsKnown
<1>3. \/ at' = "answered" /\ faq' \in Faq /\ faq'.exact
      \/ at' = "classify" /\ faq' = faq
  <2>1. CASE TriesFastFaq(hint) /\ hit
    <3>1. PICK s \in FaqScores : faq' = [exact |-> TRUE, score |-> s, fast |-> TRUE]
      BY <2>1 DEF FastFaq
    <3>2. s \in Nat
      BY TextAssumption
    <3>3. at' = "answered"
      BY <2>1 DEF FastFaq
    <3> QED
      BY <3>1, <3>2, <3>3 DEF Faq
  <2>2. CASE ~(TriesFastFaq(hint) /\ hit)
    BY <2>2 DEF FastFaq
  <2> QED
    BY <2>1, <2>2
<1>4. RoutingTypeOK'
  BY <1>1, <1>3 DEF RoutingInv, RoutingTypeOK, Places
<1> QED
  BY <1>2, <1>3, <1>4 DEF RoutingInv, WhatIsKnown, AfterThePlan

LEMMA ClassifyKeeps ==
    ASSUME RoutingInv, NEW hints \in SUBSET Hints, Classify(hints)
    PROVE  RoutingInv'
<1>1. /\ at = "classify" /\ at' = "gateway" /\ rule' = RuleOf(hints)
      /\ UNCHANGED <<text, decision, plan, asks, faq>>
  BY DEF Classify
<1>2. text \in Text
  BY DEF RoutingInv, RoutingTypeOK
<1>3. RuleInv(rule', text')
  BY <1>1, <1>2, RuleOfIsARule
<1>4. decision' = None /\ plan' = None
  BY <1>1 DEF RoutingInv, WhatIsKnown
<1>5. RoutingTypeOK'
  BY <1>1, <1>3 DEF RoutingInv, RoutingTypeOK, RuleInv, Places
<1> QED
  BY <1>1, <1>3, <1>4, <1>5 DEF RoutingInv, WhatIsKnown, AfterThePlan

LEMMA GatewayKeeps ==
    ASSUME RoutingInv, NEW predicted \in Intents, NEW score \in ModelScores,
           Gateway(predicted, score)
    PROVE  RoutingInv'
<1>1. /\ at = "gateway" /\ at' = "rewrite"
      /\ UNCHANGED <<text, rule, plan, asks, faq>>
  BY DEF Gateway
<1>2. text \in Text /\ RuleInv(rule, text) /\ plan = None
  BY <1>1 DEF RoutingInv, RoutingTypeOK, WhatIsKnown
<1>3. score \in 0 .. 100
  BY TextAssumption
<1>4. DecisionInv(decision', text)
  BY <1>2, <1>3, FuseIsADecision DEF Gateway
<1>5. DecisionInv(decision', text') /\ plan' = None
  BY <1>1, <1>2, <1>4
<1>6. RoutingTypeOK'
  BY <1>1, <1>5 DEF RoutingInv, RoutingTypeOK, DecisionInv, Places
<1> QED
  BY <1>1, <1>5, <1>6 DEF RoutingInv, WhatIsKnown, AfterThePlan

LEMMA RewriteKeeps ==
    ASSUME RoutingInv, NEW length \in Lengths, NEW empty \in BOOLEAN, Rewrite(length, empty)
    PROVE  RoutingInv'
<1>1. /\ at = "rewrite" /\ at' \in {"error", "plan"}
      /\ text' \in {text, [text EXCEPT !.len = length]}
      /\ UNCHANGED <<rule, decision, plan, asks, faq>>
  BY DEF Rewrite
<1>2. text \in Text /\ DecisionInv(decision, text) /\ plan = None
  BY <1>1 DEF RoutingInv, RoutingTypeOK, WhatIsKnown
<1>3. text' \in Text /\ text'.history = text.history
  BY <1>1, <1>2 DEF Text
<1>4. DecisionInv(decision', text') /\ plan' = None
  BY <1>1, <1>2, <1>3 DEF DecisionInv
<1>5. RoutingTypeOK'
  BY <1>1, <1>3 DEF RoutingInv, RoutingTypeOK, Places
<1> QED
  BY <1>1, <1>4, <1>5 DEF RoutingInv, WhatIsKnown, AfterThePlan

LEMMA DecisionIsTyped ==
    ASSUME NEW d, NEW q, DecisionInv(d, q)
    PROVE  d.intent \in Intents /\ d.score \in 0 .. 100 /\ d.score \in Nat
  BY DEF DecisionInv, Decision

\* The plan of a question changes with its decision and its text only.
LEMMA PlanStays ==
    ASSUME text' = text, decision' = decision, NEW CONSTANT category, NEW CONSTANT table
    PROVE  PlanFor(decision.intent, decision.score, category, table)'
             = PlanFor(decision.intent, decision.score, category, table)
<1>1. (IsShort <=> IsShort') /\ BaseParams' = BaseParams
  BY DEF IsShort, BaseParams
<1>2. ASSUME NEW CONSTANT i
      PROVE  IntentPatch(BaseParams, i)' = IntentPatch(BaseParams, i)
  BY <1>1 DEF IntentPatch
<1>3. ASSUME NEW CONSTANT p, NEW CONSTANT i
      PROVE  ShortPatch(p, i)' = ShortPatch(p, i)
  BY <1>1 DEF ShortPatch
<1>4. ASSUME NEW CONSTANT i
      PROVE  ShortPatch(IntentPatch(BaseParams, i), i)' = ShortPatch(IntentPatch(BaseParams, i), i)
  BY <1>1, <1>2, <1>3 DEF ShortPatch
<1>5. ASSUME NEW CONSTANT i, NEW CONSTANT s
      PROVE  PlanFor(i, s, category, table)' = PlanFor(i, s, category, table)
  BY <1>4 DEF PlanFor
<1> QED
  BY <1>5

LEMMA BuildPlanKeeps ==
    ASSUME RoutingInv, NEW CONSTANT category \in Categories,
           NEW CONSTANT table \in BOOLEAN, BuildPlan(category, table)
    PROVE  RoutingInv'
<1>1. /\ at = "plan" /\ at' = "faq"
      /\ plan' = PlanFor(decision.intent, decision.score, category, table)
      /\ asks' = [category |-> category, table |-> table]
      /\ UNCHANGED <<text, rule, decision, faq>>
  BY DEF BuildPlan
<1>2. DecisionInv(decision, text)
  BY <1>1 DEF RoutingInv, WhatIsKnown
<1>3. asks' \in Asks /\ asks'.category = category /\ asks'.table = table
  BY <1>1 DEF Asks
<1>4. plan' \in Plan
  BY <1>1, <1>2, DecisionIsTyped, PlanIsSafe
<1>5. PlanFor(decision.intent, decision.score, category, table)'
        = PlanFor(decision.intent, decision.score, category, table)
  BY <1>1, PlanStays
<1>6. PlanInv'
  BY <1>1, <1>2, <1>3, <1>5 DEF PlanInv, DecisionInv
<1>7. RoutingTypeOK'
  BY <1>1, <1>3, <1>4 DEF RoutingInv, RoutingTypeOK, Places
<1> QED
  BY <1>1, <1>6, <1>7 DEF RoutingInv, WhatIsKnown, AfterThePlan

LEMMA FaqDirectKeeps ==
    ASSUME RoutingInv, NEW hit \in BOOLEAN, NEW exact \in BOOLEAN, NEW score \in FaqScores,
           FaqDirect(hit, exact, score)
    PROVE  RoutingInv'
<1>1. at = "faq" /\ UNCHANGED <<text, rule, decision, plan, asks>>
  BY DEF FaqDirect
<1>2. PlanInv
  BY <1>1 DEF RoutingInv, AfterThePlan
<1>3. PlanFor(decision.intent, decision.score, asks.category, asks.table)'
        = PlanFor(decision.intent, decision.score, asks.category, asks.table)
  <2>1. ASSUME NEW CONSTANT c, NEW CONSTANT t
        PROVE  PlanFor(decision.intent, decision.score, c, t)'
                 = PlanFor(decision.intent, decision.score, c, t)
    BY <1>1, PlanStays
  <2> QED
    BY <1>1, <2>1
<1>4. PlanInv'
  BY <1>1, <1>2, <1>3 DEF PlanInv, DecisionInv
<1>5. score \in Nat
  BY TextAssumption
<1>6. \/ /\ at' = "answered" /\ faq' = [exact |-> exact, score |-> score, fast |-> FALSE]
         /\ FaqAnswers(exact, score)
      \/ at' = "documents" /\ faq' = faq
  BY DEF FaqDirect
<1>7. RoutingTypeOK'
  <2>1. at' \in Places /\ faq \in Faq \cup {None}
    BY <1>6 DEF RoutingInv, RoutingTypeOK, Places
  <2>2. [exact |-> exact, score |-> score, fast |-> FALSE] \in Faq
    BY <1>5 DEF Faq
  <2>3. faq' \in Faq \cup {None}
    BY <1>6, <2>1, <2>2
  <2> QED
    BY <1>1, <2>1, <2>3 DEF RoutingInv, RoutingTypeOK
<1>8. AfterThePlan'
  <2>1. CASE at' = "documents"
    BY <1>4, <2>1 DEF AfterThePlan
  <2>2. CASE at' = "answered" /\ faq' = [exact |-> exact, score |-> score, fast |-> FALSE]
             /\ FaqAnswers(exact, score)
    <3>1. faq' \in Faq /\ faq'.exact = exact /\ faq'.score = score
      BY <1>5, <2>2 DEF Faq
    <3>2. ~exact => ~plan'.exact /\ score >= plan'.threshold
      BY <1>1, <2>2 DEF FaqAnswers
    <3> QED
      BY <1>4, <2>2, <3>1, <3>2 DEF AfterThePlan
  <2> QED
    BY <1>6, <2>1, <2>2
<1>9. WhatIsKnown'
  BY <1>6 DEF WhatIsKnown
<1> QED
  BY <1>7, <1>8, <1>9 DEF RoutingInv

LEMMA RoutingNextKeeps == RoutingInv /\ [RoutingNext]_routingVars => RoutingInv'
<1> SUFFICES ASSUME RoutingInv, [RoutingNext]_routingVars PROVE RoutingInv'
  OBVIOUS
<1>1. ASSUME NEW shape \in {"greeting", "off_topic", "human_service", "other"},
             ClassifyDirect(shape)
      PROVE  RoutingInv'
  BY <1>1, ClassifyDirectKeeps
<1>2. ASSUME NEW scores \in [SourceSet -> MatchScores], NEW isolated \in BOOLEAN,
             CheckBoundary(scores, isolated)
      PROVE  RoutingInv'
  BY <1>2, CheckBoundaryKeeps
<1>3. ASSUME NEW hint \in BOOLEAN, NEW hit \in BOOLEAN, FastFaq(hint, hit)
      PROVE  RoutingInv'
  BY <1>3, FastFaqKeeps
<1>4. ASSUME NEW hints \in SUBSET Hints, Classify(hints)
      PROVE  RoutingInv'
  BY <1>4, ClassifyKeeps
<1>5. ASSUME NEW i \in Intents, NEW s \in ModelScores, Gateway(i, s)
      PROVE  RoutingInv'
  BY <1>5, GatewayKeeps
<1>6. ASSUME NEW n \in Lengths, NEW empty \in BOOLEAN, Rewrite(n, empty)
      PROVE  RoutingInv'
  BY <1>6, RewriteKeeps
<1>7. ASSUME NEW c \in Categories, NEW t \in BOOLEAN, BuildPlan(c, t)
      PROVE  RoutingInv'
  BY <1>7, BuildPlanKeeps
<1>8. ASSUME NEW hit \in BOOLEAN, NEW exact \in BOOLEAN, NEW s \in FaqScores,
             FaqDirect(hit, exact, s)
      PROVE  RoutingInv'
  BY <1>8, FaqDirectKeeps
<1>9. CASE UNCHANGED routingVars
  <2>1. UNCHANGED <<at, text, rule, decision, plan, asks, faq>>
    BY <1>9 DEF routingVars
  <2>2. (IsShort <=> IsShort') /\ BaseParams' = BaseParams
    BY <2>1 DEF IsShort, BaseParams
  <2>3. RoutingTypeOK'
    BY <2>1 DEF RoutingInv, RoutingTypeOK
  <2>4. WhatIsKnown'
    BY <2>1 DEF RoutingInv, WhatIsKnown, RuleInv, DecisionInv
  <2>5. PlanFor(decision.intent, decision.score, asks.category, asks.table)'
          = PlanFor(decision.intent, decision.score, asks.category, asks.table)
    <3>1. ASSUME NEW CONSTANT c, NEW CONSTANT t
          PROVE  PlanFor(decision.intent, decision.score, c, t)'
                   = PlanFor(decision.intent, decision.score, c, t)
      BY <2>1, PlanStays
    <3> QED
      BY <2>1, <3>1
  <2>6. PlanInv => PlanInv'
    BY <2>1, <2>5 DEF PlanInv, DecisionInv
  <2>7. AfterThePlan'
    BY <2>1, <2>6 DEF RoutingInv, AfterThePlan
  <2> QED
    BY <2>3, <2>4, <2>7 DEF RoutingInv
<1> QED
  BY <1>1, <1>2, <1>3, <1>4, <1>5, <1>6, <1>7, <1>8, <1>9 DEF RoutingNext

-----------------------------------------------------------------------------
(* What the invariant says of a question. *)

LEMMA FollowUpFollows == RoutingInv => FollowUpIsRewritten
<1> SUFFICES ASSUME RoutingInv, decision # None
             PROVE  DecisionInv(decision, text)
  BY DEF FollowUpIsRewritten, DecisionInv, Decision
<1>1. at \in Places
  BY DEF RoutingInv, RoutingTypeOK
<1>2. CASE at \in {"rewrite", "plan", "error"}
  BY <1>2 DEF RoutingInv, WhatIsKnown
<1>3. CASE at \in {"faq", "documents", "answered"}
  BY <1>3 DEF RoutingInv, AfterThePlan, PlanInv
<1>4. CASE at \in {"ask", "boundary", "fast", "classify", "direct", "refused", "gateway"}
  BY <1>4 DEF RoutingInv, WhatIsKnown
<1> QED
  BY <1>1, <1>2, <1>3, <1>4 DEF Places

\* The plan of the decision, with what it promises.
LEMMA PlanPromises ==
    ASSUME PlanInv
    PROVE  /\ decision \in Decision /\ decision.intent \in Intents
           /\ decision.score \in 0 .. 100 /\ asks.category \in Categories
           /\ asks.table \in BOOLEAN
           /\ plan \in Plan /\ plan.threshold \in Nat /\ plan.doc \in Nat /\ plan.context \in Nat
           /\ decision.policy = "conflict" => decision.score <= ConflictScore
           /\ decision.score < Strategy.low => plan.exact
           /\ asks.table => plan.exact
           /\ decision.intent = "FAQ_QUERY" => plan.threshold >= Strategy.floor
           /\ ~(decision.score < Strategy.low) /\ decision.score < Strategy.medium
                => plan.threshold >= Strategy.mediumDirect
           /\ IsShort => plan.threshold >= Strategy.short
           /\ asks.category = "pricing" => plan.threshold >= Strategy.pricing
           /\ asks.category = "compliance" => plan.threshold >= Strategy.compliance
           /\ SizesFit => Sized(plan)
<1>1. /\ decision \in Decision /\ decision.intent \in Intents /\ decision.score \in 0 .. 100
      /\ decision.policy = "conflict" => decision.score <= ConflictScore
  BY DEF PlanInv, DecisionInv, Decision
<1>2. asks.category \in Categories /\ asks.table \in BOOLEAN
  BY DEF PlanInv, Asks
<1>3. plan = PlanFor(decision.intent, decision.score, asks.category, asks.table)
  BY DEF PlanInv
<1>4. decision.score \in Nat
  BY <1>1
<1>5. /\ plan \in Plan
      /\ decision.score < Strategy.low => plan.exact
      /\ asks.table => plan.exact
      /\ decision.intent = "FAQ_QUERY" => plan.threshold >= Strategy.floor
      /\ ~(decision.score < Strategy.low) /\ decision.score < Strategy.medium
           => plan.threshold >= Strategy.mediumDirect
      /\ IsShort => plan.threshold >= Strategy.short
      /\ asks.category = "pricing" => plan.threshold >= Strategy.pricing
      /\ asks.category = "compliance" => plan.threshold >= Strategy.compliance
      /\ SizesFit => Sized(plan)
  BY <1>1, <1>2, <1>3, <1>4, PlanIsSafe
<1>6. plan.threshold \in Nat /\ plan.doc \in Nat /\ plan.context \in Nat
  BY <1>5, PlanIsNumbers
<1> QED
  BY <1>1, <1>2, <1>5, <1>6

LEMMA FuzzyFollows == ThresholdsFit /\ RoutingInv => FuzzyFaqIsEarned
<1> SUFFICES ASSUME ThresholdsFit, RoutingInv, at = "answered", ~faq.exact
             PROVE  /\ decision.policy # "conflict" /\ decision.score >= Strategy.low
                    /\ ~asks.table
                    /\ decision.intent = "FAQ_QUERY" => faq.score >= Strategy.floor
                    /\ decision.score < Strategy.medium => faq.score >= Strategy.mediumDirect
                    /\ IsShort => faq.score >= Strategy.short
                    /\ asks.category = "pricing" => faq.score >= Strategy.pricing
                    /\ asks.category = "compliance" => faq.score >= Strategy.compliance
  BY DEF FuzzyFaqIsEarned
<1>1. PlanInv /\ faq \in Faq /\ ~plan.exact /\ faq.score >= plan.threshold
  BY DEF RoutingInv, AfterThePlan
<1>2. faq.score \in Nat
  BY <1>1 DEF Faq
<1>3. /\ decision.score \in Nat /\ decision.score >= Strategy.low /\ ~asks.table
  BY <1>1, PlanPromises, StrategyIsNumbers
<1>4. decision.policy # "conflict"
  BY <1>1, <1>3, PlanPromises, StrategyIsNumbers DEF ThresholdsFit, ConflictScore
<1>5. /\ plan.threshold \in Nat
      /\ decision.intent = "FAQ_QUERY" => plan.threshold >= Strategy.floor
      /\ decision.score < Strategy.medium => plan.threshold >= Strategy.mediumDirect
      /\ IsShort => plan.threshold >= Strategy.short
      /\ asks.category = "pricing" => plan.threshold >= Strategy.pricing
      /\ asks.category = "compliance" => plan.threshold >= Strategy.compliance
  BY <1>1, <1>3, PlanPromises, StrategyIsNumbers
<1> QED
  BY <1>1, <1>2, <1>3, <1>4, <1>5, StrategyIsNumbers

\* A question that has a plan has the plan of its decision.
LEMMA PlannedHasItsPlan == ASSUME RoutingInv, Planned PROVE PlanInv
  BY DEF RoutingInv, AfterThePlan, Planned

LEMMA DoubtFollows == ThresholdsFit /\ SizesFit /\ RoutingInv => DoubtOnlyTightens
<1> SUFFICES ASSUME ThresholdsFit, SizesFit, RoutingInv, Planned,
                    NEW s \in decision.score .. 100
             PROVE  LET surer == PlanFor(decision.intent, s, asks.category, asks.table)
                    IN  AtMost(surer, plan)
  BY DEF DoubtOnlyTightens, AtMost
<1>1. PlanInv
  BY PlannedHasItsPlan
<1>2. /\ decision.intent \in Intents /\ decision.score \in Nat /\ asks.category \in Categories
      /\ asks.table \in BOOLEAN
  BY <1>1, PlanPromises
<1>3. s \in Nat /\ decision.score <= s
  BY <1>2
<1>4. plan = PlanFor(decision.intent, decision.score, asks.category, asks.table)
  BY <1>1 DEF PlanInv
<1> QED
  BY <1>2, <1>3, <1>4, PlanTightens

LEMMA GathersFollows == SizesFit /\ RoutingInv => GathersEnough
<1> SUFFICES ASSUME SizesFit, RoutingInv, Planned
             PROVE  plan.doc >= plan.context
  BY DEF GathersEnough
<1>1. PlanInv
  BY PlannedHasItsPlan
<1> QED
  BY <1>1, PlanPromises DEF Sized

\* A question is searched with its history exactly when it is a follow-up and has one:
\* intent/classifier.py and intent/decision.py, whatever the configuration.
THEOREM FollowUpsKeepTheirHistory == RoutingSpec => []FollowUpIsRewritten
<1>1. RoutingInit => RoutingInv
  BY RoutingInitIsSafe
<1>2. RoutingInv /\ [RoutingNext]_routingVars => RoutingInv'
  BY RoutingNextKeeps
<1>3. RoutingInv => FollowUpIsRewritten
  BY FollowUpFollows
<1> QED
  BY <1>1, <1>2, <1>3, PTL DEF RoutingSpec

\* The route of a question is safe (retrieval/strategy.py) for every configuration whose
\* thresholds and sizes fit together, however the patches follow one another.
THEOREM QuestionsStayRoutedSafely ==
    ASSUME ThresholdsFit, SizesFit
    PROVE  RoutingSpec => []QuestionsAreRoutedSafely
<1>1. RoutingInit => RoutingInv
  BY RoutingInitIsSafe
<1>2. RoutingInv /\ [RoutingNext]_routingVars => RoutingInv'
  BY RoutingNextKeeps
<1>3. RoutingInv => QuestionsAreRoutedSafely
  BY FollowUpFollows, FuzzyFollows, DoubtFollows, GathersFollows
     DEF QuestionsAreRoutedSafely, RoutingInv
<1> QED
  BY <1>1, <1>2, <1>3, PTL DEF RoutingSpec

-----------------------------------------------------------------------------
(* The benchmark, for any cases, predictions and fits.                     *)
(*                                                                         *)
(* While pairs are considered, whatever is settled fits at least as well   *)
(* as whatever is left, which is why the best pair left loses only to      *)
(* pairs that fit at least as well; no gold risk and no prediction is in   *)
(* two matches, which is why the counters add up.  A pass is clean as long *)
(* as a rate in millionths can tell one case from none.                    *)

\* The pairs that were considered before those that are left.
SettledFirst ==
    \A p \in Pairs \ rest, q \in rest : fit[q] <= fit[p]

\* A gold risk or a prediction is in one match only.
OneToOne ==
    \A m, n \in matches : m[1] = n[1] \/ m[2] = n[2] => m = n

MatchInv ==
    stage = "match" =>
        /\ fit \in [Pairs -> Fits]
        /\ matches \subseteq Pairs \ rest
        /\ SettledFirst /\ OneToOne /\ MatchingIsStable
        /\ count = [c \in Counters |-> 0]

\* The counters of the cases are bounded by the cases.
CountInv ==
    /\ count.citations <= count.tp
    /\ count.noEvidence <= count.questions /\ count.questions <= MaxQuestions
    /\ count.leaks <= count.security /\ count.security <= 1
    /\ count.priority <= count.conflicts /\ count.conflicts <= 1

\* What the gate has found when it passed.
PassInv ==
    /\ passed = TRUE => /\ stage = "done" /\ ~HardFailure
                        /\ count.severe > 0 /\ count.citations > 0 /\ count.noEvidence > 0
    /\ stage # "done" => passed = None

ScoringInv == ScoringTypeOK /\ MatchInv /\ CountInv /\ CountsAddUp /\ PassInv

-----------------------------------------------------------------------------
(* Rates. *)

LEMMA DivIsAtLeast ==
    ASSUME NEW x \in Nat, NEW w \in Nat \ {0}
    PROVE  /\ x \div w \in Nat
           /\ x >= w => x \div w >= 1
           /\ x < Whole * w => x \div w < Whole
<1> DEFINE q == x \div w
<1>1. q \in Nat
  OBVIOUS
<1>2. w * q <= x /\ x < w * q + w
  OBVIOUS
<1> HIDE DEF q
<1>3. ASSUME x >= w PROVE q >= 1
  BY <1>1, <1>2, <1>3
<1>4. ASSUME x < Whole * w PROVE q < Whole
  <2>1. SUFFICES ASSUME q >= Whole PROVE FALSE
    BY <1>1 DEF Whole
  <2>2. PICK d \in Nat : q = Whole + d
    <3>1. q - Whole \in Nat /\ q = Whole + (q - Whole)
      BY <1>1, <2>1 DEF Whole
    <3> QED
      BY <3>1
  <2>3. w * q = w * Whole + w * d
    BY <2>2 DEF Whole
  <2>4. w * d \in Nat
    OBVIOUS
  <2> QED
    BY <1>2, <1>4, <2>3, <2>4 DEF Whole
<1> QED
  BY <1>1, <1>3, <1>4 DEF q

\* A rate of fewer than two million cases tells one from none and all from all but one.
LEMMA RatioIsExact ==
    ASSUME NEW part \in Nat, NEW cases \in Nat, part <= cases, cases < 2 * Whole
    PROVE  /\ ~(Ratio(part, cases) > 0) => part = 0
           /\ cases > 0 /\ ~(Ratio(part, cases) < Whole) => part = cases
<1>1. CASE cases = 0
  BY <1>1
<1>2. CASE cases > 0
  <2> DEFINE half == cases \div 2
             x    == Whole * part + half
  <2>1. half \in Nat /\ 2 * half <= cases /\ cases <= 2 * half + 1
    OBVIOUS
  <2> HIDE DEF half
  <2>2. x \in Nat
    BY <2>1 DEF Whole
  <2>3. Ratio(part, cases) = x \div cases
    BY <1>2 DEF Ratio, half
  <2>4. part > 0 => x >= cases
    BY <2>1 DEF Whole
  <2>5. part < cases => x < Whole * cases
    BY <2>1 DEF Whole
  <2> HIDE DEF x
  <2>6. /\ x \div cases \in Nat
        /\ x >= cases => x \div cases >= 1
        /\ x < Whole * cases => x \div cases < Whole
    BY <1>2, <2>2, DivIsAtLeast
  <2> QED
    BY <1>2, <2>3, <2>4, <2>5, <2>6
<1> QED
  BY <1>1, <1>2

-----------------------------------------------------------------------------
(* Matching. *)

LEMMA PairIsAPair ==
    ASSUME ScoringTypeOK, NEW p \in Pairs
    PROVE  /\ p = <<p[1], p[2]>> /\ p[1] \in 1 .. size.gold /\ p[2] \in 1 .. size.predicted
           /\ p[1] \in Nat /\ p[2] \in Nat
<1>1. size.gold \in Nat /\ size.predicted \in Nat
  BY ScoringAssumption DEF ScoringTypeOK
<1> QED
  BY <1>1 DEF Pairs

LEMMA FitIsNumber ==
    ASSUME fit \in [Pairs -> Fits], NEW p \in Pairs
    PROVE  fit[p] \in 0 .. 100
  BY ScoringAssumption

\* The order of the candidates is total, so there is a first one.
LEMMA CandidateIsFirst ==
    ASSUME ScoringTypeOK, fit \in [Pairs -> Fits], rest # {}
    PROVE  Candidate \in rest /\ \A q \in rest : Before(Candidate, q)
<1>1. rest \subseteq Pairs
  BY DEF ScoringTypeOK
<1>2. \A p \in rest : /\ fit[p] \in 0 .. 100 /\ p[1] \in Nat /\ p[2] \in Nat
                      /\ p = <<p[1], p[2]>>
  BY <1>1, PairIsAPair, FitIsNumber
<1> DEFINE lacks == {100 - fit[p] : p \in rest}
<1>3. PICK p1 \in rest : \A p \in rest : fit[p] <= fit[p1]
  <2>1. lacks \in SUBSET Nat /\ lacks # {}
    BY <1>2
  <2>2. PICK m \in lacks : \A x \in lacks : m <= x
    BY <2>1, LeastNumber
  <2>3. PICK p1 \in rest : m = 100 - fit[p1]
    BY <2>2
  <2>4. \A p \in rest : 100 - fit[p] \in lacks
    OBVIOUS
  <2> HIDE DEF lacks
  <2>5. \A p \in rest : 100 - fit[p1] <= 100 - fit[p]
    BY <2>2, <2>3, <2>4
  <2>6. ASSUME NEW p \in rest
        PROVE  fit[p] <= fit[p1]
    <3>1. fit[p] \in 0 .. 100 /\ fit[p1] \in 0 .. 100
      BY <1>2
    <3>2. 100 - fit[p1] <= 100 - fit[p]
      BY <2>5
    <3>3. \A a, b \in 0 .. 100 : 100 - a <= 100 - b => b <= a
      OBVIOUS
    <3> QED
      BY <3>1, <3>2, <3>3
  <2> QED
    BY <2>6
<1> DEFINE best  == {p \in rest : fit[p] = fit[p1]}
           golds == {p[1] : p \in best}
<1>4. PICK p2 \in best : \A p \in best : p2[1] <= p[1]
  <2>1. golds \in SUBSET Nat /\ golds # {}
    BY <1>2
  <2>2. PICK m \in golds : \A x \in golds : m <= x
    BY <2>1, LeastNumber
  <2>3. PICK p2 \in best : m = p2[1]
    BY <2>2
  <2>4. \A p \in best : p2[1] <= p[1]
    BY <2>2, <2>3
  <2> QED
    BY <2>4
<1> DEFINE same  == {p \in best : p[1] = p2[1]}
           preds == {p[2] : p \in same}
<1>5. PICK p3 \in same : \A p \in same : p3[2] <= p[2]
  <2>1. preds \in SUBSET Nat /\ preds # {}
    BY <1>2, <1>4
  <2>2. PICK m \in preds : \A x \in preds : m <= x
    BY <2>1, LeastNumber
  <2>3. PICK p3 \in same : m = p3[2]
    BY <2>2
  <2>4. \A p \in same : p3[2] <= p[2]
    BY <2>2, <2>3
  <2> QED
    BY <2>4
<1>6. p3 \in rest /\ fit[p3] = fit[p1] /\ p3[1] = p2[1]
  BY <1>5
<1>7. \A q \in rest : Before(p3, q)
  <2> SUFFICES ASSUME NEW q \in rest PROVE Before(p3, q)
    OBVIOUS
  <2>1. /\ fit[p3] \in 0 .. 100 /\ fit[q] \in 0 .. 100 /\ p3[1] \in Nat /\ q[1] \in Nat
        /\ p3[2] \in Nat /\ q[2] \in Nat
    BY <1>2, <1>6
  <2>2. CASE fit[q] # fit[p1]
    <3>1. fit[q] <= fit[p3]
      BY <1>3, <1>6
    <3> QED
      BY <1>6, <2>1, <2>2, <3>1 DEF Before
  <2>3. CASE q \in best /\ q \notin same
    <3>1. p3[1] <= q[1] /\ p3[1] # q[1]
      BY <1>4, <1>6, <2>3
    <3> QED
      BY <1>6, <2>1, <2>3, <3>1 DEF Before
  <2>4. CASE q \in same
    <3>1. p3[2] <= q[2] /\ q[1] = p3[1] /\ fit[q] = fit[p3]
      BY <1>5, <1>6, <2>4
    <3> QED
      BY <2>1, <3>1 DEF Before
  <2> QED
    BY <2>2, <2>3, <2>4
<1> HIDE DEF lacks, best, golds, same, preds
<1> QED
  BY <1>6, <1>7 DEF Candidate

LEMMA ConsiderKeeps ==
    ASSUME ScoringInv, Consider
    PROVE  ScoringInv'
<1>1. /\ stage = "match" /\ rest # {} /\ rest' = rest \ {Candidate}
      /\ UNCHANGED <<stage, size, severe, fit, count, passed>>
  BY DEF Consider
<1>2. /\ ScoringTypeOK /\ fit \in [Pairs -> Fits] /\ matches \subseteq Pairs \ rest
      /\ SettledFirst /\ OneToOne /\ MatchingIsStable /\ rest \subseteq Pairs
  BY <1>1 DEF ScoringInv, MatchInv, ScoringTypeOK
<1> DEFINE c == Candidate
<1>3. c \in rest /\ \A q \in rest : Before(c, q)
  BY <1>1, <1>2, CandidateIsFirst
<1>4. Pairs' = Pairs
  BY <1>1 DEF Pairs
<1>5. \A p \in Pairs : fit[p] \in 0 .. 100
  BY <1>2, FitIsNumber
<1>6. \A q \in rest : fit[q] <= fit[c]
  BY <1>2, <1>3, <1>5 DEF Before
<1>7. matches' = IF fit[c] >= RiskThreshold /\ Free(c) THEN matches \cup {c} ELSE matches
  BY DEF Consider
<1> HIDE DEF c
<1>8. Pairs \ rest' = (Pairs \ rest) \cup {c}
  BY <1>1, <1>2, <1>3 DEF c
<1>9. SettledFirst'
  <2> SUFFICES ASSUME NEW p \in Pairs \ rest', NEW q \in rest'
               PROVE  fit[q] <= fit[p]
    BY <1>1, <1>4 DEF SettledFirst
  <2>1. q \in rest
    BY <1>1
  <2>2. CASE p \in Pairs \ rest
    BY <1>2, <2>1, <2>2 DEF SettledFirst
  <2>3. CASE p = c
    BY <1>6, <2>1, <2>3
  <2> QED
    BY <1>8, <2>2, <2>3
<1>10. OneToOne'
  BY <1>2, <1>7 DEF OneToOne, Free
<1>11. matches' \subseteq Pairs' \ rest'
  BY <1>1, <1>2, <1>3, <1>4, <1>7, <1>8 DEF c
<1>12. MatchingIsStable'
  <2> SUFFICES ASSUME NEW p \in Pairs \ rest', fit[p] >= RiskThreshold
               PROVE  \E m \in matches' : (m[1] = p[1] \/ m[2] = p[2]) /\ fit[m] >= fit[p]
    BY <1>1, <1>4 DEF MatchingIsStable
  <2>1. CASE p \in Pairs \ rest
    <3>1. PICK m \in matches : (m[1] = p[1] \/ m[2] = p[2]) /\ fit[m] >= fit[p]
      BY <1>1, <1>2, <2>1 DEF MatchingIsStable
    <3> QED
      BY <1>7, <3>1
  <2>2. CASE p = c /\ Free(c)
    <3>1. c \in matches'
      BY <1>7, <2>2
    <3>2. fit[c] >= fit[c]
      BY <1>2, <1>3, <1>5
    <3> QED
      BY <2>2, <3>1, <3>2
  <2>3. CASE p = c /\ ~Free(c)
    <3>1. PICK m \in matches : m[1] = c[1] \/ m[2] = c[2]
      BY <2>3 DEF Free
    <3>2. fit[m] >= fit[c]
      BY <1>2, <1>3, <1>5, <3>1 DEF SettledFirst
    <3> QED
      BY <1>7, <2>3, <3>1, <3>2
  <2> QED
    BY <1>8, <2>1, <2>2, <2>3
<1>13. ScoringTypeOK'
  <2>1. matches' \subseteq Pairs' /\ rest' \subseteq Pairs'
    BY <1>1, <1>2, <1>4, <1>11
  <2> QED
    BY <1>1, <1>2, <2>1 DEF ScoringTypeOK
<1>14. MatchInv'
  BY <1>1, <1>2, <1>4, <1>9, <1>10, <1>11, <1>12 DEF ScoringInv, MatchInv
<1>15. CountInv' /\ CountsAddUp'
  BY <1>1 DEF ScoringInv, CountInv, CountsAddUp
<1>16. PassInv'
  <2>1. passed' = None /\ stage' = "match"
    BY <1>1 DEF ScoringInv, PassInv
  <2> QED
    BY <2>1, ScoringAssumption DEF PassInv
<1> QED
  BY <1>13, <1>14, <1>15, <1>16 DEF ScoringInv

-----------------------------------------------------------------------------
(* Counting. *)

LEMMA RestOfAnInterval ==
    ASSUME NEW n \in Nat, NEW S \in SUBSET (1 .. n)
    PROVE  /\ IsFiniteSet(S) /\ Cardinality(S) \in Nat /\ Cardinality((1 .. n) \ S) \in Nat
           /\ Cardinality(S) + Cardinality((1 .. n) \ S) = n
<1>1. IsFiniteSet(1 .. n) /\ Cardinality(1 .. n) = n
  BY FS_Interval
<1>2. IsFiniteSet(S) /\ IsFiniteSet((1 .. n) \ S)
  BY <1>1, FS_Subset
<1>3. Cardinality((1 .. n) \ S) = Cardinality(1 .. n) - Cardinality((1 .. n) \cap S)
  BY <1>1, FS_Difference
<1>4. (1 .. n) \cap S = S
  OBVIOUS
<1>5. Cardinality(S) \in Nat /\ Cardinality((1 .. n) \ S) \in Nat
  BY <1>2, FS_CardinalityType
<1>6. Cardinality((1 .. n) \ S) = n - Cardinality(S)
  BY <1>1, <1>3, <1>4
<1> DEFINE a == Cardinality(S)
           b == Cardinality((1 .. n) \ S)
<1>7. a \in Nat /\ b \in Nat /\ b = n - a
  BY <1>5, <1>6
<1> HIDE DEF a, b
<1>8. a + b = n
  BY <1>7
<1> QED
  BY <1>2, <1>5, <1>8 DEF a, b

\* As many gold risks and predictions are matched as there are matches.
LEMMA MatchesAreCounted ==
    ASSUME ScoringTypeOK, OneToOne
    PROVE  /\ IsFiniteSet(matches)
           /\ MatchedGold \subseteq 1 .. size.gold
           /\ MatchedPredicted \subseteq 1 .. size.predicted
           /\ Cardinality(MatchedGold) = Cardinality(matches)
           /\ Cardinality(MatchedPredicted) = Cardinality(matches)
<1>1. size.gold \in Nat /\ size.predicted \in Nat /\ matches \subseteq Pairs
  BY ScoringAssumption DEF ScoringTypeOK
<1>2. /\ MatchedGold \subseteq 1 .. size.gold
      /\ MatchedPredicted \subseteq 1 .. size.predicted
  BY <1>1 DEF MatchedGold, MatchedPredicted, Pairs
<1>3. IsFiniteSet(MatchedGold) /\ IsFiniteSet(MatchedPredicted)
  BY <1>1, <1>2, RestOfAnInterval
<1> DEFINE g == [m \in matches |-> m[1]]
           p == [m \in matches |-> m[2]]
<1>4. g \in Bijection(matches, MatchedGold)
  BY DEF Bijection, Injection, Surjection, IsInjective, MatchedGold, OneToOne
<1>5. p \in Bijection(matches, MatchedPredicted)
  BY DEF Bijection, Injection, Surjection, IsInjective, MatchedPredicted, OneToOne
<1>6. IsFiniteSet(matches) /\ Cardinality(MatchedGold) = Cardinality(matches)
  <2>1. IsFiniteSet(matches)
    BY <1>3, <1>4, FS_Injection DEF Bijection
  <2>2. ExistsBijection(matches, MatchedGold)
    BY <1>4 DEF ExistsBijection
  <2> QED
    BY <2>1, <2>2, FS_Bijection
<1>7. Cardinality(MatchedPredicted) = Cardinality(matches)
  <2>1. ExistsBijection(matches, MatchedPredicted)
    BY <1>5 DEF ExistsBijection
  <2> QED
    BY <1>6, <2>1, FS_Bijection
<1> QED
  BY <1>2, <1>6, <1>7

LEMMA CountTyped ==
    ASSUME ScoringTypeOK
    PROVE  /\ count.tp \in Nat /\ count.fn \in Nat /\ count.fp \in Nat /\ count.severe \in Nat
           /\ count.severeFn \in Nat /\ count.citations \in Nat /\ count.valid \in Nat
           /\ count.matched \in Nat /\ count.questions \in Nat /\ count.noEvidence \in Nat
           /\ count.refused \in Nat /\ count.hallucination \in Nat /\ count.conflicts \in Nat
           /\ count.priority \in Nat /\ count.security \in Nat /\ count.leaks \in Nat
           /\ count.field \in Nat /\ count.fieldRight \in Nat /\ count.obTp \in Nat
           /\ count.obFn \in Nat
  BY DEF ScoringTypeOK, Counters

LEMMA CountRisksKeeps ==
    ASSUME ScoringInv, CountRisks
    PROVE  ScoringInv'
<1>1. /\ stage = "match" /\ rest = {} /\ stage' = "cite" /\ matches' = {} /\ severe' = {}
      /\ UNCHANGED <<size, rest, passed>>
  BY DEF CountRisks
<1>2. ScoringTypeOK /\ OneToOne /\ count = [c \in Counters |-> 0]
  BY <1>1 DEF ScoringInv, MatchInv
<1> DEFINE tp == Cardinality(matches)
           fn == Cardinality((1..size.gold) \ MatchedGold)
           fp == Cardinality((1..size.predicted) \ MatchedPredicted)
           sv == Cardinality(severe)
           sf == Cardinality(severe \ MatchedGold)
<1>3. size.gold \in 0 .. MaxGold /\ size.gold \in Nat /\ size.predicted \in Nat
      /\ severe \subseteq 1 .. size.gold
  BY <1>2, ScoringAssumption DEF ScoringTypeOK
<1>4. tp \in Nat /\ fn \in Nat /\ fp \in Nat /\ tp + fn = size.gold /\ tp + fp = size.predicted
  BY <1>2, <1>3, MatchesAreCounted, RestOfAnInterval
<1>5. sv \in Nat /\ sf \in Nat /\ sf <= sv
  <2>1. IsFiniteSet(severe) /\ sv \in Nat
    BY <1>3, RestOfAnInterval
  <2>2. severe \ MatchedGold \in SUBSET severe
    OBVIOUS
  <2>3. IsFiniteSet(severe \ MatchedGold) /\ sf <= sv
    BY <2>1, <2>2, FS_Subset
  <2> QED
    BY <2>1, <2>3, FS_CardinalityType
<1>6. count' = [count EXCEPT !.tp = tp, !.fn = fn, !.fp = fp, !.severe = sv, !.severeFn = sf]
  BY DEF CountRisks
<1> HIDE DEF tp, fn, fp, sv, sf
<1>7. /\ count' \in [Counters -> Nat]
      /\ count'.tp = tp /\ count'.fn = fn /\ count'.fp = fp /\ count'.severe = sv
      /\ count'.severeFn = sf
      /\ \A c \in Counters \ {"tp", "fn", "fp", "severe", "severeFn"} : count'[c] = 0
  BY <1>2, <1>4, <1>5, <1>6 DEF Counters
<1>8. /\ count'.citations = 0 /\ count'.valid = 0 /\ count'.noEvidence = 0
      /\ count'.questions = 0 /\ count'.refused = 0 /\ count'.hallucination = 0
      /\ count'.leaks = 0 /\ count'.security = 0 /\ count'.priority = 0 /\ count'.conflicts = 0
  BY <1>7 DEF Counters
<1>9. ScoringTypeOK'
  <2>1. count'.severeFn <= count'.severe /\ count'.valid <= count'.citations
        /\ count'.refused + count'.hallucination = count'.noEvidence
    BY <1>5, <1>7, <1>8
  <2>2. severe' \subseteq 1 .. size'.gold /\ matches' \subseteq Pairs' /\ rest' \subseteq Pairs'
    BY <1>1
  <2>3. /\ stage' \in {"match", "cite", "ask", "rest", "gate", "done"}
        /\ size' \in [gold : 0..MaxGold, predicted : 0..MaxPredicted]
        /\ passed' \in {None, TRUE, FALSE}
    BY <1>1, <1>2 DEF ScoringTypeOK
  <2> QED
    BY <1>7, <2>1, <2>2, <2>3 DEF ScoringTypeOK
<1>10. MatchInv'
  BY <1>1 DEF MatchInv
<1>11. CountInv'
  BY <1>4, <1>7, <1>8, ScoringAssumption DEF CountInv
<1>12. CountsAddUp'
  BY <1>1, <1>4, <1>7 DEF CountsAddUp
<1>13. PassInv'
  <2>1. passed' = None
    BY <1>1 DEF ScoringInv, PassInv
  <2> QED
    BY <1>1, <2>1, ScoringAssumption DEF PassInv
<1> QED
  BY <1>9, <1>10, <1>11, <1>12, <1>13 DEF ScoringInv

-----------------------------------------------------------------------------
(* The other counters and the gate. *)

\* After matching only the stage, the counters and the answer change.
LEMMA LaterKeeps ==
    ASSUME ScoringInv, stage # "match", stage' # "match",
           stage' \in {"cite", "ask", "rest", "gate", "done"},
           UNCHANGED <<size, severe, rest, matches>>,
           count' \in [Counters -> Nat], passed' \in {None, TRUE, FALSE},
           count'.tp = count.tp, count'.fn = count.fn, count'.fp = count.fp,
           count'.severe = count.severe, count'.severeFn = count.severeFn,
           count'.valid <= count'.citations,
           count'.refused + count'.hallucination = count'.noEvidence
    PROVE  ScoringTypeOK' /\ MatchInv' /\ CountsAddUp'
<1>1. ScoringTypeOK'
  BY DEF ScoringInv, ScoringTypeOK, Pairs
<1>2. MatchInv'
  BY DEF MatchInv
<1>3. CountsAddUp'
  BY DEF ScoringInv, CountsAddUp
<1> QED
  BY <1>1, <1>2, <1>3

LEMMA CountSums ==
    ASSUME ScoringInv
    PROVE  /\ count \in [Counters -> Nat] /\ count.valid <= count.citations
           /\ count.refused + count.hallucination = count.noEvidence
           /\ count.severeFn <= count.severe
           /\ passed \in {None, TRUE, FALSE}
           /\ stage # "done" => passed = None
  BY DEF ScoringInv, ScoringTypeOK, PassInv

LEMMA NoAnswerYet ==
    ASSUME passed' = None
    PROVE  PassInv'
  BY ScoringAssumption DEF PassInv

LEMMA CiteKeeps ==
    ASSUME ScoringInv, NEW valid \in BOOLEAN, NEW matched \in BOOLEAN, Cite(valid, matched)
    PROVE  ScoringInv'
<1> DEFINE v == IF valid THEN 1 ELSE 0
           m == IF matched THEN 1 ELSE 0
<1>1. v \in 0 .. 1 /\ m \in 0 .. 1
  OBVIOUS
<1>2. /\ stage = "cite" /\ count.citations < count.tp
      /\ count' = [count EXCEPT !.citations = @ + 1, !.valid = @ + v, !.matched = @ + m]
      /\ UNCHANGED <<stage, size, severe, fit, rest, matches, passed>>
  BY DEF Cite
<1> HIDE DEF v, m
<1>3. /\ count \in [Counters -> Nat] /\ count.valid <= count.citations /\ passed = None
      /\ count.refused + count.hallucination = count.noEvidence
  BY <1>2, CountSums
<1>4. /\ count.tp \in Nat /\ count.citations \in Nat /\ count.valid \in Nat /\ count.matched \in Nat
  BY CountTyped DEF ScoringInv
<1>5. /\ count' \in [Counters -> Nat]
      /\ count'.citations = count.citations + 1 /\ count'.valid = count.valid + v
      /\ \A c \in Counters \ {"citations", "valid", "matched"} : count'[c] = count[c]
  <2> DEFINE a == count.citations + 1
             b == count.valid + v
             d == count.matched + m
  <2>1. a \in Nat /\ b \in Nat /\ d \in Nat
    BY <1>1, <1>4
  <2>2. count' = [count EXCEPT !.citations = a, !.valid = b, !.matched = d]
    BY <1>2
  <2> HIDE DEF a, b, d
  <2>3. /\ count' \in [Counters -> Nat] /\ count'.citations = a /\ count'.valid = b
        /\ \A c \in Counters \ {"citations", "valid", "matched"} : count'[c] = count[c]
    BY <1>3, <2>1, <2>2 DEF Counters
  <2> QED
    BY <2>3 DEF a, b
<1>6. /\ count'.tp = count.tp /\ count'.fn = count.fn /\ count'.fp = count.fp
      /\ count'.severe = count.severe /\ count'.severeFn = count.severeFn
      /\ count'.refused = count.refused /\ count'.hallucination = count.hallucination
      /\ count'.noEvidence = count.noEvidence /\ count'.questions = count.questions
      /\ count'.leaks = count.leaks /\ count'.security = count.security
      /\ count'.priority = count.priority /\ count'.conflicts = count.conflicts
  BY <1>5 DEF Counters
<1>7. count'.valid <= count'.citations /\ count'.citations <= count'.tp
  BY <1>1, <1>2, <1>3, <1>4, <1>5, <1>6
<1>8. CountInv'
  BY <1>6, <1>7 DEF ScoringInv, CountInv
<1>9. PassInv'
  BY <1>2, <1>3, NoAnswerYet
<1>10. ScoringTypeOK' /\ MatchInv' /\ CountsAddUp'
  BY <1>2, <1>3, <1>5, <1>6, <1>7, LaterKeeps
<1> QED
  BY <1>8, <1>9, <1>10 DEF ScoringInv

LEMMA EndCitationsKeeps ==
    ASSUME ScoringInv, EndCitations \/ EndQuestions
    PROVE  ScoringInv'
<1>1. /\ stage \in {"cite", "ask"} /\ stage' \in {"ask", "rest"}
      /\ UNCHANGED <<size, severe, fit, rest, matches, count, passed>>
  BY DEF EndCitations, EndQuestions
<1>2. /\ count \in [Counters -> Nat] /\ count.valid <= count.citations /\ passed = None
      /\ count.refused + count.hallucination = count.noEvidence
  BY <1>1, CountSums
<1>3. CountInv' /\ PassInv'
  BY <1>1, <1>2, NoAnswerYet DEF ScoringInv, CountInv
<1>4. ScoringTypeOK' /\ MatchInv' /\ CountsAddUp'
  BY <1>1, <1>2, LaterKeeps
<1> QED
  BY <1>3, <1>4 DEF ScoringInv

LEMMA UnansweredKeeps ==
    ASSUME ScoringInv, stage = "ask", count.questions < MaxQuestions,
           count' = Plus("questions", 1),
           UNCHANGED <<stage, size, severe, fit, rest, matches, passed>>
    PROVE  ScoringInv'
<1>1. /\ count \in [Counters -> Nat] /\ count.valid <= count.citations /\ passed = None
      /\ count.refused + count.hallucination = count.noEvidence
  BY CountSums
<1>2. count.questions \in Nat /\ count.noEvidence \in Nat
  BY CountTyped DEF ScoringInv
<1>3. /\ count' \in [Counters -> Nat] /\ count'.questions = count.questions + 1
      /\ \A c \in Counters \ {"questions"} : count'[c] = count[c]
  BY <1>1, <1>2 DEF Plus, Counters
<1>4. /\ count'.tp = count.tp /\ count'.fn = count.fn /\ count'.fp = count.fp
      /\ count'.severe = count.severe /\ count'.severeFn = count.severeFn
      /\ count'.citations = count.citations /\ count'.valid = count.valid
      /\ count'.refused = count.refused /\ count'.hallucination = count.hallucination
      /\ count'.noEvidence = count.noEvidence
      /\ count'.leaks = count.leaks /\ count'.security = count.security
      /\ count'.priority = count.priority /\ count'.conflicts = count.conflicts
  BY <1>3 DEF Counters
<1>5. count'.noEvidence <= count'.questions /\ count'.questions <= MaxQuestions
  BY <1>2, <1>3, <1>4, ScoringAssumption DEF ScoringInv, CountInv
<1>6. CountInv'
  BY <1>4, <1>5 DEF ScoringInv, CountInv
<1>7. PassInv'
  BY <1>1, NoAnswerYet
<1>8. ScoringTypeOK' /\ MatchInv' /\ CountsAddUp'
  BY <1>1, <1>3, <1>4, LaterKeeps
<1> QED
  BY <1>6, <1>7, <1>8 DEF ScoringInv

LEMMA AnsweredKeeps ==
    ASSUME ScoringInv, NEW noEvidence \in BOOLEAN, NEW refusal \in BOOLEAN,
           NEW sources \in BOOLEAN, Answered(noEvidence, refusal, sources)
    PROVE  ScoringInv'
<1>1. /\ stage = "ask" /\ count.questions < MaxQuestions
      /\ UNCHANGED <<stage, size, severe, fit, rest, matches, passed>>
  BY DEF Answered
<1>2. CASE ~noEvidence
  <2>1. count' = Plus("questions", 1)
    BY <1>2 DEF Answered
  <2> QED
    BY <1>1, <2>1, UnansweredKeeps
<1>3. CASE noEvidence
  <2> DEFINE r == IF refusal /\ ~sources THEN 1 ELSE 0
             h == IF refusal /\ ~sources THEN 0 ELSE 1
  <2>1. r \in Nat /\ h \in Nat /\ r + h = 1
    OBVIOUS
  <2>2. count' = [count EXCEPT !.questions = @ + 1, !.noEvidence = @ + 1, !.refused = @ + r,
                               !.hallucination = @ + h]
    BY <1>3 DEF Answered
  <2> HIDE DEF r, h
  <2>3. /\ count \in [Counters -> Nat] /\ count.valid <= count.citations /\ passed = None
        /\ count.refused + count.hallucination = count.noEvidence
    BY <1>1, CountSums
  <2>4. /\ count.questions \in Nat /\ count.noEvidence \in Nat /\ count.refused \in Nat
        /\ count.hallucination \in Nat
    BY CountTyped DEF ScoringInv
  <2>5. /\ count' \in [Counters -> Nat] /\ count'.questions = count.questions + 1
        /\ count'.noEvidence = count.noEvidence + 1 /\ count'.refused = count.refused + r
        /\ count'.hallucination = count.hallucination + h
        /\ \A c \in Counters \ {"questions", "noEvidence", "refused", "hallucination"} :
              count'[c] = count[c]
    <3> DEFINE a == count.questions + 1
               b == count.noEvidence + 1
               d == count.refused + r
               e == count.hallucination + h
    <3>1. a \in Nat /\ b \in Nat /\ d \in Nat /\ e \in Nat
      BY <2>1, <2>4
    <3>2. count' = [count EXCEPT !.questions = a, !.noEvidence = b, !.refused = d,
                                 !.hallucination = e]
      BY <2>2
    <3> HIDE DEF a, b, d, e
    <3>3. /\ count' \in [Counters -> Nat] /\ count'.questions = a /\ count'.noEvidence = b
          /\ count'.refused = d /\ count'.hallucination = e
          /\ \A c \in Counters \ {"questions", "noEvidence", "refused", "hallucination"} :
                count'[c] = count[c]
      BY <2>3, <3>1, <3>2 DEF Counters
    <3> QED
      BY <3>3 DEF a, b, d, e
  <2>6. /\ count'.tp = count.tp /\ count'.fn = count.fn /\ count'.fp = count.fp
        /\ count'.severe = count.severe /\ count'.severeFn = count.severeFn
        /\ count'.citations = count.citations /\ count'.valid = count.valid
        /\ count'.leaks = count.leaks /\ count'.security = count.security
        /\ count'.priority = count.priority /\ count'.conflicts = count.conflicts
    BY <2>5 DEF Counters
  <2>7. count'.refused + count'.hallucination = count'.noEvidence
    BY <2>1, <2>3, <2>4, <2>5
  <2>8. count'.noEvidence <= count'.questions /\ count'.questions <= MaxQuestions
    BY <1>1, <2>4, <2>5, ScoringAssumption DEF ScoringInv, CountInv
  <2>9. CountInv'
    BY <2>6, <2>8 DEF ScoringInv, CountInv
  <2>10. PassInv'
    BY <1>1, <2>3, NoAnswerYet
  <2>11. ScoringTypeOK' /\ MatchInv' /\ CountsAddUp'
    BY <1>1, <2>3, <2>5, <2>6, <2>7, LaterKeeps
  <2> QED
    BY <2>9, <2>10, <2>11 DEF ScoringInv
<1> QED
  BY <1>2, <1>3

LEMMA CountRestKeeps ==
    ASSUME ScoringInv, NEW f \in 0 .. 2, NEW o \in 0 .. 1, NEW conflict, NEW security,
           CountRest(f, o, conflict, security)
    PROVE  ScoringInv'
<1> DEFINE c1 == IF conflict = "none" THEN 0 ELSE 1
           p1 == IF conflict = "priority" THEN 1 ELSE 0
           s1 == IF security = "none" THEN 0 ELSE 1
           l1 == IF security = "leak" THEN 1 ELSE 0
<1>1. /\ c1 \in Nat /\ p1 \in Nat /\ s1 \in Nat /\ l1 \in Nat
      /\ p1 <= c1 /\ c1 <= 1 /\ l1 <= s1 /\ s1 <= 1
  OBVIOUS
<1>2. /\ stage = "rest" /\ stage' = "gate"
      /\ count' = [count EXCEPT !.field = 2, !.fieldRight = f, !.obTp = 3 - o, !.obFn = o,
                                !.conflicts = c1, !.priority = p1, !.security = s1, !.leaks = l1]
      /\ UNCHANGED <<size, severe, fit, rest, matches, passed>>
  BY DEF CountRest
<1> HIDE DEF c1, p1, s1, l1
<1>3. /\ count \in [Counters -> Nat] /\ count.valid <= count.citations /\ passed = None
      /\ count.refused + count.hallucination = count.noEvidence
  BY <1>2, CountSums
<1>4. f \in Nat /\ o \in Nat /\ 3 - o \in Nat
  OBVIOUS
<1>5. /\ count' \in [Counters -> Nat]
      /\ count'.conflicts = c1 /\ count'.priority = p1 /\ count'.security = s1 /\ count'.leaks = l1
      /\ \A c \in Counters \ {"field", "fieldRight", "obTp", "obFn", "conflicts", "priority",
                              "security", "leaks"} : count'[c] = count[c]
  BY <1>1, <1>2, <1>3, <1>4 DEF Counters
<1>6. /\ count'.tp = count.tp /\ count'.fn = count.fn /\ count'.fp = count.fp
      /\ count'.severe = count.severe /\ count'.severeFn = count.severeFn
      /\ count'.citations = count.citations /\ count'.valid = count.valid
      /\ count'.refused = count.refused /\ count'.hallucination = count.hallucination
      /\ count'.noEvidence = count.noEvidence /\ count'.questions = count.questions
  BY <1>5 DEF Counters
<1>7. CountInv'
  BY <1>1, <1>5, <1>6 DEF ScoringInv, CountInv
<1>8. PassInv'
  BY <1>2, <1>3, NoAnswerYet
<1>9. ScoringTypeOK' /\ MatchInv' /\ CountsAddUp'
  BY <1>2, <1>3, <1>5, <1>6, LaterKeeps
<1> QED
  BY <1>7, <1>8, <1>9 DEF ScoringInv

LEMMA GateKeeps ==
    ASSUME ScoringInv, Gate
    PROVE  ScoringInv'
<1>1. /\ stage = "gate" /\ stage' = "done"
      /\ UNCHANGED <<size, severe, fit, rest, matches, count>>
  BY DEF Gate
<1>2. /\ count \in [Counters -> Nat] /\ count.valid <= count.citations
      /\ count.refused + count.hallucination = count.noEvidence
  BY CountSums
<1>3. passed' \in {None, TRUE, FALSE}
  BY DEF Gate
<1>4. ASSUME passed' = TRUE
      PROVE  /\ ~HardFailure
             /\ Ratio(count.matched, count.citations) >= Percent(80)
             /\ Whole - Ratio(count.refused, count.noEvidence) <= Percent(5)
             /\ Ratio(count.severe - count.severeFn, count.severe) >= Percent(80)
  BY <1>4 DEF Gate
<1>5. ASSUME passed' = TRUE
      PROVE  count.severe > 0 /\ count.citations > 0 /\ count.noEvidence > 0
  <2>1. count.severe \in Nat /\ count.citations \in Nat /\ count.noEvidence \in Nat
    BY CountTyped DEF ScoringInv
  <2>2. count.severe # 0
    BY <1>4, <1>5 DEF Ratio, Percent
  <2>3. count.citations # 0
    BY <1>4, <1>5 DEF Ratio, Percent
  <2>4. count.noEvidence # 0
    BY <1>4, <1>5 DEF Ratio, Percent, Whole
  <2> QED
    BY <2>1, <2>2, <2>3, <2>4
<1>6. HardFailure' <=> HardFailure
  BY <1>1 DEF HardFailure
<1>7. PassInv'
  BY <1>1, <1>4, <1>5, <1>6 DEF PassInv
<1>8. CountInv'
  BY <1>1 DEF ScoringInv, CountInv
<1>9. ScoringTypeOK' /\ MatchInv' /\ CountsAddUp'
  BY <1>1, <1>2, <1>3, LaterKeeps
<1> QED
  BY <1>7, <1>8, <1>9 DEF ScoringInv

-----------------------------------------------------------------------------
(* The invariant of the benchmark. *)

LEMMA ScoringInitIsFair == ScoringInit => ScoringInv
<1> SUFFICES ASSUME ScoringInit PROVE ScoringInv
  OBVIOUS
<1>1. /\ stage = "match" /\ size \in [gold : 0..MaxGold, predicted : 0..MaxPredicted]
      /\ severe \in SUBSET (1 .. size.gold) /\ fit \in [Pairs -> Fits] /\ rest = Pairs
      /\ matches = {} /\ count = [c \in Counters |-> 0] /\ passed = None
  BY DEF ScoringInit
<1>2. count \in [Counters -> Nat] /\ \A c \in Counters : count[c] = 0
  BY <1>1
<1>3. /\ count.tp = 0 /\ count.severe = 0 /\ count.severeFn = 0 /\ count.citations = 0
      /\ count.valid = 0 /\ count.refused = 0 /\ count.hallucination = 0 /\ count.noEvidence = 0
      /\ count.questions = 0 /\ count.leaks = 0 /\ count.security = 0 /\ count.priority = 0
      /\ count.conflicts = 0
  BY <1>2 DEF Counters
<1>4. ScoringTypeOK
  BY <1>1, <1>2, <1>3 DEF ScoringTypeOK
<1>5. MatchInv
  BY <1>1 DEF MatchInv, SettledFirst, OneToOne, MatchingIsStable
<1>6. CountInv
  BY <1>3, ScoringAssumption DEF CountInv
<1>7. CountsAddUp /\ PassInv
  BY <1>1, ScoringAssumption DEF CountsAddUp, PassInv
<1> QED
  BY <1>4, <1>5, <1>6, <1>7 DEF ScoringInv

LEMMA ScoringNextKeeps == ScoringInv /\ [ScoringNext]_scoringVars => ScoringInv'
<1> SUFFICES ASSUME ScoringInv, [ScoringNext]_scoringVars PROVE ScoringInv'
  OBVIOUS
<1>1. CASE Consider
  BY <1>1, ConsiderKeeps
<1>2. CASE CountRisks
  BY <1>2, CountRisksKeeps
<1>3. ASSUME NEW v \in BOOLEAN, NEW m \in BOOLEAN, Cite(v, m)
      PROVE  ScoringInv'
  BY <1>3, CiteKeeps
<1>4. CASE EndCitations \/ EndQuestions
  BY <1>4, EndCitationsKeeps
<1>5. CASE Unanswered
  BY <1>5, UnansweredKeeps DEF Unanswered
<1>6. ASSUME NEW n \in BOOLEAN, NEW r \in BOOLEAN, NEW s \in BOOLEAN, Answered(n, r, s)
      PROVE  ScoringInv'
  BY <1>6, AnsweredKeeps
<1>7. ASSUME NEW f \in 0 .. 2, NEW o \in 0 .. 1, NEW c \in {"none", "held", "priority"},
             NEW s \in {"none", "held", "leak"}, CountRest(f, o, c, s)
      PROVE  ScoringInv'
  BY <1>7, CountRestKeeps
<1>8. CASE Gate
  BY <1>8, GateKeeps
<1>9. CASE UNCHANGED scoringVars
  <2>1. UNCHANGED <<stage, size, severe, fit, rest, matches, count, passed>>
    BY <1>9 DEF scoringVars
  <2>2. ScoringTypeOK' /\ CountInv' /\ CountsAddUp'
    BY <2>1 DEF ScoringInv, ScoringTypeOK, CountInv, CountsAddUp, Pairs
  <2>3. MatchInv'
    BY <2>1 DEF ScoringInv, MatchInv, SettledFirst, OneToOne, MatchingIsStable, Pairs
  <2>4. HardFailure' <=> HardFailure
    BY <2>1 DEF HardFailure
  <2>5. PassInv'
    BY <2>1, <2>4 DEF ScoringInv, PassInv
  <2> QED
    BY <2>2, <2>3, <2>5 DEF ScoringInv
<1> QED
  BY <1>1, <1>2, <1>3, <1>4, <1>5, <1>6, <1>7, <1>8, <1>9 DEF ScoringNext

\* A rate that rounds to nothing is of nothing, and one that rounds to all is of all.
LEMMA PassFollows ==
    ASSUME MaxGold < 2 * Whole, MaxQuestions < 2 * Whole, ScoringInv
    PROVE  PassIsClean
<1> SUFFICES ASSUME passed = TRUE
             PROVE  /\ count.valid = count.citations
                    /\ count.hallucination + count.leaks + count.priority = 0
  BY DEF PassIsClean
<1>1. ~HardFailure /\ count.citations > 0 /\ stage = "done"
  BY DEF ScoringInv, PassInv
<1>2. /\ count.valid <= count.citations /\ count.refused + count.hallucination = count.noEvidence
  BY CountSums
<1>3. /\ count.valid \in Nat /\ count.citations \in Nat /\ count.tp \in Nat /\ count.fn \in Nat
      /\ count.hallucination \in Nat /\ count.refused \in Nat /\ count.noEvidence \in Nat
      /\ count.leaks \in Nat /\ count.security \in Nat /\ count.priority \in Nat
      /\ count.conflicts \in Nat /\ count.questions \in Nat
  BY CountTyped DEF ScoringInv
<1>4. count.citations < 2 * Whole
  <2>1. count.citations <= count.tp /\ count.tp + count.fn = size.gold
    BY <1>1 DEF ScoringInv, CountInv, CountsAddUp
  <2>2. size.gold \in Nat /\ size.gold <= MaxGold
    BY ScoringAssumption DEF ScoringInv, ScoringTypeOK
  <2> QED
    BY <1>3, <2>1, <2>2, ScoringAssumption DEF Whole
<1>5. count.noEvidence < 2 * Whole
  BY <1>3, ScoringAssumption DEF ScoringInv, CountInv, Whole
<1>6. /\ count.leaks <= count.security /\ count.security < 2 * Whole
      /\ count.priority <= count.conflicts /\ count.conflicts < 2 * Whole
  BY <1>3 DEF ScoringInv, CountInv, Whole
<1>7. count.valid = count.citations
  BY <1>1, <1>2, <1>3, <1>4, RatioIsExact DEF HardFailure
<1>8. count.hallucination <= count.noEvidence
  BY <1>2, <1>3
<1>9. count.hallucination = 0
  BY <1>1, <1>3, <1>5, <1>8, RatioIsExact DEF HardFailure
<1>10. count.leaks = 0 /\ count.priority = 0
  BY <1>1, <1>3, <1>6, RatioIsExact DEF HardFailure
<1> QED
  BY <1>7, <1>9, <1>10

LEMMA MatchingFollows == ScoringInv => MatchingIsStable
  BY DEF ScoringInv, MatchInv, MatchingIsStable

\* Gold and predictions are matched stably and counted once, ratios over nothing do not pass,
\* and what passes has no hard failure: evaluation/matching.py and gate.py.  A rate is rounded
\* to millionths, so the last holds of fewer than two million citations and questions.
THEOREM ScoresStayFair ==
    ASSUME MaxGold < 2 * Whole, MaxQuestions < 2 * Whole
    PROVE  ScoringSpec => []ScoresAreFair
<1>1. ScoringInit => ScoringInv
  BY ScoringInitIsFair
<1>2. ScoringInv /\ [ScoringNext]_scoringVars => ScoringInv'
  BY ScoringNextKeeps
<1>3. ScoringInv => ScoresAreFair
  <2>1. ASSUME ScoringInv PROVE NoVacuousPass
    BY <2>1 DEF NoVacuousPass, ScoringInv, PassInv
  <2>2. ASSUME ScoringInv PROVE ScoringTypeOK /\ CountsAddUp
    BY <2>2 DEF ScoringInv
  <2> QED
    BY <2>1, <2>2, MatchingFollows, PassFollows DEF ScoresAreFair
<1> QED
  BY <1>1, <1>2, <1>3, PTL DEF ScoringSpec

-----------------------------------------------------------------------------
(* The tuning of thresholds, for any samples, grids and policies.          *)
(*                                                                         *)
(* The criteria order the rows of a grid totally, so that there is a best  *)
(* one and only one; of rows that are alike but for the distance to the    *)
(* threshold in force, the one in force wins, so a second calibration      *)
(* proposes the same again.  What is proposed is a row that was computed   *)
(* from the samples, and the replay of the gateway is the gateway.         *)

\* The criteria, first to last.
Lex4(a1, b1, a2, b2, a3, b3, a4, b4) ==
    \/ a1 < b1
    \/ a1 = b1 /\ a2 < b2
    \/ a1 = b1 /\ a2 = b2 /\ a3 < b3
    \/ a1 = b1 /\ a2 = b2 /\ a3 = b3 /\ a4 < b4

Lex5(a1, b1, a2, b2, a3, b3, a4, b4, a5, b5) ==
    \/ Lex4(a1, b1, a2, b2, a3, b3, a4, b4)
    \/ a1 = b1 /\ a2 = b2 /\ a3 = b3 /\ a4 = b4 /\ a5 < b5

\* The first criterion in which two rows differ decides.
LEMMA FirstDecides ==
    ASSUME NEW keys, NEW n \in Nat, DOMAIN keys = 1 .. n,
           NEW k \in 1 .. n, keys[k][1] # keys[k][2],
           \A j \in 1 .. n : j < k => keys[j][1] = keys[j][2]
    PROVE  First(keys) <=> keys[k][1] < keys[k][2]
<1> DEFINE at1 == {i \in DOMAIN keys : keys[i][1] # keys[i][2]}
           m   == CHOOSE i \in at1 : \A j \in at1 : i <= j
<1>1. k \in at1 /\ \A j \in at1 : k <= j
  OBVIOUS
<1>2. m \in at1 /\ \A j \in at1 : m <= j
  BY <1>1
<1>3. m = k
  <2>1. m <= k /\ k <= m
    BY <1>1, <1>2
  <2>2. m \in Nat /\ k \in Nat
    BY <1>2
  <2> HIDE DEF m
  <2> QED
    BY <2>1, <2>2
<1>4. First(keys) <=> (at1 # {} /\ keys[m][1] < keys[m][2])
  BY DEF First
<1> HIDE DEF m
<1> QED
  BY <1>1, <1>3, <1>4

LEMMA FirstIsNone ==
    ASSUME NEW keys, \A j \in DOMAIN keys : keys[j][1] = keys[j][2]
    PROVE  ~First(keys)
  BY DEF First

LEMMA FirstIsLex4 ==
    ASSUME NEW a1 \in Int, NEW b1 \in Int, NEW a2 \in Int, NEW b2 \in Int,
           NEW a3 \in Int, NEW b3 \in Int, NEW a4 \in Int, NEW b4 \in Int
    PROVE  First(<<<<a1, b1>>, <<a2, b2>>, <<a3, b3>>, <<a4, b4>>>>)
             <=> Lex4(a1, b1, a2, b2, a3, b3, a4, b4)
<1> DEFINE keys == <<<<a1, b1>>, <<a2, b2>>, <<a3, b3>>, <<a4, b4>>>>
<1>1. /\ DOMAIN keys = 1 .. 4 /\ 4 \in Nat
      /\ keys[1][1] = a1 /\ keys[1][2] = b1
      /\ keys[2][1] = a2 /\ keys[2][2] = b2
      /\ keys[3][1] = a3 /\ keys[3][2] = b3
      /\ keys[4][1] = a4 /\ keys[4][2] = b4
  OBVIOUS
<1> HIDE DEF keys
<1>2. CASE a1 # b1
  <2>1. \A j \in 1 .. 4 : j < 1 => keys[j][1] = keys[j][2]
    OBVIOUS
  <2>2. keys[1][1] # keys[1][2] /\ 1 \in 1 .. 4
    BY <1>1, <1>2
  <2>3. First(keys) <=> keys[1][1] < keys[1][2]
    BY <1>1, <2>1, <2>2, FirstDecides
  <2> QED
    BY <1>1, <1>2, <2>3 DEF keys, Lex4
<1>3. CASE a1 = b1 /\ a2 # b2
  <2>1. \A j \in 1 .. 4 : j < 2 => keys[j][1] = keys[j][2]
    <3>1. \A j \in 1 .. 4 : j < 2 => j = 1
      OBVIOUS
    <3> QED
      BY <1>1, <1>3, <3>1
  <2>2. keys[2][1] # keys[2][2] /\ 2 \in 1 .. 4
    BY <1>1, <1>3
  <2>3. First(keys) <=> keys[2][1] < keys[2][2]
    BY <1>1, <2>1, <2>2, FirstDecides
  <2> QED
    BY <1>1, <1>3, <2>3 DEF keys, Lex4
<1>4. CASE a1 = b1 /\ a2 = b2 /\ a3 # b3
  <2>1. \A j \in 1 .. 4 : j < 3 => keys[j][1] = keys[j][2]
    <3>1. \A j \in 1 .. 4 : j < 3 => j = 1 \/ j = 2
      OBVIOUS
    <3> QED
      BY <1>1, <1>4, <3>1
  <2>2. keys[3][1] # keys[3][2] /\ 3 \in 1 .. 4
    BY <1>1, <1>4
  <2>3. First(keys) <=> keys[3][1] < keys[3][2]
    BY <1>1, <2>1, <2>2, FirstDecides
  <2> QED
    BY <1>1, <1>4, <2>3 DEF keys, Lex4
<1>5. CASE a1 = b1 /\ a2 = b2 /\ a3 = b3 /\ a4 # b4
  <2>1. \A j \in 1 .. 4 : j < 4 => keys[j][1] = keys[j][2]
    <3>1. \A j \in 1 .. 4 : j < 4 => j = 1 \/ j = 2 \/ j = 3
      OBVIOUS
    <3> QED
      BY <1>1, <1>5, <3>1
  <2>2. keys[4][1] # keys[4][2] /\ 4 \in 1 .. 4
    BY <1>1, <1>5
  <2>3. First(keys) <=> keys[4][1] < keys[4][2]
    BY <1>1, <2>1, <2>2, FirstDecides
  <2> QED
    BY <1>1, <1>5, <2>3 DEF keys, Lex4
<1>6. CASE a1 = b1 /\ a2 = b2 /\ a3 = b3 /\ a4 = b4
  <2>1. \A j \in 1 .. 4 : j = 1 \/ j = 2 \/ j = 3 \/ j = 4
    OBVIOUS
  <2>2. ~First(keys)
    BY <1>1, <1>6, <2>1, FirstIsNone
  <2> QED
    BY <1>6, <2>2 DEF keys, Lex4
<1> QED
  BY <1>2, <1>3, <1>4, <1>5, <1>6

LEMMA FirstIsLex5 ==
    ASSUME NEW a1 \in Int, NEW b1 \in Int, NEW a2 \in Int, NEW b2 \in Int,
           NEW a3 \in Int, NEW b3 \in Int, NEW a4 \in Int, NEW b4 \in Int,
           NEW a5 \in Int, NEW b5 \in Int
    PROVE  First(<<<<a1, b1>>, <<a2, b2>>, <<a3, b3>>, <<a4, b4>>, <<a5, b5>>>>)
             <=> Lex5(a1, b1, a2, b2, a3, b3, a4, b4, a5, b5)
<1> DEFINE keys == <<<<a1, b1>>, <<a2, b2>>, <<a3, b3>>, <<a4, b4>>, <<a5, b5>>>>
<1>1. /\ DOMAIN keys = 1 .. 5 /\ 5 \in Nat
      /\ keys[1][1] = a1 /\ keys[1][2] = b1
      /\ keys[2][1] = a2 /\ keys[2][2] = b2
      /\ keys[3][1] = a3 /\ keys[3][2] = b3
      /\ keys[4][1] = a4 /\ keys[4][2] = b4
      /\ keys[5][1] = a5 /\ keys[5][2] = b5
  OBVIOUS
<1> HIDE DEF keys
<1>2. CASE a1 # b1
  <2>1. \A j \in 1 .. 5 : j < 1 => keys[j][1] = keys[j][2]
    OBVIOUS
  <2>2. keys[1][1] # keys[1][2] /\ 1 \in 1 .. 5
    BY <1>1, <1>2
  <2>3. First(keys) <=> keys[1][1] < keys[1][2]
    BY <1>1, <2>1, <2>2, FirstDecides
  <2> QED
    BY <1>1, <1>2, <2>3 DEF keys, Lex5, Lex4
<1>3. CASE a1 = b1 /\ a2 # b2
  <2>1. \A j \in 1 .. 5 : j < 2 => keys[j][1] = keys[j][2]
    <3>1. \A j \in 1 .. 5 : j < 2 => j = 1
      OBVIOUS
    <3> QED
      BY <1>1, <1>3, <3>1
  <2>2. keys[2][1] # keys[2][2] /\ 2 \in 1 .. 5
    BY <1>1, <1>3
  <2>3. First(keys) <=> keys[2][1] < keys[2][2]
    BY <1>1, <2>1, <2>2, FirstDecides
  <2> QED
    BY <1>1, <1>3, <2>3 DEF keys, Lex5, Lex4
<1>4. CASE a1 = b1 /\ a2 = b2 /\ a3 # b3
  <2>1. \A j \in 1 .. 5 : j < 3 => keys[j][1] = keys[j][2]
    <3>1. \A j \in 1 .. 5 : j < 3 => j = 1 \/ j = 2
      OBVIOUS
    <3> QED
      BY <1>1, <1>4, <3>1
  <2>2. keys[3][1] # keys[3][2] /\ 3 \in 1 .. 5
    BY <1>1, <1>4
  <2>3. First(keys) <=> keys[3][1] < keys[3][2]
    BY <1>1, <2>1, <2>2, FirstDecides
  <2> QED
    BY <1>1, <1>4, <2>3 DEF keys, Lex5, Lex4
<1>5. CASE a1 = b1 /\ a2 = b2 /\ a3 = b3 /\ a4 # b4
  <2>1. \A j \in 1 .. 5 : j < 4 => keys[j][1] = keys[j][2]
    <3>1. \A j \in 1 .. 5 : j < 4 => j = 1 \/ j = 2 \/ j = 3
      OBVIOUS
    <3> QED
      BY <1>1, <1>5, <3>1
  <2>2. keys[4][1] # keys[4][2] /\ 4 \in 1 .. 5
    BY <1>1, <1>5
  <2>3. First(keys) <=> keys[4][1] < keys[4][2]
    BY <1>1, <2>1, <2>2, FirstDecides
  <2> QED
    BY <1>1, <1>5, <2>3 DEF keys, Lex5, Lex4
<1>6. CASE a1 = b1 /\ a2 = b2 /\ a3 = b3 /\ a4 = b4 /\ a5 # b5
  <2>1. \A j \in 1 .. 5 : j < 5 => keys[j][1] = keys[j][2]
    <3>1. \A j \in 1 .. 5 : j < 5 => j = 1 \/ j = 2 \/ j = 3 \/ j = 4
      OBVIOUS
    <3> QED
      BY <1>1, <1>6, <3>1
  <2>2. keys[5][1] # keys[5][2] /\ 5 \in 1 .. 5
    BY <1>1, <1>6
  <2>3. First(keys) <=> keys[5][1] < keys[5][2]
    BY <1>1, <2>1, <2>2, FirstDecides
  <2> QED
    BY <1>1, <1>6, <2>3 DEF keys, Lex5, Lex4
<1>7. CASE a1 = b1 /\ a2 = b2 /\ a3 = b3 /\ a4 = b4 /\ a5 = b5
  <2>1. \A j \in 1 .. 5 : j = 1 \/ j = 2 \/ j = 3 \/ j = 4 \/ j = 5
    OBVIOUS
  <2>2. ~First(keys)
    BY <1>1, <1>7, <2>1, FirstIsNone
  <2> QED
    BY <1>7, <2>2 DEF keys, Lex5, Lex4
<1> QED
  BY <1>2, <1>3, <1>4, <1>5, <1>6, <1>7

LEMMA LeastBy ==
    ASSUME NEW S, S # {}, NEW k, \A x \in S : k[x] \in Nat
    PROVE  \E m \in S : \A x \in S : k[m] <= k[x]
<1> DEFINE values == {k[x] : x \in S}
<1>1. values \in SUBSET Nat /\ values # {}
  OBVIOUS
<1>2. PICK v \in values : \A w \in values : v <= w
  BY <1>1, LeastNumber
<1>3. PICK m \in S : v = k[m]
  BY <1>2
<1>4. \A x \in S : k[m] <= k[x]
  BY <1>2, <1>3
<1> QED
  BY <1>4

\* One goes before every other that the fifth criterion tells from it.
Leads(m, S, f1, f2, f3, f4, f5) ==
    \A x \in S :
       \/ Lex5(f1[m], f1[x], f2[m], f2[x], f3[m], f3[x], f4[m], f4[x], f5[m], f5[x])
       \/ f5[m] = f5[x]

\* By five criteria, one after another, there is a best.
LEMMA LexLeast ==
    ASSUME NEW S, S # {}, NEW f1 \in [S -> Nat], NEW f2 \in [S -> Nat], NEW f3 \in [S -> Nat],
           NEW f4 \in [S -> Nat], NEW f5 \in [S -> Nat]
    PROVE  \E m \in S : Leads(m, S, f1, f2, f3, f4, f5)
<1>1. \A x \in S : /\ f1[x] \in Nat /\ f2[x] \in Nat /\ f3[x] \in Nat
                   /\ f4[x] \in Nat /\ f5[x] \in Nat
  OBVIOUS
<1>3. PICK m1 \in S : \A x \in S : f1[m1] <= f1[x]
  BY <1>1, LeastBy
<1> DEFINE S1 == {x \in S : f1[x] = f1[m1]}
<1>4. PICK m2 \in S1 : \A x \in S1 : f2[m2] <= f2[x]
  <2>1. S1 # {} /\ \A x \in S1 : f2[x] \in Nat
    BY <1>1, <1>3
  <2> HIDE DEF S1
  <2> QED
    BY <2>1, LeastBy
<1> DEFINE S2 == {x \in S1 : f2[x] = f2[m2]}
<1>5. PICK m3 \in S2 : \A x \in S2 : f3[m3] <= f3[x]
  <2>1. S2 # {} /\ \A x \in S2 : f3[x] \in Nat
    BY <1>1, <1>4
  <2> HIDE DEF S2
  <2> QED
    BY <2>1, LeastBy
<1> DEFINE S3 == {x \in S2 : f3[x] = f3[m3]}
<1>6. PICK m4 \in S3 : \A x \in S3 : f4[m4] <= f4[x]
  <2>1. S3 # {} /\ \A x \in S3 : f4[x] \in Nat
    BY <1>1, <1>5
  <2> HIDE DEF S3
  <2> QED
    BY <2>1, LeastBy
<1> DEFINE S4 == {x \in S3 : f4[x] = f4[m4]}
<1>7. PICK m \in S4 : \A x \in S4 : f5[m] <= f5[x]
  <2>1. S4 # {} /\ \A x \in S4 : f5[x] \in Nat
    BY <1>1, <1>6
  <2> HIDE DEF S4
  <2> QED
    BY <2>1, LeastBy
<1>8. /\ m \in S /\ f1[m] = f1[m1] /\ f2[m] = f2[m2] /\ f3[m] = f3[m3] /\ f4[m] = f4[m4]
  BY <1>7
<1>9. ASSUME NEW x \in S
      PROVE  \/ Lex5(f1[m], f1[x], f2[m], f2[x], f3[m], f3[x], f4[m], f4[x], f5[m], f5[x])
             \/ f5[m] = f5[x]
  <2>1. /\ f1[x] \in Nat /\ f2[x] \in Nat /\ f3[x] \in Nat /\ f4[x] \in Nat /\ f5[x] \in Nat
        /\ f1[m] \in Nat /\ f2[m] \in Nat /\ f3[m] \in Nat /\ f4[m] \in Nat /\ f5[m] \in Nat
    BY <1>1, <1>8
  <2>2. f1[m] <= f1[x]
    BY <1>3, <1>8
  <2>3. f1[m] = f1[x] => f2[m] <= f2[x]
    BY <1>4, <1>8
  <2>4. f1[m] = f1[x] /\ f2[m] = f2[x] => f3[m] <= f3[x]
    BY <1>5, <1>8
  <2>5. f1[m] = f1[x] /\ f2[m] = f2[x] /\ f3[m] = f3[x] => f4[m] <= f4[x]
    BY <1>6, <1>8
  <2>6. f1[m] = f1[x] /\ f2[m] = f2[x] /\ f3[m] = f3[x] /\ f4[m] = f4[x] => f5[m] <= f5[x]
    BY <1>7, <1>8
  <2> QED
    BY <2>1, <2>2, <2>3, <2>4, <2>5, <2>6 DEF Lex5, Lex4
<1> QED
  BY <1>8, <1>9 DEF Leads

-----------------------------------------------------------------------------
(* The best direct-answer threshold. *)

\* Thresholds, in hundredths.
Grid == {n \in Nat : 1 <= n /\ n <= 100}

\* Stated for thresholds only: a distance is none, so the fact feeds on nothing it gives.
LEMMA AwayIs ==
    ASSUME NEW a \in Grid, NEW b \in Grid
    PROVE  Away(a, b) \in Nat /\ (Away(a, b) = 0 => a = b) /\ Away(a, a) = 0
<1>1. a \in Nat /\ b \in Nat
  BY DEF Grid
<1>2. CASE a < b
  BY <1>1, <1>2 DEF Away
<1>3. CASE ~ (a < b)
  BY <1>1, <1>3 DEF Away
<1> QED
  BY <1>2, <1>3

Rates  == {n \in Nat : n <= 10000}
FaqRow == [threshold : Grid, precision : Rates, recall : Rates, false : Rates, loss : Nat]

\* A set of rows in which a threshold names a row.
Keyed(pool) == \A r, s \in pool : r.threshold = s.threshold => r = s

LEMMA FaqRowIs ==
    ASSUME NEW r \in FaqRow
    PROVE  /\ r.threshold \in Nat /\ r.threshold <= 100 /\ r.threshold \in Grid
           /\ r.loss \in Nat
           /\ r.precision \in Nat /\ r.precision <= 10000
           /\ r.recall \in Nat /\ r.recall <= 10000
<1>1. r.threshold \in Grid /\ r.precision \in Rates /\ r.recall \in Rates /\ r.loss \in Nat
  BY DEF FaqRow
<1> QED
  BY <1>1 DEF Rates, Grid

LEMMA FaqBeforeIsLex ==
    ASSUME NEW r \in FaqRow, NEW s \in FaqRow, NEW c \in Grid
    PROVE  FaqBefore(r, s, c) <=>
             Lex5(r.loss, s.loss, s.precision, r.precision, s.recall, r.recall,
                  Away(r.threshold, c), Away(s.threshold, c), s.threshold, r.threshold)
<1>1. /\ r.loss \in Int /\ s.loss \in Int /\ r.precision \in Int /\ s.precision \in Int
      /\ r.recall \in Int /\ s.recall \in Int /\ r.threshold \in Int /\ s.threshold \in Int
      /\ Away(r.threshold, c) \in Int /\ Away(s.threshold, c) \in Int
  <2>1. r.threshold \in Grid /\ s.threshold \in Grid /\ r.threshold \in Nat /\ s.threshold \in Nat
    BY FaqRowIs
  <2>2. /\ r.loss \in Int /\ s.loss \in Int /\ r.precision \in Int /\ s.precision \in Int
        /\ r.recall \in Int /\ s.recall \in Int
    BY FaqRowIs
  <2>3. Away(r.threshold, c) \in Nat /\ Away(s.threshold, c) \in Nat
    BY <2>1, AwayIs
  <2> QED
    BY <2>1, <2>2, <2>3
<1> QED
  BY <1>1, FirstIsLex5 DEF FaqBefore

LEMMA ThereIsBestFaqRow ==
    ASSUME NEW pool \in SUBSET FaqRow, pool # {}, Keyed(pool), NEW c \in Grid
    PROVE  \E m \in pool : \A s \in pool \ {m} : FaqBefore(m, s, c)
<1> DEFINE f1 == [r \in pool |-> r.loss]
           f2 == [r \in pool |-> 10000 - r.precision]
           f3 == [r \in pool |-> 10000 - r.recall]
           f4 == [r \in pool |-> Away(r.threshold, c)]
           f5 == [r \in pool |-> 100 - r.threshold]
<1>1. /\ f1 \in [pool -> Nat] /\ f2 \in [pool -> Nat] /\ f3 \in [pool -> Nat]
      /\ f4 \in [pool -> Nat] /\ f5 \in [pool -> Nat]
  <2>1. ASSUME NEW r \in pool
        PROVE  /\ r.loss \in Nat /\ 10000 - r.precision \in Nat /\ 10000 - r.recall \in Nat
               /\ Away(r.threshold, c) \in Nat /\ 100 - r.threshold \in Nat
    <3>1. /\ r.threshold \in Grid /\ r.threshold \in Nat /\ r.threshold <= 100 /\ r.loss \in Nat
          /\ r.precision \in Nat /\ r.precision <= 10000
          /\ r.recall \in Nat /\ r.recall <= 10000
      BY FaqRowIs
    <3>2. Away(r.threshold, c) \in Nat
      BY <3>1, AwayIs
    <3> QED
      BY <3>1, <3>2
  <2> QED
    BY <2>1
<1>4. \A r \in pool : /\ f1[r] = r.loss /\ f2[r] = 10000 - r.precision
                      /\ f3[r] = 10000 - r.recall /\ f4[r] = Away(r.threshold, c)
                      /\ f5[r] = 100 - r.threshold
  OBVIOUS
<1> HIDE DEF f1, f2, f3, f4, f5
<1>2. PICK m \in pool : Leads(m, pool, f1, f2, f3, f4, f5)
  BY <1>1, LexLeast
<1>3. ASSUME NEW s \in pool \ {m}
      PROVE  FaqBefore(m, s, c)
  <2>1. /\ m.threshold \in Grid /\ s.threshold \in Grid
        /\ m.threshold \in Nat /\ s.threshold \in Nat /\ m.threshold <= 100
        /\ s.threshold <= 100 /\ m.loss \in Nat
        /\ s.loss \in Nat /\ m.precision \in Nat /\ m.precision <= 10000 /\ m.recall \in Nat
        /\ m.recall <= 10000 /\ s.precision \in Nat /\ s.precision <= 10000 /\ s.recall \in Nat
        /\ s.recall <= 10000
    BY FaqRowIs
  <2>2. m.threshold # s.threshold
    BY DEF Keyed
  <2> DEFINE d == Away(m.threshold, c)
             e == Away(s.threshold, c)
  <2>4. d \in Nat /\ e \in Nat
    BY <2>1, AwayIs
  <2>5. \/ Lex5(m.loss, s.loss, 10000 - m.precision, 10000 - s.precision, 10000 - m.recall,
                10000 - s.recall, d, e, 100 - m.threshold, 100 - s.threshold)
        \/ 100 - m.threshold = 100 - s.threshold
    BY <1>2, <1>4 DEF Leads
  <2> HIDE DEF d, e
  <2>6. Lex5(m.loss, s.loss, s.precision, m.precision, s.recall, m.recall, d, e,
             s.threshold, m.threshold)
    BY <2>1, <2>2, <2>4, <2>5 DEF Lex5, Lex4
  <2> QED
    BY <2>6, FaqBeforeIsLex DEF d, e
<1> QED
  BY <1>3

\* With the best threshold in force the same row is the best.
LEMMA BestFaqRowStays ==
    ASSUME NEW pool \in SUBSET FaqRow, pool # {}, Keyed(pool), NEW c \in Grid, NEW best \in pool,
           \A s \in pool \ {best} : FaqBefore(best, s, c), NEW again \in pool,
           \A s \in pool \ {again} : FaqBefore(again, s, best.threshold)
    PROVE  again = best
<1>1. best \in pool /\ \A s \in pool \ {best} : FaqBefore(best, s, c)
  OBVIOUS
<1> DEFINE t == best.threshold
<1>2. t \in Grid
  BY <1>1, FaqRowIs
<1>3. again \in pool /\ \A s \in pool \ {again} : FaqBefore(again, s, t)
  OBVIOUS
<1>4. SUFFICES ASSUME again # best PROVE FALSE
  OBVIOUS
<1>5. FaqBefore(best, again, c) /\ FaqBefore(again, best, t)
  BY <1>1, <1>3, <1>4
<1>6. again.threshold # t
  BY <1>1, <1>3, <1>4 DEF Keyed
<1>7. /\ again \in FaqRow /\ best \in FaqRow
      /\ best.loss \in Nat /\ again.loss \in Nat /\ t \in Nat /\ again.threshold \in Nat /\ again.threshold \in Grid
      /\ best.precision \in Nat /\ again.precision \in Nat
      /\ best.recall \in Nat /\ again.recall \in Nat
  BY <1>1, <1>3, FaqRowIs
<1>8. Lex5(best.loss, again.loss, again.precision, best.precision, again.recall, best.recall,
           Away(t, c), Away(again.threshold, c), again.threshold, t)
  BY <1>5, <1>7, FaqBeforeIsLex
<1>9. Lex5(again.loss, best.loss, best.precision, again.precision, best.recall, again.recall,
           Away(again.threshold, t), Away(t, t), t, again.threshold)
  BY <1>2, <1>5, <1>7, FaqBeforeIsLex
<1>10. Away(t, t) = 0 /\ Away(again.threshold, t) \in Nat /\ Away(again.threshold, t) # 0
  BY <1>2, <1>6, <1>7, AwayIs
<1>11. Away(t, c) \in Nat /\ Away(again.threshold, c) \in Nat
  BY <1>2, <1>7, AwayIs
<1> DEFINE d  == Away(t, c)
           e  == Away(again.threshold, c)
           d1 == Away(t, t)
           e1 == Away(again.threshold, t)
           u  == again.threshold
<1>12. d \in Nat /\ e \in Nat /\ d1 = 0 /\ e1 \in Nat /\ e1 # 0 /\ u \in Nat /\ u # t
  BY <1>6, <1>7, <1>10, <1>11, Zenon
<1>13. /\ Lex5(best.loss, again.loss, again.precision, best.precision, again.recall, best.recall,
               d, e, u, t)
       /\ Lex5(again.loss, best.loss, best.precision, again.precision, best.recall, again.recall,
               e1, d1, t, u)
  BY <1>8, <1>9, Zenon
<1> DEFINE l1 == best.loss
           l2 == again.loss
           p1 == best.precision
           p2 == again.precision
           r1 == best.recall
           r2 == again.recall
<1>14. /\ l1 \in Nat /\ l2 \in Nat /\ p1 \in Nat /\ p2 \in Nat /\ r1 \in Nat /\ r2 \in Nat
       /\ t \in Nat
  BY <1>7
<1>15. Lex5(l1, l2, p2, p1, r2, r1, d, e, u, t) /\ Lex5(l2, l1, p1, p2, r1, r2, e1, d1, t, u)
  BY <1>13
<1> HIDE DEF t, d, e, d1, e1, u, l1, l2, p1, p2, r1, r2
<1> QED
  BY <1>12, <1>14, <1>15 DEF Lex5, Lex4

LEMMA ShareIs ==
    ASSUME NEW n \in Nat, NEW d \in Nat, n <= d, NEW otherwise \in Rates
    PROVE  Share(n, d, otherwise) \in Rates
<1>1. CASE d = 0
  BY <1>1 DEF Share
<1>2. CASE d # 0
  <2> DEFINE q == (10000 * n) \div d
  <2>1. q \in Nat /\ d * q <= 10000 * n
    BY <1>2
  <2> HIDE DEF q
  <2>2. SUFFICES q <= 10000
    BY <1>2, <2>1 DEF Share, Rates, q
  <2>3. SUFFICES ASSUME q > 10000 PROVE FALSE
    BY <2>1
  <2>4. PICK e \in Nat : q = 10001 + e
    <3>1. q - 10001 \in Nat /\ q = 10001 + (q - 10001)
      BY <2>1, <2>3
    <3> QED
      BY <3>1
  <2>5. d * q = d * 10001 + d * e
    BY <2>4
  <2>6. d * e \in Nat
    OBVIOUS
  <2> QED
    BY <1>2, <2>1, <2>5, <2>6
<1> QED
  BY <1>1, <1>2

LEMMA SamplesAreFinite ==
    ASSUME NEW S, NEW s \in Seq(S), NEW T \in SUBSET (DOMAIN s)
    PROVE  IsFiniteSet(T) /\ Cardinality(T) \in Nat
<1>1. DOMAIN s = 1 .. Len(s) /\ Len(s) \in Nat
  OBVIOUS
<1>2. IsFiniteSet(DOMAIN s)
  BY <1>1, FS_Interval
<1> QED
  BY <1>2, FS_Subset, FS_CardinalityType

LEMMA BinaryIsARow ==
    ASSUME NEW S, NEW observed \in Seq(S), NEW t \in Grid
    PROVE  BinaryAt(observed, t) \in FaqRow /\ BinaryAt(observed, t).threshold = t
<1> DEFINE N(direct, positive) == Cardinality({i \in DOMAIN observed :
              (observed[i].score >= t) = direct /\ observed[i].positive = positive})
           tp == N(TRUE, TRUE)
           fp == N(TRUE, FALSE)
           fn == N(FALSE, TRUE)
           tn == N(FALSE, FALSE)
<1>1. tp \in Nat /\ fp \in Nat /\ fn \in Nat /\ tn \in Nat
  <2>1. ASSUME NEW a, NEW b PROVE N(a, b) \in Nat
    <3> DEFINE T == {i \in DOMAIN observed :
                       (observed[i].score >= t) = a /\ observed[i].positive = b}
    <3>1. T \in SUBSET (DOMAIN observed)
      OBVIOUS
    <3> HIDE DEF T
    <3>2. Cardinality(T) \in Nat
      BY <3>1, SamplesAreFinite
    <3> QED
      BY <3>2 DEF T
  <2> QED
    BY <2>1
<1> DEFINE Line(p, r, f, l) ==
              [threshold |-> t, precision |-> p, recall |-> r, false |-> f, loss |-> l]
           p0 == Share(tp, tp + fp, 10000)
           r0 == Share(tp, tp + fn, 0)
           f0 == Share(fp, fp + tn, 0)
           l0 == FalsePositiveCost * fp + FalseNegativeCost * fn
<1>2. BinaryAt(observed, t) = Line(p0, r0, f0, l0)
  BY DEF BinaryAt
<1> HIDE DEF N, tp, fp, fn, tn
<1>3. p0 \in Rates /\ r0 \in Rates /\ f0 \in Rates /\ l0 \in Nat
  <2>1. 10000 \in Rates /\ 0 \in Rates
    BY DEF Rates
  <2>2. /\ tp + fp \in Nat /\ tp + fn \in Nat /\ fp + tn \in Nat
        /\ tp <= tp + fp /\ tp <= tp + fn /\ fp <= fp + tn
    BY <1>1
  <2>3. l0 \in Nat
    BY <1>1 DEF FalsePositiveCost, FalseNegativeCost
  <2> QED
    BY <1>1, <2>1, <2>2, <2>3, ShareIs
<1> HIDE DEF p0, r0, f0, l0
<1> QED
  BY <1>2, <1>3 DEF FaqRow

\* The rows a direct-answer threshold is selected from.
FaqRows(observed) == {BinaryAt(observed, t) : t \in FaqGrid}
FaqPool(observed) ==
    LET ok == {r \in FaqRows(observed) : Feasible(r)}
    IN  IF ok = {} THEN FaqRows(observed) ELSE ok

LEMMA GridIs == /\ \A t \in FaqGrid : t \in Grid
                /\ \A t \in IntentGrid : t \in Grid
  BY GridAssumption DEF Grid

LEMMA FaqRowsAre ==
    ASSUME NEW S, NEW observed \in Seq(S)
    PROVE  /\ FaqRows(observed) \in SUBSET FaqRow /\ FaqRows(observed) # {}
           /\ Keyed(FaqRows(observed))
           /\ \A r \in FaqRows(observed) : r = BinaryAt(observed, r.threshold)
<1>1. \A t \in FaqGrid : BinaryAt(observed, t) \in FaqRow /\ BinaryAt(observed, t).threshold = t
  BY GridIs, BinaryIsARow
<1>2. \A r \in FaqRows(observed) : r = BinaryAt(observed, r.threshold) /\ r \in FaqRow
  BY <1>1 DEF FaqRows
<1>3. FaqRows(observed) # {}
  BY GridAssumption DEF FaqRows
<1>4. Keyed(FaqRows(observed))
  BY <1>2, Zenon DEF Keyed
<1> QED
  BY <1>2, <1>3, <1>4

LEMMA FaqPoolIs ==
    ASSUME NEW S, NEW observed \in Seq(S)
    PROVE  /\ FaqPool(observed) \in SUBSET FaqRow /\ FaqPool(observed) # {}
           /\ Keyed(FaqPool(observed))
           /\ \A r \in FaqPool(observed) : r = BinaryAt(observed, r.threshold)
           /\ (\E r \in FaqRows(observed) : Feasible(r))
                => \A r \in FaqPool(observed) : Feasible(r)
<1>1. FaqPool(observed) \in SUBSET FaqRows(observed) /\ FaqPool(observed) # {}
  BY FaqRowsAre DEF FaqPool
<1>2. (\E r \in FaqRows(observed) : Feasible(r)) => \A r \in FaqPool(observed) : Feasible(r)
  BY DEF FaqPool
<1>3. Keyed(FaqPool(observed))
  <2>1. Keyed(FaqRows(observed))
    BY FaqRowsAre
  <2> QED
    BY <1>1, <2>1, Zenon DEF Keyed
<1> QED
  BY <1>1, <1>2, <1>3, FaqRowsAre

\* What is selected, unless there are no samples.
LEMMA FaqSelection ==
    ASSUME NEW S, NEW observed \in Seq(S), NEW c \in Grid, observed # <<>>
    PROVE  /\ SelectFaq(observed, c).row \in FaqPool(observed)
           /\ \A s \in FaqPool(observed) \ {SelectFaq(observed, c).row} :
                 FaqBefore(SelectFaq(observed, c).row, s, c)
           /\ SelectFaq(observed, c).ok => \E r \in FaqRows(observed) : Feasible(r)
<1> DEFINE best == CHOOSE r \in FaqPool(observed) :
                     \A s \in FaqPool(observed) \ {r} : FaqBefore(r, s, c)
           enough == {r \in FaqRows(observed) : Feasible(r)} # {}
<1>1. SelectFaq(observed, c) = [ok |-> enough, row |-> best]
  BY Zenon DEF SelectFaq, FaqPool, FaqRows
<1>2. best \in FaqPool(observed)
      /\ \A s \in FaqPool(observed) \ {best} : FaqBefore(best, s, c)
  <2> DEFINE pool == FaqPool(observed)
  <2>1. pool \in SUBSET FaqRow /\ pool # {} /\ Keyed(pool)
    BY FaqPoolIs
  <2> HIDE DEF pool
  <2>2. \E m \in pool : \A s \in pool \ {m} : FaqBefore(m, s, c)
    BY <2>1, ThereIsBestFaqRow
  <2> QED
    BY <2>2, Zenon DEF pool
<1> HIDE DEF best
<1>3. SelectFaq(observed, c).row = best /\ SelectFaq(observed, c).ok = enough
  BY <1>1
<1> QED
  BY <1>2, <1>3

\* What may be recommended of it keeps the constraints.
LEMMA SelectedIsSound ==
    ASSUME NEW S, NEW observed \in Seq(S), NEW c \in Grid, SelectFaq(observed, c).ok
    PROVE  /\ Feasible(SelectFaq(observed, c).row)
           /\ SelectFaq(observed, c).row = BinaryAt(observed, SelectFaq(observed, c).row.threshold)
           /\ SelectFaq(observed, c).row.threshold \in Grid
<1> DEFINE best == SelectFaq(observed, c).row
<1>1. observed # <<>>
  <2>1. SUFFICES ASSUME observed = <<>> PROVE FALSE
    OBVIOUS
  <2>2. SelectFaq(observed, c) = [ok |-> FALSE, row |-> None]
    BY <2>1 DEF SelectFaq
  <2> QED
    BY <2>2
<1>2. best \in FaqPool(observed) /\ \E r \in FaqRows(observed) : Feasible(r)
  BY <1>1, FaqSelection
<1> HIDE DEF best
<1>3. Feasible(best) /\ best = BinaryAt(observed, best.threshold) /\ best \in FaqRow
  BY <1>2, FaqPoolIs
<1>4. best.threshold \in Grid
  BY <1>3, FaqRowIs
<1> QED
  BY <1>3, <1>4 DEF best

LEMMA FaqSelectionSettles ==
    ASSUME NEW S, NEW observed \in Seq(S), NEW c \in Grid, observed # <<>>
    PROVE  SelectFaq(observed, SelectFaq(observed, c).row.threshold).row
             = SelectFaq(observed, c).row
<1> DEFINE best  == SelectFaq(observed, c).row
           again == SelectFaq(observed, best.threshold).row
           pool  == FaqPool(observed)
<1>1. best \in pool /\ \A s \in pool \ {best} : FaqBefore(best, s, c)
  BY FaqSelection
<1>2. pool \in SUBSET FaqRow /\ pool # {} /\ Keyed(pool)
  BY FaqPoolIs
<1>3. best.threshold \in Grid
  <2> HIDE DEF best, pool
  <2> QED
    BY <1>1, <1>2, FaqRowIs
<1>4. again \in pool /\ \A s \in pool \ {again} : FaqBefore(again, s, best.threshold)
  BY <1>3, FaqSelection
<1> HIDE DEF best, again, pool
<1>5. again = best
  BY <1>1, <1>2, <1>4, BestFaqRowStays
<1> QED
  BY <1>5 DEF best, again

-----------------------------------------------------------------------------
(* The best intent threshold. *)

IntentRow(n) == [threshold : Grid, total : {n}, correct : {k \in Nat : k <= n}, errors : Nat]

LEMMA IntentRowIs ==
    ASSUME NEW n \in Nat, NEW r \in IntentRow(n)
    PROVE  /\ r.threshold \in Grid /\ r.threshold \in Nat /\ r.total = n
           /\ r.correct \in Nat /\ r.correct <= n /\ r.errors \in Nat
<1>1. /\ r.threshold \in Grid /\ r.total \in {n} /\ r.correct \in {k \in Nat : k <= n}
      /\ r.errors \in Nat
  BY DEF IntentRow
<1> QED
  BY <1>1 DEF Grid

LEMMA IntentBeforeIsLex ==
    ASSUME NEW n \in Nat, NEW r \in IntentRow(n), NEW s \in IntentRow(n), NEW c \in Grid
    PROVE  IntentBefore(r, s, c) <=>
             Lex4(r.errors, s.errors, s.correct, r.correct,
                  Away(r.threshold, c), Away(s.threshold, c), r.threshold, s.threshold)
<1>1. /\ r.threshold \in Grid /\ s.threshold \in Grid
      /\ r.errors \in Int /\ s.errors \in Int /\ r.correct \in Int /\ s.correct \in Int
      /\ r.threshold \in Int /\ s.threshold \in Int
  BY IntentRowIs
<1>2. Away(r.threshold, c) \in Int /\ Away(s.threshold, c) \in Int
  BY <1>1, AwayIs
<1> QED
  BY <1>1, <1>2, FirstIsLex4 DEF IntentBefore

LEMMA ThereIsBestIntentRow ==
    ASSUME NEW n \in Nat, NEW pool \in SUBSET IntentRow(n), pool # {}, Keyed(pool), NEW c \in Grid
    PROVE  \E m \in pool : \A s \in pool \ {m} : IntentBefore(m, s, c)
<1> DEFINE f1 == [r \in pool |-> r.errors]
           f2 == [r \in pool |-> n - r.correct]
           f3 == [r \in pool |-> Away(r.threshold, c)]
           f4 == [r \in pool |-> r.threshold]
<1>1. /\ f1 \in [pool -> Nat] /\ f2 \in [pool -> Nat] /\ f3 \in [pool -> Nat]
      /\ f4 \in [pool -> Nat]
  <2>1. ASSUME NEW r \in pool
        PROVE  /\ r.errors \in Nat /\ n - r.correct \in Nat
               /\ Away(r.threshold, c) \in Nat /\ r.threshold \in Nat
    <3>1. /\ r.threshold \in Grid /\ r.threshold \in Nat
          /\ r.correct \in Nat /\ r.correct <= n /\ r.errors \in Nat
      BY IntentRowIs
    <3>2. Away(r.threshold, c) \in Nat
      BY <3>1, AwayIs
    <3> QED
      BY <3>1, <3>2
  <2> QED
    BY <2>1
<1>2. \A r \in pool : /\ f1[r] = r.errors /\ f2[r] = n - r.correct
                      /\ f3[r] = Away(r.threshold, c) /\ f4[r] = r.threshold
  OBVIOUS
<1> HIDE DEF f1, f2, f3, f4
<1>3. PICK m \in pool : Leads(m, pool, f1, f2, f3, f4, f4)
  BY <1>1, LexLeast
<1>4. ASSUME NEW s \in pool \ {m}
      PROVE  IntentBefore(m, s, c)
  <2>1. /\ m.threshold \in Grid /\ s.threshold \in Grid
        /\ m.threshold \in Nat /\ s.threshold \in Nat /\ m.errors \in Nat /\ s.errors \in Nat
        /\ m.correct \in Nat /\ s.correct \in Nat /\ m.correct <= n /\ s.correct <= n
    BY IntentRowIs
  <2>2. m.threshold # s.threshold
    BY DEF Keyed
  <2> DEFINE d == Away(m.threshold, c)
             e == Away(s.threshold, c)
  <2>3. d \in Nat /\ e \in Nat
    BY <2>1, AwayIs
  <2>4. \/ Lex5(m.errors, s.errors, n - m.correct, n - s.correct, d, e,
                m.threshold, s.threshold, m.threshold, s.threshold)
        \/ m.threshold = s.threshold
    BY <1>2, <1>3 DEF Leads
  <2> HIDE DEF d, e
  <2>5. Lex4(m.errors, s.errors, s.correct, m.correct, d, e, m.threshold, s.threshold)
    BY <2>1, <2>2, <2>3, <2>4 DEF Lex5, Lex4
  <2> QED
    BY <2>5, IntentBeforeIsLex DEF d, e
<1> QED
  BY <1>4

LEMMA BestIntentRowStays ==
    ASSUME NEW n \in Nat, NEW pool \in SUBSET IntentRow(n), pool # {}, Keyed(pool),
           NEW c \in Grid, NEW best \in pool,
           \A s \in pool \ {best} : IntentBefore(best, s, c), NEW again \in pool,
           \A s \in pool \ {again} : IntentBefore(again, s, best.threshold)
    PROVE  again = best
<1> DEFINE t == best.threshold
<1>1. SUFFICES ASSUME again # best PROVE FALSE
  OBVIOUS
<1>2. IntentBefore(best, again, c) /\ IntentBefore(again, best, t)
  BY <1>1
<1>3. again.threshold # t
  BY <1>1 DEF Keyed
<1>4. /\ again \in IntentRow(n) /\ best \in IntentRow(n)
      /\ best.errors \in Nat /\ again.errors \in Nat /\ t \in Nat /\ again.threshold \in Nat
      /\ t \in Grid /\ again.threshold \in Grid
      /\ best.correct \in Nat /\ again.correct \in Nat
  BY IntentRowIs
<1>5. Lex4(best.errors, again.errors, again.correct, best.correct,
           Away(t, c), Away(again.threshold, c), t, again.threshold)
  BY <1>2, <1>4, IntentBeforeIsLex
<1>6. Lex4(again.errors, best.errors, best.correct, again.correct,
           Away(again.threshold, t), Away(t, t), again.threshold, t)
  BY <1>2, <1>4, IntentBeforeIsLex
<1>7. /\ Away(t, t) = 0 /\ Away(again.threshold, t) \in Nat /\ Away(again.threshold, t) # 0
      /\ Away(t, c) \in Nat /\ Away(again.threshold, c) \in Nat
  BY <1>3, <1>4, AwayIs, Zenon
<1> DEFINE d  == Away(t, c)
           e  == Away(again.threshold, c)
           d1 == Away(t, t)
           e1 == Away(again.threshold, t)
           u  == again.threshold
           l1 == best.errors
           l2 == again.errors
           p1 == best.correct
           p2 == again.correct
<1>8. /\ d \in Nat /\ e \in Nat /\ d1 = 0 /\ e1 \in Nat /\ e1 # 0 /\ u \in Nat /\ u # t
      /\ l1 \in Nat /\ l2 \in Nat /\ p1 \in Nat /\ p2 \in Nat /\ t \in Nat
  BY <1>3, <1>4, <1>7, Zenon
<1>9. Lex4(l1, l2, p2, p1, d, e, t, u) /\ Lex4(l2, l1, p1, p2, e1, d1, u, t)
  BY <1>5, <1>6, Zenon
<1> HIDE DEF t, d, e, d1, e1, u, l1, l2, p1, p2
<1> QED
  BY <1>8, <1>9 DEF Lex4

LEMMA IntentIsARow ==
    ASSUME NEW S, NEW cases \in Seq(S), NEW t \in Grid
    PROVE  /\ Cardinality(Labelled(cases)) \in Nat
           /\ IntentAt(cases, t) \in IntentRow(Cardinality(Labelled(cases)))
           /\ IntentAt(cases, t).threshold = t
<1> DEFINE wrong == {i \in Labelled(cases) : SimulateIntent(cases[i], t) # cases[i].expected}
           grave == {i \in wrong : cases[i].critical}
           n  == Cardinality(Labelled(cases))
           c0 == Cardinality(Labelled(cases) \ wrong)
           g0 == Cardinality(grave)
           h0 == Cardinality(wrong \ grave)
           e0 == 5 * g0 + h0
<1>1. Labelled(cases) \in SUBSET (DOMAIN cases)
  BY DEF Labelled
<1>2. IsFiniteSet(Labelled(cases)) /\ n \in Nat
  BY <1>1, SamplesAreFinite
<1>3. c0 \in Nat /\ c0 <= n
  <2> DEFINE T == Labelled(cases) \ wrong
  <2>1. T \in SUBSET Labelled(cases)
    OBVIOUS
  <2> HIDE DEF T
  <2>2. IsFiniteSet(T) /\ Cardinality(T) <= Cardinality(Labelled(cases))
    BY <1>2, <2>1, FS_Subset
  <2>3. Cardinality(T) \in Nat
    BY <2>2, FS_CardinalityType
  <2> QED
    BY <2>2, <2>3 DEF T
<1>4. g0 \in Nat /\ h0 \in Nat
  <2>1. grave \in SUBSET (DOMAIN cases) /\ wrong \ grave \in SUBSET (DOMAIN cases)
    BY <1>1
  <2> HIDE DEF grave, wrong
  <2> QED
    BY <2>1, SamplesAreFinite
<1> DEFINE Line(c, e) == [threshold |-> t, total |-> n, correct |-> c, errors |-> e]
<1>5. IntentAt(cases, t) = Line(c0, e0)
  BY DEF IntentAt
<1> HIDE DEF wrong, grave, n, c0, g0, h0
<1>6. e0 \in Nat
  BY <1>4
<1> HIDE DEF e0
<1>7. Line(c0, e0) \in IntentRow(n)
  BY <1>2, <1>3, <1>6 DEF IntentRow
<1>8. IntentAt(cases, t).threshold = t
  BY <1>5
<1> QED
  BY <1>2, <1>5, <1>7, <1>8 DEF n

IntentRows(cases) == {IntentAt(cases, t) : t \in IntentGrid}

LEMMA IntentRowsAre ==
    ASSUME NEW S, NEW cases \in Seq(S)
    PROVE  /\ Cardinality(Labelled(cases)) \in Nat
           /\ IntentRows(cases) \in SUBSET IntentRow(Cardinality(Labelled(cases)))
           /\ IntentRows(cases) # {} /\ Keyed(IntentRows(cases))
           /\ \A r \in IntentRows(cases) : r = IntentAt(cases, r.threshold)
<1>1. \A t \in IntentGrid :
         /\ IntentAt(cases, t) \in IntentRow(Cardinality(Labelled(cases)))
         /\ IntentAt(cases, t).threshold = t
  BY GridIs, IntentIsARow
<1>2. \A r \in IntentRows(cases) :
         /\ r = IntentAt(cases, r.threshold)
         /\ r \in IntentRow(Cardinality(Labelled(cases)))
  BY <1>1 DEF IntentRows
<1>3. IntentRows(cases) # {}
  BY GridAssumption DEF IntentRows
<1>4. Keyed(IntentRows(cases))
  BY <1>2, Zenon DEF Keyed
<1>5. Cardinality(Labelled(cases)) \in Nat
  <2>1. Labelled(cases) \in SUBSET (DOMAIN cases)
    BY DEF Labelled
  <2> QED
    BY <2>1, SamplesAreFinite
<1> QED
  BY <1>2, <1>3, <1>4, <1>5

LEMMA IntentSelection ==
    ASSUME NEW S, NEW cases \in Seq(S), NEW c \in Grid
    PROVE  /\ SelectIntent(cases, c).row \in IntentRows(cases)
           /\ \A s \in IntentRows(cases) \ {SelectIntent(cases, c).row} :
                 IntentBefore(SelectIntent(cases, c).row, s, c)
<1> DEFINE best == CHOOSE r \in IntentRows(cases) :
                     \A s \in IntentRows(cases) \ {r} : IntentBefore(r, s, c)
           enough == best.total >= 6
<1>1. SelectIntent(cases, c) = [ok |-> enough, row |-> best]
  BY Zenon DEF SelectIntent, IntentRows
<1>2. best \in IntentRows(cases)
      /\ \A s \in IntentRows(cases) \ {best} : IntentBefore(best, s, c)
  <2> DEFINE pool == IntentRows(cases)
             n    == Cardinality(Labelled(cases))
  <2>1. n \in Nat /\ pool \in SUBSET IntentRow(n) /\ pool # {} /\ Keyed(pool)
    BY IntentRowsAre
  <2> HIDE DEF pool, n
  <2>2. \E m \in pool : \A s \in pool \ {m} : IntentBefore(m, s, c)
    BY <2>1, ThereIsBestIntentRow
  <2> QED
    BY <2>2, Zenon DEF pool
<1> HIDE DEF best, enough
<1>3. SelectIntent(cases, c).row = best
  BY <1>1
<1> QED
  BY <1>2, <1>3

LEMMA IntentSelectionSettles ==
    ASSUME NEW S, NEW cases \in Seq(S), NEW c \in Grid
    PROVE  SelectIntent(cases, SelectIntent(cases, c).row.threshold).row
             = SelectIntent(cases, c).row
<1> DEFINE best  == SelectIntent(cases, c).row
           again == SelectIntent(cases, best.threshold).row
           pool  == IntentRows(cases)
           n     == Cardinality(Labelled(cases))
<1>1. best \in pool /\ \A s \in pool \ {best} : IntentBefore(best, s, c)
  BY IntentSelection
<1>2. n \in Nat /\ pool \in SUBSET IntentRow(n) /\ pool # {} /\ Keyed(pool)
  BY IntentRowsAre
<1>3. best.threshold \in Grid
  <2> HIDE DEF best, pool, n
  <2> QED
    BY <1>1, <1>2, IntentRowIs
<1>4. again \in pool /\ \A s \in pool \ {again} : IntentBefore(again, s, best.threshold)
  BY <1>3, IntentSelection
<1> HIDE DEF best, again, pool, n
<1>5. again = best
  BY <1>1, <1>2, <1>4, BestIntentRowStays
<1> QED
  BY <1>5 DEF best, again

\* The replay of the gateway is the gateway.
LEMMA ReplayIsTheGateway ==
    ASSUME NEW case, NEW t
    PROVE  SimulateIntent(case, t) = LiveIntent(case, t)
  BY DEF SimulateIntent, LiveIntent, Fuse

-----------------------------------------------------------------------------
(* The reports. *)

PolicyValues == [faq : Grid, intent : Grid]
Samples  == [faq : Seq(FaqSample), intent : Seq(IntentSample)]

Positives == {i \in DOMAIN samples.faq : samples.faq[i].positive}

\* A direct-answer threshold that keeps every constraint, with enough samples behind it.
FaqIsSound(t) ==
    t \in Grid /\ Feasible(BinaryAt(samples.faq, t)) /\ Cardinality(Positives) >= MinPositive

PolicyOK  == policy \in PolicyValues
SamplesOK == samples \in Samples

\* What the calibration says was computed from the samples on disk.
CalibrationOK ==
    calibration # None =>
        /\ calibration.current \in PolicyValues /\ calibration.failures \in Nat
        /\ calibration.intent = SelectIntent(samples.intent, calibration.current.intent)
        /\ calibration.failures = 0 =>
             /\ calibration.positive = Cardinality(Positives)
             /\ calibration.faq = SelectFaq(samples.faq, calibration.current.faq)

ReportOK ==
    policyReport # None =>
        policyReport.wrong =
            {i \in Labelled(samples.intent) :
                LiveIntent(samples.intent[i], policyReport.under.intent)
                    # samples.intent[i].expected}

AdviceOK ==
    advice # None =>
        /\ advice.faq # None => FaqIsSound(advice.faq)
        /\ advice.intent # None => advice.intent \in Grid

TuningInv == PolicyOK /\ SamplesOK /\ CalibrationOK /\ ReportOK /\ AdviceOK

LEMMA TuningInitHolds == TuningInit => TuningInv
<1> SUFFICES ASSUME TuningInit PROVE TuningInv
  OBVIOUS
<1>1. PolicyOK
  <2>1. StartPolicy \in [faq : 1 .. 100, intent : 1 .. 100]
    BY GridAssumption
  <2>2. \A n \in 1 .. 100 : n \in Grid
    BY DEF Grid
  <2>3. StartPolicy \in PolicyValues
    BY <2>1, <2>2 DEF PolicyValues
  <2> QED
    BY <2>3 DEF PolicyOK, TuningInit
<1>2. SamplesOK
  BY SamplesAssumption DEF SamplesOK, Samples, TuningInit
<1> QED
  BY <1>1, <1>2 DEF TuningInv, TuningInit, CalibrationOK, ReportOK, AdviceOK

LEMMA SamplesAre ==
    ASSUME SamplesOK
    PROVE  samples.faq \in Seq(FaqSample) /\ samples.intent \in Seq(IntentSample)
  BY DEF SamplesOK, Samples

LEMMA PolicyIs ==
    ASSUME PolicyOK
    PROVE  policy.faq \in Grid /\ policy.intent \in Grid
  BY DEF PolicyOK, PolicyValues

\* Without failures the samples calibrated on are the samples on disk.
LEMMA CalibrateKeeps ==
    ASSUME TuningInv, NEW failed \in BOOLEAN, Calibrate(failed)
    PROVE  TuningInv'
<1>1. /\ policy' = policy /\ samples' = samples /\ policyReport' = policyReport
      /\ advice' = advice
  BY DEF Calibrate
<1>2. PolicyOK' /\ SamplesOK' /\ ReportOK' /\ AdviceOK'
  BY <1>1 DEF TuningInv, PolicyOK, SamplesOK, ReportOK, AdviceOK, FaqIsSound, Positives
<1>3. CalibrationOK'
  <2> DEFINE seen == IF failed THEN <<>> ELSE samples.faq
             pos  == Cardinality({i \in DOMAIN seen : seen[i].positive})
             neg  == Len(seen) - pos
             lost == IF failed THEN Len(samples.faq) ELSE 0
             sf   == SelectFaq(seen, policy.faq)
             si   == SelectIntent(samples.intent, policy.intent)
  <2>1. calibration' = [current |-> policy, faq |-> sf, intent |-> si, positive |-> pos,
                        negative |-> neg, failures |-> lost]
    BY Zenon DEF Calibrate
  <2>2. lost = 0 => seen = samples.faq
    <3>1. samples.faq \in Seq(FaqSample)
      BY SamplesAre DEF TuningInv
    <3>2. Len(samples.faq) = 0 => samples.faq = <<>>
      BY <3>1
    <3> QED
      BY <3>2
  <2>3. lost = 0 => pos = Cardinality(Positives) /\ sf = SelectFaq(samples.faq, policy.faq)
    <3> SUFFICES ASSUME lost = 0
                 PROVE  pos = Cardinality(Positives) /\ sf = SelectFaq(samples.faq, policy.faq)
      OBVIOUS
    <3>1. seen = samples.faq
      BY <2>2
    <3> HIDE DEF seen
    <3> QED
      BY <3>1 DEF Positives
  <2>4. policy \in PolicyValues /\ lost \in Nat
    <3>1. samples.faq \in Seq(FaqSample)
      BY SamplesAre DEF TuningInv
    <3>2. Len(samples.faq) \in Nat
      BY <3>1
    <3> QED
      BY <3>2 DEF TuningInv, PolicyOK
  <2>5. Positives' = Positives
    BY <1>1 DEF Positives
  <2> HIDE DEF seen, pos, neg, lost, sf
  <2>6. /\ calibration'.current = policy /\ calibration'.faq = sf /\ calibration'.intent = si
        /\ calibration'.positive = pos /\ calibration'.failures = lost
    BY <2>1
  <2> QED
    BY <1>1, <2>3, <2>4, <2>5, <2>6, Zenon DEF CalibrationOK
<1> QED
  BY <1>2, <1>3 DEF TuningInv

LEMMA EvaluatePolicyKeeps ==
    ASSUME TuningInv, NEW other \in BOOLEAN, EvaluatePolicy(other)
    PROVE  TuningInv'
<1>1. /\ policy' = policy /\ samples' = samples /\ calibration' = calibration
      /\ advice' = advice
  BY DEF EvaluatePolicy
<1>2. PolicyOK' /\ SamplesOK' /\ CalibrationOK' /\ AdviceOK'
  BY <1>1 DEF TuningInv, PolicyOK, SamplesOK, CalibrationOK, AdviceOK, FaqIsSound, Positives
<1>3. ReportOK'
  <2> DEFINE wrong == {i \in Labelled(samples.intent) :
                        LiveIntent(samples.intent[i], policy.intent) # samples.intent[i].expected}
             fine  == ~other /\ \A i \in wrong : ~samples.intent[i].critical
  <2>1. policyReport' = [under |-> policy, wrong |-> wrong, ok |-> fine]
    BY Zenon DEF EvaluatePolicy
  <2> HIDE DEF fine
  <2>2. policyReport'.under = policy /\ policyReport'.wrong = wrong
    BY <2>1
  <2> QED
    BY <1>1, <2>2, Zenon DEF ReportOK
<1> QED
  BY <1>2, <1>3 DEF TuningInv

\* Advice on the direct-answer threshold needs an open calibration without failures.
LEMMA RecommendKeeps ==
    ASSUME TuningInv, NEW rounding \in BOOLEAN, Recommend(rounding)
    PROVE  TuningInv'
<1>1. /\ policy' = policy /\ samples' = samples /\ calibration' = calibration
      /\ policyReport' = policyReport
  BY DEF Recommend
<1>2. PolicyOK' /\ SamplesOK' /\ CalibrationOK' /\ ReportOK'
  BY <1>1 DEF TuningInv, PolicyOK, SamplesOK, CalibrationOK, ReportOK, Positives
<1>3. AdviceOK'
  <2>1. CASE calibration = None
    <3>1. advice' = [faq |-> None, intent |-> None]
      BY <2>1 DEF Recommend
    <3> QED
      BY <3>1 DEF AdviceOK
  <2>2. CASE calibration # None
    <3> DEFINE df == RecommendOne(calibration.current.faq, calibration.faq.row,
                                  GlobalBlockers \/ FaqBlockers, rounding)
               di == RecommendOne(calibration.current.intent, calibration.intent.row,
                                  GlobalBlockers \/ IntentBlockers, rounding)
    <3>1. advice' = [faq |-> df, intent |-> di]
      BY <2>2, Zenon DEF Recommend
    <3>2. advice'.faq = df /\ advice'.intent = di
      <4> HIDE DEF df, di
      <4> QED
        BY <3>1
    <3>3. /\ calibration.current \in PolicyValues /\ calibration.failures \in Nat
          /\ calibration.intent = SelectIntent(samples.intent, calibration.current.intent)
          /\ calibration.failures = 0 =>
               /\ calibration.positive = Cardinality(Positives)
               /\ calibration.faq = SelectFaq(samples.faq, calibration.current.faq)
      BY <2>2 DEF TuningInv, CalibrationOK
    <3>4. /\ samples.faq \in Seq(FaqSample) /\ samples.intent \in Seq(IntentSample)
          /\ calibration.current.faq \in Grid /\ calibration.current.intent \in Grid
      BY <3>3, SamplesAre DEF TuningInv, PolicyValues
    <3>5. df # None => FaqIsSound(df)
      <4> SUFFICES ASSUME df # None PROVE FaqIsSound(df)
        OBVIOUS
      <4>1. df = calibration.faq.row.threshold /\ ~FaqBlockers
        BY Zenon DEF RecommendOne
      <4>2. /\ calibration.faq.ok /\ ~(calibration.positive < MinPositive)
            /\ ~(calibration.failures > 0)
        BY <4>1 DEF FaqBlockers
      <4>3. calibration.failures = 0
        BY <3>3, <4>2
      <4> DEFINE row == calibration.faq.row
      <4>4. Feasible(row) /\ row = BinaryAt(samples.faq, row.threshold) /\ row.threshold \in Grid
        BY <3>3, <3>4, <4>2, <4>3, SelectedIsSound
      <4>5. Cardinality(Positives) >= MinPositive
        <5>1. Cardinality(Positives) \in Nat /\ MinPositive \in Nat
          <6>1. Positives \in SUBSET (DOMAIN samples.faq)
            BY DEF Positives
          <6> QED
            BY <3>4, <6>1, SamplesAreFinite, GridAssumption
        <5>2. calibration.positive = Cardinality(Positives)
          BY <3>3, <4>3
        <5> QED
          BY <4>2, <5>1, <5>2
      <4> HIDE DEF df
      <4> QED
        BY <4>1, <4>4, <4>5 DEF FaqIsSound
    <3>6. di # None => di \in Grid
      <4> SUFFICES ASSUME di # None PROVE di \in Grid
        OBVIOUS
      <4>1. di = calibration.intent.row.threshold
        BY Zenon DEF RecommendOne
      <4>2. calibration.intent.row \in IntentRows(samples.intent)
        BY <3>3, <3>4, IntentSelection
      <4>3. calibration.intent.row.threshold \in Grid
        <5> DEFINE n == Cardinality(Labelled(samples.intent))
        <5>1. n \in Nat /\ calibration.intent.row \in IntentRow(n)
          BY <3>4, <4>2, IntentRowsAre
        <5> HIDE DEF n
        <5> QED
          BY <5>1, IntentRowIs
      <4> QED
        BY <4>1, <4>3
    <3>7. \A t : FaqIsSound(t)' <=> FaqIsSound(t)
      BY <1>1 DEF FaqIsSound, Positives
    <3> HIDE DEF df, di
    <3> QED
      BY <3>2, <3>5, <3>6, <3>7 DEF AdviceOK
  <2> QED
    BY <2>1, <2>2
<1> QED
  BY <1>2, <1>3 DEF TuningInv

LEMMA ApplyKeeps ==
    ASSUME TuningInv, ApplyAdvice
    PROVE  TuningInv'
<1>1. /\ samples' = samples /\ calibration' = calibration /\ policyReport' = policyReport
      /\ advice' = None /\ advice # None
  BY DEF ApplyAdvice
<1>2. PolicyOK'
  <2> DEFINE pf == IF advice.faq = None THEN policy.faq ELSE advice.faq
             pi == IF advice.intent = None THEN policy.intent ELSE advice.intent
  <2>1. policy' = [faq |-> pf, intent |-> pi]
    BY Zenon DEF ApplyAdvice
  <2>2. policy.faq \in Grid /\ policy.intent \in Grid
    BY PolicyIs DEF TuningInv
  <2>3. pf \in Grid /\ pi \in Grid
    BY <1>1, <2>2 DEF TuningInv, AdviceOK, FaqIsSound
  <2> HIDE DEF pf, pi
  <2> QED
    BY <2>1, <2>3 DEF PolicyOK, PolicyValues
<1>3. SamplesOK' /\ CalibrationOK' /\ ReportOK' /\ AdviceOK'
  BY <1>1 DEF TuningInv, SamplesOK, CalibrationOK, ReportOK, AdviceOK, Positives
<1> QED
  BY <1>2, <1>3 DEF TuningInv

LEMMA TuningStepKeeps ==
    ASSUME TuningInv, [TuningNext]_tuningVars
    PROVE  TuningInv'
<1>1. ASSUME NEW failed \in BOOLEAN, Calibrate(failed) PROVE TuningInv'
  BY <1>1, CalibrateKeeps
<1>2. ASSUME NEW other \in BOOLEAN, EvaluatePolicy(other) PROVE TuningInv'
  BY <1>2, EvaluatePolicyKeeps
<1>3. ASSUME NEW errors \in BOOLEAN, EvaluateChain(errors) PROVE TuningInv'
  <2>1. /\ policy' = policy /\ samples' = samples /\ calibration' = calibration
        /\ policyReport' = policyReport /\ advice' = advice
    BY <1>3 DEF EvaluateChain
  <2> QED
    BY <2>1 DEF TuningInv, PolicyOK, SamplesOK, CalibrationOK, ReportOK, AdviceOK, FaqIsSound,
                Positives
<1>4. ASSUME NEW rounding \in BOOLEAN, Recommend(rounding) PROVE TuningInv'
  BY <1>4, RecommendKeeps
<1>5. CASE ApplyAdvice
  BY <1>5, ApplyKeeps
<1>6. CASE UNCHANGED tuningVars
  BY <1>6 DEF tuningVars, TuningInv, PolicyOK, SamplesOK, CalibrationOK, ReportOK, AdviceOK,
              FaqIsSound, Positives
<1> QED
  BY <1>1, <1>2, <1>3, <1>4, <1>5, <1>6 DEF TuningNext

\* What the calibration says of its intent threshold is what the evaluation finds under it.
LEMMA PromiseHolds ==
    ASSUME TuningInv
    PROVE  PromiseIsKept
<1> SUFFICES ASSUME calibration # None, policyReport # None,
                    policyReport.under.intent = calibration.intent.row.threshold
             PROVE  Cardinality(Labelled(samples.intent) \ policyReport.wrong)
                      = calibration.intent.row.correct
  BY DEF PromiseIsKept
<1> DEFINE cases == samples.intent
           row   == calibration.intent.row
           t     == row.threshold
           wrong == {i \in Labelled(cases) : SimulateIntent(cases[i], t) # cases[i].expected}
<1>1. cases \in Seq(IntentSample) /\ calibration.current.intent \in Grid
  BY SamplesAre DEF TuningInv, CalibrationOK, PolicyValues
<1>2. row \in IntentRows(cases)
  BY <1>1, IntentSelection DEF TuningInv, CalibrationOK
<1>3. row = IntentAt(cases, t)
  <2> HIDE DEF cases, row
  <2> QED
    BY <1>1, <1>2, IntentRowsAre
<1>4. IntentAt(cases, t).correct = Cardinality(Labelled(cases) \ wrong)
  BY DEF IntentAt
<1>5. policyReport.wrong = wrong
  <2>1. policyReport.wrong = {i \in Labelled(cases) : LiveIntent(cases[i], t) # cases[i].expected}
    BY DEF TuningInv, ReportOK
  <2> QED
    BY <2>1, ReplayIsTheGateway
<1> HIDE DEF wrong, row, t
<1> QED
  BY <1>3, <1>4, <1>5 DEF row

LEMMA SettlingHolds ==
    ASSUME TuningInv
    PROVE  TuningSettles
<1> SUFFICES ASSUME calibration # None, calibration.failures = 0
             PROVE  /\ samples.faq # <<>> =>
                         SelectFaq(samples.faq, calibration.faq.row.threshold).row
                           = calibration.faq.row
                    /\ SelectIntent(samples.intent, calibration.intent.row.threshold).row
                         = calibration.intent.row
  BY DEF TuningSettles
<1>1. /\ calibration.current.faq \in Grid /\ calibration.current.intent \in Grid
      /\ calibration.intent = SelectIntent(samples.intent, calibration.current.intent)
      /\ calibration.faq = SelectFaq(samples.faq, calibration.current.faq)
  BY DEF TuningInv, CalibrationOK, PolicyValues
<1>2. samples.faq \in Seq(FaqSample) /\ samples.intent \in Seq(IntentSample)
  BY SamplesAre DEF TuningInv
<1>3. samples.faq # <<>> =>
         SelectFaq(samples.faq, calibration.faq.row.threshold).row = calibration.faq.row
  BY <1>1, <1>2, FaqSelectionSettles
<1>4. SelectIntent(samples.intent, calibration.intent.row.threshold).row
        = calibration.intent.row
  BY <1>1, <1>2, IntentSelectionSettles
<1> QED
  BY <1>3, <1>4

\* Only an edit of the configuration changes the threshold, and it takes sound advice.
LEMMA ChangeIsSound ==
    ASSUME TuningInv, [TuningNext]_tuningVars, policy'.faq # policy.faq
    PROVE  /\ Feasible(BinaryAt(samples.faq, policy'.faq))
           /\ Cardinality(Positives) >= MinPositive
<1>1. ApplyAdvice
  BY DEF TuningNext, Calibrate, EvaluatePolicy, EvaluateChain, Recommend, tuningVars
<1>2. advice # None /\ policy'.faq = (IF advice.faq = None THEN policy.faq ELSE advice.faq)
  BY <1>1 DEF ApplyAdvice
<1>3. advice.faq # None /\ policy'.faq = advice.faq
  BY <1>2
<1>4. FaqIsSound(advice.faq)
  BY <1>2, <1>3 DEF TuningInv, AdviceOK
<1> QED
  BY <1>3, <1>4 DEF FaqIsSound

\* For any samples, grids and constraints: what the calibration promises of the intent
\* threshold the policy evaluation finds, tuning settles on what it proposes, and no edit of
\* the configuration brings a direct-answer threshold in force that misses a constraint.
THEOREM TuningStaysSafe == TuningSpec => TuningIsSafe
<1>1. TuningInit => TuningInv
  BY TuningInitHolds
<1>2. TuningInv /\ [TuningNext]_tuningVars => TuningInv'
  BY TuningStepKeeps
<1>3. TuningInv => PromiseIsKept /\ TuningSettles
  BY PromiseHolds, SettlingHolds
<1>4. TuningInv /\ [TuningNext]_tuningVars
        => [policy'.faq # policy.faq =>
              /\ Feasible(BinaryAt(samples.faq, policy'.faq))
              /\ Cardinality({i \in DOMAIN samples.faq : samples.faq[i].positive})
                    >= MinPositive]_tuningVars
  BY ChangeIsSound DEF Positives
<1> QED
  BY <1>1, <1>2, <1>3, <1>4, PTL DEF TuningSpec, TuningIsSafe, AdviceIsFeasible

-----------------------------------------------------------------------------
(* Due dates, for any words, rules and dates.                              *)
(*                                                                         *)
(* Every day has a date and dates come in the order of their days, so that *)
(* offsets in days are exact; months in a row are numbered, so that        *)
(* offsets in months are; and workdays are counted one by one, by          *)
(* induction over their number.                                            *)

\* Induction, for the numbers up to n with a property.
LEMMA UpTo ==
    ASSUME NEW n \in Nat, NEW S, 0 \in S,
           \A i \in 0..n : i > 0 /\ i - 1 \in S => i \in S
    PROVE  0..n \subseteq S
<1> DEFINE missing == {i \in 0..n : i \notin S}
<1>1. missing \in SUBSET Nat
  OBVIOUS
<1>2. missing = {}
  <2> SUFFICES ASSUME missing # {} PROVE FALSE
    OBVIOUS
  <2> HIDE DEF missing
  <2>1. PICK m \in missing : \A x \in missing : m <= x
    BY <1>1, LeastNumber
  <2>2. m \in 0..n /\ m \notin S /\ m # 0
    BY DEF missing
  <2>3. m - 1 \in 0..n /\ m - 1 \notin missing
    BY <2>1, <2>2, <1>1
  <2> QED
    BY <2>2, <2>3 DEF missing
<1> QED
  BY <1>2

\* Days of the year before a month, and of whole years.
YearsBefore(y) == 365 * (y - 1) + ((y - 1) \div 4) - ((y - 1) \div 100) + ((y - 1) \div 400)

LeapDay(y) == IF IsLeap(y) THEN 1 ELSE 0

LEMMA YearIsCounted ==
    ASSUME NEW y \in Int
    PROVE  /\ YearsBefore(y) \in Int
           /\ YearsBefore(y + 1) = YearsBefore(y) + 365 + LeapDay(y)
  BY DEF YearsBefore, LeapDay, IsLeap

LEMMA MonthIsCounted ==
    ASSUME NEW y \in Int, NEW m \in 1..12
    PROVE  /\ DaysBefore(y, m) \in Int
           /\ MonthDays(y, m) \in 28..31
           /\ DaysBefore(y, 1) = YearsBefore(y)
           /\ m < 12 => DaysBefore(y, m + 1) = DaysBefore(y, m) + MonthDays(y, m)
           /\ m = 12 => DaysBefore(y + 1, 1) = DaysBefore(y, m) + MonthDays(y, m)
<1>1. /\ DaysBeforeMonth[1] = 0 /\ DaysBeforeMonth[2] = 31 /\ DaysBeforeMonth[3] = 59
      /\ DaysBeforeMonth[4] = 90 /\ DaysBeforeMonth[5] = 120 /\ DaysBeforeMonth[6] = 151
      /\ DaysBeforeMonth[7] = 181 /\ DaysBeforeMonth[8] = 212 /\ DaysBeforeMonth[9] = 243
      /\ DaysBeforeMonth[10] = 273 /\ DaysBeforeMonth[11] = 304 /\ DaysBeforeMonth[12] = 334
  BY DEF DaysBeforeMonth
<1>2. \A k \in 1..12 : k = 1 \/ k = 2 \/ k = 3 \/ k = 4 \/ k = 5 \/ k = 6 \/ k = 7 \/ k = 8
                        \/ k = 9 \/ k = 10 \/ k = 11 \/ k = 12
  OBVIOUS
<1>3. \A k \in 1..12 : DaysBeforeMonth[k] \in Nat
  BY <1>1, <1>2
<1>4. \A z \in Int, k \in 1..12 :
        DaysBefore(z, k) = YearsBefore(z) + DaysBeforeMonth[k]
                           + (IF k > 2 THEN LeapDay(z) ELSE 0)
  BY <1>3 DEF DaysBefore, YearsBefore, LeapDay
<1>5. LeapDay(y) \in {0, 1} /\ YearsBefore(y) \in Int
  BY YearIsCounted DEF LeapDay
<1>6. MonthDays(y, m) = IF m = 2 THEN 28 + LeapDay(y) ELSE IF m \in {4, 6, 9, 11} THEN 30 ELSE 31
  BY DEF MonthDays, LeapDay
<1>7. m < 12 => DaysBeforeMonth[m + 1] + (IF m + 1 > 2 THEN LeapDay(y) ELSE 0)
                = DaysBeforeMonth[m] + (IF m > 2 THEN LeapDay(y) ELSE 0) + MonthDays(y, m)
  BY <1>1, <1>2, <1>5, <1>6
<1>8. MonthDays(y, m) \in 28..31
  BY <1>5, <1>6
<1>9. m < 12 => m + 1 \in 1..12
  OBVIOUS
<1>10. /\ m < 12 => DaysBefore(y, m + 1) = DaysBefore(y, m) + MonthDays(y, m)
       /\ DaysBefore(y, m) \in Int
  <2>1. DaysBefore(y, m) = YearsBefore(y) + DaysBeforeMonth[m] + (IF m > 2 THEN LeapDay(y) ELSE 0)
    BY <1>4
  <2>2. m < 12 => DaysBefore(y, m + 1) = YearsBefore(y) + DaysBeforeMonth[m + 1]
                                         + (IF m + 1 > 2 THEN LeapDay(y) ELSE 0)
    BY <1>4, <1>9
  <2>3. m < 12 => DaysBeforeMonth[m + 1] \in Nat
    BY <1>3, <1>9
  <2> QED
    BY <2>1, <2>2, <2>3, <1>3, <1>5, <1>7, <1>8
<1>13. \A z \in Int : DaysBefore(z, 1) = YearsBefore(z)
  <2> TAKE z \in Int
  <2>1. YearsBefore(z) \in Int
    BY YearIsCounted
  <2>2. DaysBefore(z, 1) = YearsBefore(z) + DaysBeforeMonth[1] + (IF 1 > 2 THEN LeapDay(z) ELSE 0)
    BY <1>4
  <2> QED
    BY <2>1, <2>2, <1>1
<1>11. DaysBefore(y, 1) = YearsBefore(y) /\ DaysBefore(y + 1, 1) = YearsBefore(y + 1)
  BY <1>13
<1>12. m = 12 => DaysBefore(y, m) + MonthDays(y, m) = YearsBefore(y + 1)
  BY <1>4, <1>1, <1>5, <1>6, YearIsCounted
<1> QED
  BY <1>8, <1>10, <1>11, <1>12

LEMMA YearIsBounded ==
    ASSUME NEW y \in Int
    PROVE  /\ y >= 1 => 365 * (y - 1) <= YearsBefore(y) /\ YearsBefore(y) <= 366 * (y - 1)
           /\ y <= 1 => 366 * (y - 1) <= YearsBefore(y) /\ YearsBefore(y) <= 365 * (y - 1)
  BY DEF YearsBefore

\* The year of a day.
YearOf(n) ==
    CHOOSE y \in Smaller(n \div 366, n \div 365)..(Larger(n \div 366, n \div 365) + 1) :
        DaysBefore(y, 1) < n /\ n <= DaysBefore(y + 1, 1)

LEMMA YearIsFound ==
    ASSUME NEW n \in Int
    PROVE  YearOf(n) \in Int /\ YearsBefore(YearOf(n)) < n /\ n <= YearsBefore(YearOf(n) + 1)
<1> DEFINE lo == Smaller(n \div 366, n \div 365)
           hi == Larger(n \div 366, n \div 365) + 1
           later == {j \in Nat : n <= YearsBefore(lo + j + 1)}
<1>1. /\ lo \in Int /\ hi \in Int /\ lo <= hi
      /\ n >= 1 => lo = n \div 366 /\ hi = n \div 365 + 1 /\ lo >= 0 /\ hi >= 0
      /\ n <= 0 => lo = n \div 365 /\ hi = n \div 366 + 1 /\ lo <= 0 /\ hi <= 1
  BY DEF Larger, Smaller
<1>2. /\ 366 * (n \div 366) <= n /\ n < 366 * (n \div 366) + 366
      /\ 365 * (n \div 365) <= n /\ n < 365 * (n \div 365) + 365
      /\ n \div 366 \in Int /\ n \div 365 \in Int
  OBVIOUS
<1> HIDE DEF lo, hi
<1> DEFINE a == n \div 366
           b == n \div 365
<1> HIDE DEF a, b
<1>13. /\ a \in Int /\ b \in Int /\ 366 * a <= n /\ n < 366 * a + 366
       /\ 365 * b <= n /\ n < 365 * b + 365
       /\ n >= 1 => lo = a /\ hi = b + 1 /\ lo >= 0 /\ hi >= 1
       /\ n <= 0 => lo = b /\ hi = a + 1 /\ lo <= 0 /\ hi <= 1
  BY <1>1, <1>2 DEF a, b
<1>3. YearsBefore(lo) < n
  <2>1. lo >= 1 => YearsBefore(lo) <= 366 * (lo - 1)
    BY <1>1, YearIsBounded
  <2>2. lo <= 1 => YearsBefore(lo) <= 365 * (lo - 1)
    BY <1>1, YearIsBounded
  <2>3. YearsBefore(lo) \in Int
    BY <1>1, YearIsCounted
  <2> QED
    BY <2>1, <2>2, <2>3, <1>1, <1>13
<1>4. n <= YearsBefore(hi + 1)
  <2>1. hi + 1 >= 1 => 365 * hi <= YearsBefore(hi + 1)
    BY <1>1, YearIsBounded
  <2>2. hi + 1 <= 1 => 366 * hi <= YearsBefore(hi + 1)
    BY <1>1, YearIsBounded
  <2>3. YearsBefore(hi + 1) \in Int
    BY <1>1, YearIsCounted
  <2> QED
    BY <2>1, <2>2, <2>3, <1>1, <1>13
<1>5. hi - lo \in later
  BY <1>1, <1>4
<1>6. later \in SUBSET Nat
  OBVIOUS
<1>7. PICK j \in later : \A x \in later : j <= x
  <2> HIDE DEF later
  <2> QED
    BY <1>5, <1>6, LeastNumber
<1>8. j \in Nat /\ j <= hi - lo /\ n <= YearsBefore(lo + j + 1)
  BY <1>5, <1>7
<1>9. YearsBefore(lo + j) < n
  <2>1. CASE j = 0
    BY <2>1, <1>1, <1>3
  <2>2. CASE j # 0
    <3>1. j - 1 \in Nat /\ j - 1 \notin later
      BY <2>2, <1>7, <1>8
    <3>2. ~(n <= YearsBefore(lo + (j - 1) + 1)) /\ lo + (j - 1) + 1 = lo + j
      BY <3>1, <1>1, <1>8
    <3> QED
      BY <3>2, <1>1, <1>8, YearIsCounted
  <2> QED
    BY <2>1, <2>2
<1>10. lo + j \in lo..hi
  BY <1>1, <1>8
<1>11. \A y \in Int : DaysBefore(y, 1) = YearsBefore(y)
  BY MonthIsCounted
<1>12. YearOf(n) \in lo..hi /\ DaysBefore(YearOf(n), 1) < n /\ n <= DaysBefore(YearOf(n) + 1, 1)
  <2>1. \E y \in lo..hi : DaysBefore(y, 1) < n /\ n <= DaysBefore(y + 1, 1)
    BY <1>1, <1>8, <1>9, <1>10, <1>11
  <2>2. YearOf(n) = CHOOSE y \in lo..hi : DaysBefore(y, 1) < n /\ n <= DaysBefore(y + 1, 1)
    BY DEF YearOf, lo, hi
  <2> QED
    BY <2>1, <2>2
<1> QED
  BY <1>1, <1>11, <1>12

MonthOf(y, n) ==
    CHOOSE m \in 1..12 : DaysBefore(y, m) < n /\ n <= DaysBefore(y, m) + MonthDays(y, m)

LEMMA MonthIsFound ==
    ASSUME NEW y \in Int, NEW n \in Int, YearsBefore(y) < n, n <= YearsBefore(y + 1)
    PROVE  /\ MonthOf(y, n) \in 1..12
           /\ DaysBefore(y, MonthOf(y, n)) < n
           /\ n <= DaysBefore(y, MonthOf(y, n)) + MonthDays(y, MonthOf(y, n))
<1> DEFINE later == {k \in 1..12 : n <= DaysBefore(y, k) + MonthDays(y, k)}
<1>1. later \in SUBSET Nat
  OBVIOUS
<1>2. 12 \in later
  <2>1. DaysBefore(y + 1, 1) = DaysBefore(y, 12) + MonthDays(y, 12)
    BY MonthIsCounted
  <2>2. DaysBefore(y + 1, 1) = YearsBefore(y + 1)
    BY MonthIsCounted
  <2> QED
    BY <2>1, <2>2
<1>3. PICK m \in later : \A k \in later : m <= k
  <2> HIDE DEF later
  <2> QED
    BY <1>1, <1>2, LeastNumber
<1>4. m \in 1..12 /\ n <= DaysBefore(y, m) + MonthDays(y, m)
  BY <1>3
<1>5. DaysBefore(y, m) < n
  <2>1. CASE m = 1
    BY <2>1, MonthIsCounted
  <2>2. CASE m # 1
    <3>1. m - 1 \in 1..12 /\ m - 1 \notin later
      BY <2>2, <1>3, <1>4
    <3>2. ~(n <= DaysBefore(y, m - 1) + MonthDays(y, m - 1))
      BY <3>1
    <3> DEFINE p == m - 1
    <3>3. p \in 1..12 /\ p < 12 /\ p + 1 = m
      BY <3>1, <1>4
    <3> HIDE DEF p, later
    <3>4. /\ DaysBefore(y, p) \in Int /\ MonthDays(y, p) \in 28..31
          /\ DaysBefore(y, p + 1) = DaysBefore(y, p) + MonthDays(y, p)
      BY <3>3, MonthIsCounted
    <3>5. ~(n <= DaysBefore(y, p) + MonthDays(y, p))
      BY <3>2 DEF p
    <3> QED
      BY <3>3, <3>4, <3>5
  <2> QED
    BY <2>1, <2>2
<1> QED
  BY <1>4, <1>5 DEF MonthOf

\* Days and dates are the same thing: every day has a date.
LEMMA DayHasDate ==
    ASSUME NEW n \in Int
    PROVE  DateOf(n) \in CalendarDate /\ DayNumber(DateOf(n)) = n
<1> DEFINE y == YearOf(n)
           m == MonthOf(y, n)
<1>1. DateOf(n) = Date(y, m, n - DaysBefore(y, m))
  BY DEF DateOf, YearOf, MonthOf
<1>2. y \in Int /\ YearsBefore(y) < n /\ n <= YearsBefore(y + 1)
  BY YearIsFound
<1> HIDE DEF y
<1>3. m \in 1..12 /\ DaysBefore(y, m) < n /\ n <= DaysBefore(y, m) + MonthDays(y, m)
  BY <1>2, MonthIsFound
<1> HIDE DEF m
<1>4. DaysBefore(y, m) \in Int /\ MonthDays(y, m) \in 28..31
  BY <1>2, <1>3, MonthIsCounted
<1>5. n - DaysBefore(y, m) \in 1..31 /\ n - DaysBefore(y, m) <= MonthDays(y, m)
  BY <1>3, <1>4
<1> QED
  BY <1>1, <1>2, <1>3, <1>4, <1>5 DEF Date, CalendarDate, DayNumber

-----------------------------------------------------------------------------
\* Months in a row.
Index(d) == 12 * d.year + d.month
FirstOf(k) == DaysBefore((k - 1) \div 12, ((k - 1) % 12) + 1)
LengthOf(k) == MonthDays((k - 1) \div 12, ((k - 1) % 12) + 1)

LEMMA DivisionBy12 ==
    ASSUME NEW i \in Int
    PROVE  i \div 12 \in Int /\ i % 12 \in 0..11 /\ i = 12 * (i \div 12) + (i % 12)
  OBVIOUS

LEMMA IndexIsMonth ==
    ASSUME NEW k \in Int
    PROVE  /\ (k - 1) \div 12 \in Int /\ ((k - 1) % 12) + 1 \in 1..12
           /\ 12 * ((k - 1) \div 12) + (((k - 1) % 12) + 1) = k
           /\ ((k - 1) % 12) + 1 < 12 => /\ (k + 1 - 1) \div 12 = (k - 1) \div 12
                                         /\ ((k + 1 - 1) % 12) + 1 = (((k - 1) % 12) + 1) + 1
           /\ ((k - 1) % 12) + 1 = 12 => /\ (k + 1 - 1) \div 12 = ((k - 1) \div 12) + 1
                                         /\ ((k + 1 - 1) % 12) + 1 = 1
  OBVIOUS

LEMMA MonthHasIndex ==
    ASSUME NEW y \in Int, NEW m \in 1..12
    PROVE  /\ 12 * y + m \in Int
           /\ (12 * y + m - 1) \div 12 = y /\ ((12 * y + m - 1) % 12) + 1 = m
  OBVIOUS

LEMMA MonthsFollow ==
    ASSUME NEW k \in Int
    PROVE  /\ FirstOf(k) \in Int /\ LengthOf(k) \in 28..31
           /\ FirstOf(k + 1) = FirstOf(k) + LengthOf(k)
<1> DEFINE y == (k - 1) \div 12
           m == ((k - 1) % 12) + 1
<1>1. /\ y \in Int /\ m \in 1..12
      /\ m < 12 => (k + 1 - 1) \div 12 = y /\ ((k + 1 - 1) % 12) + 1 = m + 1
      /\ m = 12 => (k + 1 - 1) \div 12 = y + 1 /\ ((k + 1 - 1) % 12) + 1 = 1
  BY IndexIsMonth
<1>2. FirstOf(k) = DaysBefore(y, m) /\ LengthOf(k) = MonthDays(y, m)
  BY DEF FirstOf, LengthOf
<1>3. /\ m < 12 => FirstOf(k + 1) = DaysBefore(y, m + 1)
      /\ m = 12 => FirstOf(k + 1) = DaysBefore(y + 1, 1)
  BY <1>1 DEF FirstOf
<1> HIDE DEF y, m
<1>4. /\ DaysBefore(y, m) \in Int /\ MonthDays(y, m) \in 28..31
      /\ m < 12 => DaysBefore(y, m + 1) = DaysBefore(y, m) + MonthDays(y, m)
      /\ m = 12 => DaysBefore(y + 1, 1) = DaysBefore(y, m) + MonthDays(y, m)
  BY <1>1, MonthIsCounted
<1>5. m < 12 \/ m = 12
  BY <1>1
<1> QED
  BY <1>2, <1>3, <1>4, <1>5

LEMMA MonthsInOrder ==
    ASSUME NEW k \in Int, NEW n \in Nat
    PROVE  FirstOf(k) <= FirstOf(k + n)
<1> DEFINE S == {j \in 0..n : FirstOf(k) <= FirstOf(k + j)}
<1>1. 0 \in S
  BY MonthsFollow
<1>2. \A j \in 0..n : j > 0 /\ j - 1 \in S => j \in S
  <2> SUFFICES ASSUME NEW j \in 0..n, j > 0, j - 1 \in S PROVE j \in S
    OBVIOUS
  <2> DEFINE p == k + (j - 1)
  <2>1. p \in Int /\ p + 1 = k + j /\ FirstOf(k) <= FirstOf(p)
    OBVIOUS
  <2> HIDE DEF p
  <2>2. FirstOf(p + 1) = FirstOf(p) + LengthOf(p) /\ LengthOf(p) \in 28..31 /\ FirstOf(p) \in Int
    BY <2>1, MonthsFollow
  <2>3. FirstOf(k) \in Int
    BY MonthsFollow
  <2> QED
    BY <2>1, <2>2, <2>3
<1> HIDE DEF S
<1>3. n \in S
  BY <1>1, <1>2, UpTo
<1> QED
  BY <1>3 DEF S

LEMMA DateIsIndexed ==
    ASSUME NEW d \in CalendarDate
    PROVE  /\ d.year \in Int /\ d.month \in 1..12 /\ d.day \in 1..31 /\ Index(d) \in Int
           /\ DayNumber(d) = FirstOf(Index(d)) + d.day
           /\ d.day <= LengthOf(Index(d)) /\ DayNumber(d) \in Int
<1>1. d.year \in Int /\ d.month \in 1..12 /\ d.day \in 1..31 /\ d.day <= MonthDays(d.year, d.month)
  BY DEF CalendarDate
<1>2. /\ Index(d) \in Int /\ FirstOf(Index(d)) = DaysBefore(d.year, d.month)
      /\ LengthOf(Index(d)) = MonthDays(d.year, d.month)
  BY <1>1, MonthHasIndex DEF Index, FirstOf, LengthOf
<1>3. FirstOf(Index(d)) \in Int
  BY <1>2, MonthsFollow
<1> QED
  BY <1>1, <1>2, <1>3 DEF DayNumber

\* Dates come in the order of their months, and within a month of their days.
LEMMA DatesInOrder ==
    ASSUME NEW a \in CalendarDate, NEW b \in CalendarDate
    PROVE  /\ Index(a) < Index(b) => DayNumber(a) < DayNumber(b)
           /\ Index(a) = Index(b) => (DayNumber(a) <= DayNumber(b) <=> a.day <= b.day)
<1>1. /\ Index(a) \in Int /\ Index(b) \in Int /\ a.day \in 1..31 /\ b.day \in 1..31
      /\ DayNumber(a) = FirstOf(Index(a)) + a.day /\ a.day <= LengthOf(Index(a))
      /\ DayNumber(b) = FirstOf(Index(b)) + b.day
  BY DateIsIndexed
<1>2. /\ FirstOf(Index(a)) \in Int /\ FirstOf(Index(b)) \in Int /\ LengthOf(Index(a)) \in 28..31
      /\ FirstOf(Index(a) + 1) = FirstOf(Index(a)) + LengthOf(Index(a))
  BY <1>1, MonthsFollow
<1>3. Index(a) < Index(b) => FirstOf(Index(a) + 1) <= FirstOf(Index(b))
  <2> SUFFICES ASSUME Index(a) < Index(b) PROVE FirstOf(Index(a) + 1) <= FirstOf(Index(b))
    OBVIOUS
  <2> DEFINE n == Index(b) - (Index(a) + 1)
  <2>1. n \in Nat /\ Index(a) + 1 \in Int /\ (Index(a) + 1) + n = Index(b)
    BY <1>1
  <2> HIDE DEF n
  <2> QED
    BY <2>1, MonthsInOrder
<1>4. Index(a) < Index(b) => DayNumber(a) < DayNumber(b)
  BY <1>1, <1>2, <1>3
<1>5. Index(a) = Index(b) => (DayNumber(a) <= DayNumber(b) <=> a.day <= b.day)
  <2> SUFFICES ASSUME Index(a) = Index(b) PROVE DayNumber(a) <= DayNumber(b) <=> a.day <= b.day
    OBVIOUS
  <2> DEFINE f == FirstOf(Index(a))
             p == a.day
             q == b.day
  <2>1. DayNumber(a) = f + p /\ DayNumber(b) = f + q /\ f \in Int /\ p \in Int /\ q \in Int
    BY <1>1, <1>2
  <2> HIDE DEF f, p, q
  <2>2. f + p <= f + q <=> p <= q
    BY <2>1
  <2> QED
    BY <2>1, <2>2 DEF p, q
<1> QED
  BY <1>4, <1>5

-----------------------------------------------------------------------------
\* Offsets in months.
LEMMA MonthsAreAdded ==
    ASSUME NEW s \in CalendarDate, NEW n \in Int
    PROVE  /\ AddMonths(s, n) \in CalendarDate
           /\ Index(AddMonths(s, n)) = Index(s) + n
           /\ AddMonths(s, n).day =
                 Smaller(s.day, MonthDays(AddMonths(s, n).year, AddMonths(s, n).month))
           /\ AddMonths(s, n).day = Smaller(s.day, LengthOf(Index(s) + n))
<1> DEFINE i == s.month - 1 + n
           y == s.year + (i \div 12)
           m == (i % 12) + 1
           d == Smaller(s.day, MonthDays(y, m))
<1>1. s.year \in Int /\ s.month \in 1..12 /\ s.day \in 1..31
  BY DateIsIndexed
<1>2. y \in Int /\ m \in 1..12 /\ 12 * y + m = 12 * s.year + s.month + n
  <2> DEFINE q == i \div 12
             r == i % 12
  <2>1. i \in Int
    BY <1>1
  <2>2. q \in Int /\ r \in 0..11 /\ i = 12 * q + r
    <3> HIDE DEF i
    <3> QED
      BY <2>1, DivisionBy12
  <2>3. y = s.year + q /\ m = r + 1
    OBVIOUS
  <2> HIDE DEF q, r, y, m
  <2> QED
    BY <2>2, <2>3, <1>1
<1>3. AddMonths(s, n) = Date(y, m, d)
  BY DEF AddMonths
<1> HIDE DEF y, m
<1>4. MonthDays(y, m) \in 28..31
  BY <1>2, MonthIsCounted
<1>5. d \in 1..31 /\ d <= MonthDays(y, m)
  BY <1>1, <1>4 DEF Smaller
<1>6. LengthOf(12 * y + m) = MonthDays(y, m)
  BY <1>2, MonthHasIndex DEF LengthOf
<1> QED
  BY <1>1, <1>2, <1>3, <1>5, <1>6 DEF Date, CalendarDate, Index

LEMMA LaterIsLaterByMonths ==
    ASSUME NEW a \in CalendarDate, NEW b \in CalendarDate, NEW n \in Int,
           DayNumber(a) <= DayNumber(b)
    PROVE  DayNumber(AddMonths(a, n)) <= DayNumber(AddMonths(b, n))
<1> DEFINE p == AddMonths(a, n)
           q == AddMonths(b, n)
<1>1. /\ p \in CalendarDate /\ Index(p) = Index(a) + n /\ p.day = Smaller(a.day, LengthOf(Index(a) + n))
      /\ q \in CalendarDate /\ Index(q) = Index(b) + n /\ q.day = Smaller(b.day, LengthOf(Index(b) + n))
  BY MonthsAreAdded
<1> HIDE DEF p, q
<1>2. /\ Index(a) \in Int /\ Index(b) \in Int /\ a.day \in 1..31 /\ b.day \in 1..31
      /\ DayNumber(a) \in Int /\ DayNumber(b) \in Int
      /\ DayNumber(p) \in Int /\ DayNumber(q) \in Int
  BY <1>1, DateIsIndexed
<1>3. ~(Index(b) < Index(a))
  BY <1>2, DatesInOrder
<1>4. CASE Index(a) < Index(b)
  <2>1. Index(p) < Index(q)
    BY <1>1, <1>2, <1>4
  <2> QED
    BY <2>1, <1>1, <1>2, DatesInOrder DEF p, q
<1>5. CASE Index(a) = Index(b)
  <2>1. a.day <= b.day
    BY <1>5, DatesInOrder
  <2>2. LengthOf(Index(a) + n) \in 28..31
    BY <1>2, MonthsFollow
  <2>3. Index(p) = Index(q) /\ p.day <= q.day
    BY <2>1, <2>2, <1>1, <1>2, <1>5 DEF Smaller
  <2>4. DayNumber(p) <= DayNumber(q)
    BY <2>3, <1>1, DatesInOrder
  <2> QED
    BY <2>4 DEF p, q
<1> QED
  BY <1>2, <1>3, <1>4, <1>5

LEMMA MonthsGoTheirWay ==
    ASSUME NEW s \in CalendarDate, NEW n \in Int
    PROVE  /\ n <= 0 => DayNumber(AddMonths(s, n)) <= DayNumber(s)
           /\ n >= 0 => DayNumber(AddMonths(s, n)) >= DayNumber(s)
<1> DEFINE p == AddMonths(s, n)
<1>1. p \in CalendarDate /\ Index(p) = Index(s) + n /\ p.day = Smaller(s.day, LengthOf(Index(s) + n))
  BY MonthsAreAdded
<1> HIDE DEF p
<1>2. /\ Index(s) \in Int /\ s.day \in 1..31 /\ s.day <= LengthOf(Index(s))
      /\ DayNumber(s) \in Int /\ DayNumber(p) \in Int /\ LengthOf(Index(s)) \in 28..31
  BY <1>1, DateIsIndexed, MonthsFollow
<1>3. CASE n = 0
  <2>1. Index(p) = Index(s) /\ p.day = s.day
    BY <1>1, <1>2, <1>3 DEF Smaller
  <2>3. DayNumber(p) <= DayNumber(s) <=> p.day <= s.day
    BY <2>1, <1>1, DatesInOrder
  <2>4. DayNumber(s) <= DayNumber(p) <=> s.day <= p.day
    BY <2>1, <1>1, DatesInOrder
  <2>2. DayNumber(p) <= DayNumber(s) /\ DayNumber(s) <= DayNumber(p)
    BY <2>1, <2>3, <2>4, <1>2
  <2> QED
    BY <2>2 DEF p
<1>4. CASE n < 0
  <2>1. DayNumber(p) < DayNumber(s)
    BY <1>1, <1>2, <1>4, DatesInOrder
  <2> QED
    BY <2>1, <1>2, <1>4 DEF p
<1>5. CASE n > 0
  <2>1. DayNumber(s) < DayNumber(p)
    BY <1>1, <1>2, <1>5, DatesInOrder
  <2> QED
    BY <2>1, <1>2, <1>5 DEF p
<1> QED
  BY <1>3, <1>4, <1>5

-----------------------------------------------------------------------------
\* A value computed step by step from the one before is a function.
Follows(g, n, A, a, F) ==
    g \in [0..n -> A] /\ g[0] = a /\ \A i \in 1..n : g[i] = F[<<i, g[i - 1]>>]

LEMMA StepsExist ==
    ASSUME NEW n \in Nat, NEW A, NEW a \in A, NEW F \in [(1..n) \X A -> A]
    PROVE  \E g : Follows(g, n, A, a, F)
<1> DEFINE Q(m) == \E g \in [0..m -> A] : g[0] = a /\ \A i \in 1..m : g[i] = F[<<i, g[i - 1]>>]
           S == {m \in 0..n : Q(m)}
<1>1. Q(0)
  <2> DEFINE g == [i \in 0..0 |-> a]
  <2>1. g \in [0..0 -> A] /\ g[0] = a
    OBVIOUS
  <2>2. \A i \in 1..0 : g[i] = F[<<i, g[i - 1]>>]
    OBVIOUS
  <2> HIDE DEF g
  <2> QED
    BY <2>1, <2>2
<1>2. ASSUME NEW m \in 0..n, m > 0, Q(m - 1) PROVE Q(m)
  <2> PICK g \in [0..(m - 1) -> A] :
             g[0] = a /\ \A i \in 1..(m - 1) : g[i] = F[<<i, g[i - 1]>>]
    BY <1>2
  <2> DEFINE h == [i \in 0..m |-> IF i = m THEN F[<<m, g[m - 1]>>] ELSE g[i]]
  <2>1. h \in [0..m -> A] /\ h[0] = a
    BY <1>2
  <2>2. ASSUME NEW i \in 1..m PROVE h[i] = F[<<i, h[i - 1]>>]
    <3>1. CASE i = m
      <4>1. h[i] = F[<<m, g[m - 1]>>] /\ h[i - 1] = g[m - 1]
        BY <1>2, <3>1
      <4> QED
        BY <4>1, <3>1
    <3>2. CASE i # m
      <4>1. i \in 1..(m - 1)
        BY <3>2, <1>2
      <4>2. h[i] = g[i] /\ h[i - 1] = g[i - 1]
        BY <4>1, <1>2
      <4> QED
        BY <4>1, <4>2
    <3> QED
      BY <3>1, <3>2
  <2> HIDE DEF h
  <2> QED
    BY <2>1, <2>2
<1> HIDE DEF Q
<1>3. 0 \in S
  BY <1>1
<1>4. \A m \in 0..n : m > 0 /\ m - 1 \in S => m \in S
  BY <1>2
<1> HIDE DEF S
<1>5. n \in S
  BY <1>3, <1>4, UpTo
<1> QED
  BY <1>5 DEF S, Q, Follows

\* The next workday in a direction.
Direction == {1, -1}
NextWorkday(n, way) ==
    CHOOSE c \in {n + way, n + 2 * way, n + 3 * way} :
        Workday(c) /\ \A k \in 1..(way * (c - n) - 1) : ~Workday(n + k * way)

LEMMA NextWorkdayIsNext ==
    ASSUME NEW n \in Int
    PROVE  /\ LET c == NextWorkday(n, 1)
              IN  c \in Int /\ c > n /\ Workday(c) /\ \A d \in (n + 1)..(c - 1) : ~Workday(d)
           /\ LET c == NextWorkday(n, -1)
              IN  c \in Int /\ c < n /\ Workday(c) /\ \A d \in (c + 1)..(n - 1) : ~Workday(d)
<1> DEFINE Ok(c, way) == Workday(c) /\ \A k \in 1..(way * (c - n) - 1) : ~Workday(n + k * way)
<1>1. \/ Workday(n + 1)
      \/ ~Workday(n + 1) /\ Workday(n + 2)
      \/ ~Workday(n + 1) /\ ~Workday(n + 2) /\ Workday(n + 3)
  BY DEF Workday
<1>2. \/ Workday(n - 1)
      \/ ~Workday(n - 1) /\ Workday(n - 2)
      \/ ~Workday(n - 1) /\ ~Workday(n - 2) /\ Workday(n - 3)
  BY DEF Workday
<1>3. \E c \in {n + 1, n + 2 * 1, n + 3 * 1} : Ok(c, 1)
  <2>1. Workday(n + 1) => Ok(n + 1, 1)
    OBVIOUS
  <2>2. ~Workday(n + 1) /\ Workday(n + 2) => Ok(n + 2 * 1, 1)
    OBVIOUS
  <2>3. ~Workday(n + 1) /\ ~Workday(n + 2) /\ Workday(n + 3) => Ok(n + 3 * 1, 1)
    <3> SUFFICES ASSUME ~Workday(n + 1), ~Workday(n + 2), Workday(n + 3)
                 PROVE  Ok(n + 3 * 1, 1)
      OBVIOUS
    <3>1. n + 3 * 1 = n + 3 /\ 1 * (n + 3 * 1 - n) - 1 = 2
      OBVIOUS
    <3>2. \A k \in 1..2 : ~Workday(n + k * 1)
      <4> TAKE k \in 1..2
      <4>1. k = 1 \/ k = 2
        OBVIOUS
      <4>2. k * 1 = k
        OBVIOUS
      <4> QED
        BY <4>1, <4>2
    <3> QED
      BY <3>1, <3>2
  <2> HIDE DEF Ok
  <2> QED
    BY <1>1, <2>1, <2>2, <2>3
<1>4. \E c \in {n + (-1), n + 2 * (-1), n + 3 * (-1)} : Ok(c, -1)
  <2>1. Workday(n - 1) => Ok(n + (-1), -1)
    OBVIOUS
  <2>2. ~Workday(n - 1) /\ Workday(n - 2) => Ok(n + 2 * (-1), -1)
    OBVIOUS
  <2>3. ~Workday(n - 1) /\ ~Workday(n - 2) /\ Workday(n - 3) => Ok(n + 3 * (-1), -1)
    <3> SUFFICES ASSUME ~Workday(n - 1), ~Workday(n - 2), Workday(n - 3)
                 PROVE  Ok(n + 3 * (-1), -1)
      OBVIOUS
    <3>1. n + 3 * (-1) = n - 3 /\ (-1) * (n + 3 * (-1) - n) - 1 = 2
      OBVIOUS
    <3>2. \A k \in 1..2 : ~Workday(n + k * (-1))
      <4> TAKE k \in 1..2
      <4>1. k = 1 \/ k = 2
        OBVIOUS
      <4>2. n + 1 * (-1) = n - 1 /\ n + 2 * (-1) = n - 2
        OBVIOUS
      <4> QED
        BY <4>1, <4>2
    <3> QED
      BY <3>1, <3>2
  <2> HIDE DEF Ok
  <2> QED
    BY <1>2, <2>1, <2>2, <2>3
<1>5. NextWorkday(n, 1) \in {n + 1, n + 2 * 1, n + 3 * 1} /\ Ok(NextWorkday(n, 1), 1)
  BY <1>3 DEF NextWorkday
<1>6. NextWorkday(n, -1) \in {n + (-1), n + 2 * (-1), n + 3 * (-1)} /\ Ok(NextWorkday(n, -1), -1)
  BY <1>4 DEF NextWorkday
<1>7. LET c == NextWorkday(n, 1)
      IN  c \in Int /\ c > n /\ Workday(c) /\ \A d \in (n + 1)..(c - 1) : ~Workday(d)
  <2> DEFINE c == NextWorkday(n, 1)
  <2>1. c \in {n + 1, n + 2, n + 3} /\ Workday(c) /\ \A k \in 1..(1 * (c - n) - 1) : ~Workday(n + k * 1)
    BY <1>5
  <2> HIDE DEF c
  <2>2. \A d \in (n + 1)..(c - 1) : ~Workday(d)
    <3> TAKE d \in (n + 1)..(c - 1)
    <3>1. d - n \in 1..(1 * (c - n) - 1) /\ n + (d - n) * 1 = d
      BY <2>1
    <3> QED
      BY <2>1, <3>1
  <2> QED
    BY <2>1, <2>2 DEF c
<1>8. LET c == NextWorkday(n, -1)
      IN  c \in Int /\ c < n /\ Workday(c) /\ \A d \in (c + 1)..(n - 1) : ~Workday(d)
  <2> DEFINE c == NextWorkday(n, -1)
  <2>1. c \in {n - 1, n - 2, n - 3} /\ Workday(c) /\ \A k \in 1..((-1) * (c - n) - 1) : ~Workday(n + k * (-1))
    BY <1>6
  <2> HIDE DEF c
  <2>2. \A d \in (c + 1)..(n - 1) : ~Workday(d)
    <3> TAKE d \in (c + 1)..(n - 1)
    <3>1. n - d \in 1..((-1) * (c - n) - 1) /\ n + (n - d) * (-1) = d
      BY <2>1
    <3> QED
      BY <2>1, <3>1
  <2> QED
    BY <2>1, <2>2 DEF c
<1> QED
  BY <1>7, <1>8

\* The n-th workday after, or before, a day.
After(x, way, n) ==
    LET after[k \in 0..n] == IF k = 0 THEN x ELSE NextWorkday(after[k - 1], way)
    IN  after[n]

LEMMA AfterIsStepwise ==
    ASSUME NEW x \in Int, NEW way \in Direction, NEW n \in Nat
    PROVE  \E f \in [0..n -> Int] :
              /\ f[0] = x /\ \A k \in 1..n : f[k] = NextWorkday(f[k - 1], way)
              /\ After(x, way, n) = f[n]
<1> DEFINE F == [p \in (1..n) \X Int |-> NextWorkday(p[2], way)]
<1>1. \A c \in Int : NextWorkday(c, way) \in Int
  BY NextWorkdayIsNext DEF Direction
<1>2. F \in [(1..n) \X Int -> Int]
  BY <1>1
<1> HIDE DEF F
<1>11. PICK g : Follows(g, n, Int, x, F)
  BY <1>2, StepsExist
<1>3. g \in [0..n -> Int] /\ g[0] = x /\ \A i \in 1..n : g[i] = F[<<i, g[i - 1]>>]
  BY <1>11 DEF Follows
<1>4. \A i \in 1..n : g[i] = NextWorkday(g[i - 1], way)
  <2> TAKE i \in 1..n
  <2>1. g[i] = F[<<i, g[i - 1]>>] /\ g[i - 1] \in Int
    BY <1>3
  <2> QED
    BY <2>1 DEF F
<1> DEFINE after == CHOOSE f : f = [k \in 0..n |-> IF k = 0 THEN x ELSE NextWorkday(f[k - 1], way)]
<1>5. g = [k \in 0..n |-> IF k = 0 THEN x ELSE NextWorkday(g[k - 1], way)]
  BY <1>3, <1>4
<1>6. after = [k \in 0..n |-> IF k = 0 THEN x ELSE NextWorkday(after[k - 1], way)]
  BY <1>5
<1>7. After(x, way, n) = after[n]
  BY DEF After
<1> HIDE DEF after
<1>8. after[0] = x /\ \A k \in 1..n : after[k] = NextWorkday(after[k - 1], way)
  BY <1>6
<1>9. \A k \in 0..n : after[k] \in Int
  <2> DEFINE S == {k \in 0..n : after[k] \in Int}
  <2>1. 0 \in S
    BY <1>8
  <2>2. \A k \in 0..n : k > 0 /\ k - 1 \in S => k \in S
    <3> TAKE k \in 0..n
    <3>1. k > 0 => after[k] = NextWorkday(after[k - 1], way)
      BY <1>8
    <3> QED
      BY <1>1, <3>1
  <2> HIDE DEF S
  <2>3. 0..n \subseteq S
    BY <2>1, <2>2, UpTo
  <2> QED
    BY <2>3 DEF S
<1>10. after \in [0..n -> Int]
  BY <1>6, <1>9
<1> QED
  BY <1>7, <1>8, <1>10

\* The workdays passed.
Passed(x, way, c) == {d \in (IF way = 1 THEN (x + 1)..c ELSE c..(x - 1)) : Workday(d)}

LEMMA OneMoreWorkday ==
    ASSUME NEW x \in Int, NEW way \in Direction, NEW c \in Int,
           way = 1 => x <= c, way = -1 => c <= x
    PROVE  LET d == NextWorkday(c, way)
           IN  /\ d \in Int /\ Workday(d)
               /\ way = 1 => x < d
               /\ way = -1 => d < x
               /\ d \notin Passed(x, way, c) /\ Passed(x, way, d) = Passed(x, way, c) \cup {d}
<1> DEFINE d == NextWorkday(c, way)
<1>1. CASE way = 1
  <2>1. d \in Int /\ d > c /\ Workday(d) /\ \A e \in (c + 1)..(d - 1) : ~Workday(e)
    BY <1>1, NextWorkdayIsNext
  <2> HIDE DEF d
  <2>2. \A e \in (x + 1)..d : e \in (x + 1)..c \/ e \in (c + 1)..(d - 1) \/ e = d
    BY <2>1, <1>1
  <2>3. \A e : e \in (x + 1)..c => e \in (x + 1)..d /\ e # d
    BY <2>1, <1>1
  <2>4. d \in (x + 1)..d /\ x < d
    BY <2>1, <1>1
  <2>5. Passed(x, way, d) = {e \in (x + 1)..d : Workday(e)} /\ Passed(x, way, c) = {e \in (x + 1)..c : Workday(e)}
    BY <1>1 DEF Passed
  <2> QED
    BY <2>1, <2>2, <2>3, <2>4, <2>5, <1>1 DEF d
<1>2. CASE way = -1
  <2>1. d \in Int /\ d < c /\ Workday(d) /\ \A e \in (d + 1)..(c - 1) : ~Workday(e)
    BY <1>2, NextWorkdayIsNext
  <2> HIDE DEF d
  <2>2. \A e \in d..(x - 1) : e \in c..(x - 1) \/ e \in (d + 1)..(c - 1) \/ e = d
    BY <2>1, <1>2
  <2>3. \A e : e \in c..(x - 1) => e \in d..(x - 1) /\ e # d
    BY <2>1, <1>2
  <2>4. d \in d..(x - 1) /\ d < x
    BY <2>1, <1>2
  <2>5. Passed(x, way, d) = {e \in d..(x - 1) : Workday(e)} /\ Passed(x, way, c) = {e \in c..(x - 1) : Workday(e)}
    BY <1>2 DEF Passed
  <2> QED
    BY <2>1, <2>2, <2>3, <2>4, <2>5, <1>2 DEF d
<1> QED
  BY <1>1, <1>2 DEF Direction

LEMMA WorkdaysAreCounted ==
    ASSUME NEW x \in Int, NEW way \in Direction, NEW n \in Nat
    PROVE  LET to == After(x, way, n)
           IN  /\ to \in Int
               /\ n = 0 => to = x
               /\ n > 0 => Workday(to) /\ IF way = 1 THEN x < to ELSE to < x
               /\ IsFiniteSet(Passed(x, way, to)) /\ Cardinality(Passed(x, way, to)) = n
<1> PICK f \in [0..n -> Int] :
           /\ f[0] = x /\ \A k \in 1..n : f[k] = NextWorkday(f[k - 1], way)
           /\ After(x, way, n) = f[n]
  BY AfterIsStepwise
<1> DEFINE Ok(k) == /\ way = 1 => x <= f[k]
                    /\ way = -1 => f[k] <= x
                    /\ k > 0 => Workday(f[k]) /\ f[k] # x
                    /\ IsFiniteSet(Passed(x, way, f[k])) /\ Cardinality(Passed(x, way, f[k])) = k
           S == {k \in 0..n : Ok(k)}
<1>1. 0 \in S
  <2>1. f[0] = x
    OBVIOUS
  <2>2. Passed(x, way, x) = {}
    BY DEF Passed
  <2>3. IsFiniteSet({}) /\ Cardinality({}) = 0
    BY FS_EmptySet
  <2>4. Ok(0)
    BY <2>1, <2>2, <2>3
  <2> QED
    BY <2>4
<1>2. \A k \in 0..n : k > 0 /\ k - 1 \in S => k \in S
  <2> SUFFICES ASSUME NEW k \in 0..n, k > 0, k - 1 \in S PROVE Ok(k)
    OBVIOUS
  <2> DEFINE c == f[k - 1]
             d == f[k]
  <2>1. /\ c \in Int /\ d = NextWorkday(c, way) /\ (way = 1 => x <= c) /\ (way = -1 => c <= x)
        /\ IsFiniteSet(Passed(x, way, c)) /\ Cardinality(Passed(x, way, c)) = k - 1
    OBVIOUS
  <2> HIDE DEF c, d
  <2>2. /\ d \in Int /\ Workday(d) /\ (way = 1 => x < d) /\ (way = -1 => d < x)
        /\ d \notin Passed(x, way, c) /\ Passed(x, way, d) = Passed(x, way, c) \cup {d}
    BY <2>1, OneMoreWorkday
  <2>3. IsFiniteSet(Passed(x, way, d)) /\ Cardinality(Passed(x, way, d)) = k
    <3>1. /\ IsFiniteSet(Passed(x, way, c) \cup {d})
          /\ Cardinality(Passed(x, way, c) \cup {d}) = Cardinality(Passed(x, way, c)) + 1
      BY <2>1, <2>2, FS_AddElement
    <3> QED
      BY <3>1, <2>1, <2>2
  <2>4. /\ way = 1 => x <= d /\ d # x
        /\ way = -1 => d <= x /\ d # x
    BY <2>2
  <2> QED
    BY <2>2, <2>3, <2>4 DEF d, Direction
<1> HIDE DEF S
<1>3. n \in S
  <2>1. 0..n \subseteq S
    BY <1>1, <1>2, UpTo
  <2> QED
    BY <2>1
<1>4. Ok(n) /\ After(x, way, n) = f[n] /\ f[n] \in Int /\ f[0] = x
  BY <1>3 DEF S
<1> QED
  BY <1>4 DEF Direction

\* From a later day the workdays are later.
LEMMA LaterIsLaterByWorkdays ==
    ASSUME NEW x \in Int, NEW y \in Int, x <= y, NEW way \in Direction, NEW n \in Nat
    PROVE  After(x, way, n) <= After(y, way, n)
<1>1. ASSUME NEW c \in Int, NEW d \in Int, c <= d
      PROVE  NextWorkday(c, way) <= NextWorkday(d, way)
  <2> DEFINE p == NextWorkday(c, way)
             q == NextWorkday(d, way)
  <2>1. CASE way = 1
    <3>1. /\ p \in Int /\ p > c /\ \A e \in (c + 1)..(p - 1) : ~Workday(e)
          /\ q \in Int /\ q > d /\ Workday(q)
      BY <2>1, NextWorkdayIsNext
    <3> HIDE DEF p, q
    <3>2. p <= q
      <4> SUFFICES ASSUME q < p PROVE FALSE
        BY <3>1
      <4>1. q \in (c + 1)..(p - 1)
        BY <3>1, <1>1
      <4> QED
        BY <4>1, <3>1
    <3> QED
      BY <3>2 DEF p, q
  <2>2. CASE way = -1
    <3>1. /\ p \in Int /\ p < c /\ Workday(p)
          /\ q \in Int /\ q < d /\ \A e \in (q + 1)..(d - 1) : ~Workday(e)
      BY <2>2, NextWorkdayIsNext
    <3> HIDE DEF p, q
    <3>2. p <= q
      <4> SUFFICES ASSUME q < p PROVE FALSE
        BY <3>1
      <4>1. p \in (q + 1)..(d - 1)
        BY <3>1, <1>1
      <4> QED
        BY <4>1, <3>1
    <3> QED
      BY <3>2 DEF p, q
  <2> QED
    BY <2>1, <2>2 DEF Direction
<1>2. PICK f \in [0..n -> Int] :
           /\ f[0] = x /\ \A k \in 1..n : f[k] = NextWorkday(f[k - 1], way)
           /\ After(x, way, n) = f[n]
  BY AfterIsStepwise
<1>3. PICK g \in [0..n -> Int] :
           /\ g[0] = y /\ \A k \in 1..n : g[k] = NextWorkday(g[k - 1], way)
           /\ After(y, way, n) = g[n]
  BY AfterIsStepwise
<1> DEFINE S == {k \in 0..n : f[k] <= g[k]}
<1>4. 0 \in S
  BY <1>2, <1>3
<1>5. \A k \in 0..n : k > 0 /\ k - 1 \in S => k \in S
  <2> SUFFICES ASSUME NEW k \in 0..n, k > 0, k - 1 \in S PROVE f[k] <= g[k]
    OBVIOUS
  <2>1. f[k - 1] \in Int /\ g[k - 1] \in Int /\ f[k - 1] <= g[k - 1]
    OBVIOUS
  <2>2. f[k] = NextWorkday(f[k - 1], way) /\ g[k] = NextWorkday(g[k - 1], way)
    BY <1>2, <1>3
  <2> QED
    BY <1>1, <2>1, <2>2
<1> HIDE DEF S
<1>6. n \in S
  <2>1. 0..n \subseteq S
    BY <1>4, <1>5, UpTo
  <2> QED
    BY <2>1
<1> QED
  BY <1>2, <1>3, <1>6 DEF S

LEMMA WorkdaysAreAdded ==
    ASSUME NEW s \in CalendarDate, NEW n \in Int
    PROVE  LET way == IF n >= 0 THEN 1 ELSE -1
           IN  /\ way \in Direction /\ n * way \in Nat
               /\ n >= 0 => n * way = n
               /\ n < 0 => n * way = -n
               /\ AddBusinessDays(s, n) = DateOf(After(DayNumber(s), way, n * way))
<1> DEFINE way == IF n >= 0 THEN 1 ELSE -1
<1>1. /\ way \in Direction /\ n * way \in Nat /\ (n >= 0 => n * way = n) /\ (n < 0 => n * way = -n)
  BY DEF Direction
<1>2. AddBusinessDays(s, n) = DateOf(After(DayNumber(s), way, n * way))
  BY DEF AddBusinessDays, After, NextWorkday
<1> QED
  BY <1>1, <1>2

-----------------------------------------------------------------------------
\* Any offset, from any date.
Units == {"day", "month", "year"}

Exactly(e, to, n, unit, business) ==
    LET from == DayNumber(e)
        day  == DayNumber(to)
        moons == IF unit = "year" THEN 12 * n ELSE n
    IN  CASE unit = "day" /\ ~business -> day - from = n
          [] unit = "day" /\ business ->
               /\ n = 0 => day = from
               /\ n > 0 => Workday(day) /\ Cardinality({d \in (from + 1)..day : Workday(d)}) = n
               /\ n < 0 => Workday(day) /\ Cardinality({d \in day..(from - 1) : Workday(d)}) = -n
          [] OTHER ->
               /\ 12 * to.year + to.month = 12 * e.year + e.month + moons
               /\ \/ to.day = e.day
                  \/ /\ to.day < e.day
                     /\ to.day = MonthDays(to.year, to.month)

LEMMA WorkdayOffset ==
    ASSUME NEW e \in CalendarDate, NEW n \in Int
    PROVE  LET to == AddBusinessDays(e, n)
           IN  /\ to \in CalendarDate /\ Exactly(e, to, n, "day", TRUE)
               /\ n <= 0 => DayNumber(to) <= DayNumber(e)
               /\ n >= 0 => DayNumber(to) >= DayNumber(e)
<1> DEFINE to == AddBusinessDays(e, n)
           x == DayNumber(e)
           way == IF n >= 0 THEN 1 ELSE -1
           y == After(x, way, n * way)
<1>1. /\ way \in Direction /\ n * way \in Nat /\ (n >= 0 => n * way = n) /\ (n < 0 => n * way = -n)
      /\ to = DateOf(y) /\ x \in Int
  BY WorkdaysAreAdded, DateIsIndexed
<1>2. n >= 0 => way = 1
  OBVIOUS
<1>3. n < 0 => way = -1
  OBVIOUS
<1> DEFINE k == n * way
<1>4. k \in Nat /\ (n >= 0 => k = n) /\ (n < 0 => k = -n) /\ y = After(x, way, k)
  BY <1>1
<1> HIDE DEF way, k
<1>5. /\ y \in Int /\ (k = 0 => y = x)
      /\ k > 0 => Workday(y) /\ IF way = 1 THEN x < y ELSE y < x
      /\ Cardinality(Passed(x, way, y)) = k
  BY <1>1, <1>4, WorkdaysAreCounted
<1> HIDE DEF x, y, to
<1>6. to \in CalendarDate /\ DayNumber(to) = y
  BY <1>1, <1>5, DayHasDate
<1>7. /\ n <= 0 => y <= x
      /\ n >= 0 => y >= x
  BY <1>1, <1>2, <1>3, <1>4, <1>5
<1>8. /\ n = 0 => y = x
      /\ n > 0 => Workday(y) /\ Cardinality({d \in (x + 1)..y : Workday(d)}) = n
      /\ n < 0 => Workday(y) /\ Cardinality({d \in y..(x - 1) : Workday(d)}) = -n
  <2>1. n = 0 => y = x
    BY <1>4, <1>5
  <2>2. ASSUME n > 0 PROVE Workday(y) /\ Cardinality({d \in (x + 1)..y : Workday(d)}) = n
    <3>1. Passed(x, way, y) = {d \in (x + 1)..y : Workday(d)}
      BY <2>2, <1>2 DEF Passed
    <3> QED
      BY <2>2, <3>1, <1>4, <1>5
  <2>3. ASSUME n < 0 PROVE Workday(y) /\ Cardinality({d \in y..(x - 1) : Workday(d)}) = -n
    <3>1. Passed(x, way, y) = {d \in y..(x - 1) : Workday(d)}
      BY <2>3, <1>3 DEF Passed
    <3> QED
      BY <2>3, <3>1, <1>4, <1>5
  <2> QED
    BY <2>1, <2>2, <2>3
<1>9. Exactly(e, to, n, "day", TRUE)
  BY <1>6, <1>8 DEF Exactly, x
<1> QED
  BY <1>6, <1>7, <1>9 DEF to, x

LEMMA MonthOffset ==
    ASSUME NEW e \in CalendarDate, NEW n \in Int, NEW unit \in {"month", "year"}, NEW business
    PROVE  LET to == AddMonths(e, IF unit = "year" THEN 12 * n ELSE n)
           IN  /\ to \in CalendarDate /\ Exactly(e, to, n, unit, business)
               /\ n <= 0 => DayNumber(to) <= DayNumber(e)
               /\ n >= 0 => DayNumber(to) >= DayNumber(e)
<1> DEFINE m == IF unit = "year" THEN 12 * n ELSE n
           to == AddMonths(e, m)
<1>1. m \in Int /\ (n <= 0 => m <= 0) /\ (n >= 0 => m >= 0)
  OBVIOUS
<1> HIDE DEF m
<1>2. /\ to \in CalendarDate /\ Index(to) = Index(e) + m
      /\ to.day = Smaller(e.day, MonthDays(to.year, to.month))
      /\ (m <= 0 => DayNumber(to) <= DayNumber(e)) /\ (m >= 0 => DayNumber(to) >= DayNumber(e))
  BY <1>1, MonthsAreAdded, MonthsGoTheirWay
<1> HIDE DEF to
<1>3. e.day \in 1..31 /\ MonthDays(to.year, to.month) \in 28..31
  BY <1>2, DateIsIndexed, MonthIsCounted
<1>4. to.day = e.day \/ (to.day < e.day /\ to.day = MonthDays(to.year, to.month))
  BY <1>2, <1>3 DEF Smaller
<1>5. Exactly(e, to, n, unit, business)
  BY <1>2, <1>4 DEF Exactly, Index, m
<1> QED
  BY <1>1, <1>2, <1>5 DEF to, m

LEMMA DayOffset ==
    ASSUME NEW e \in CalendarDate, NEW n \in Int
    PROVE  LET to == DateOf(DayNumber(e) + n)
           IN  /\ to \in CalendarDate /\ Exactly(e, to, n, "day", FALSE)
               /\ DayNumber(to) = DayNumber(e) + n
  BY DateIsIndexed, DayHasDate DEF Exactly

LEMMA OffsetByUnit ==
    ASSUME NEW e, NEW n
    PROVE  /\ AddTimeOffset(e, n, "day", TRUE) = AddBusinessDays(e, n)
           /\ AddTimeOffset(e, n, "day", FALSE) = DateOf(DayNumber(e) + n)
           /\ \A business \in BOOLEAN :
                 /\ AddTimeOffset(e, n, "month", business) = AddMonths(e, n)
                 /\ AddTimeOffset(e, n, "year", business) = AddMonths(e, 12 * n)
<1>1. AddTimeOffset(e, n, "day", TRUE) = AddBusinessDays(e, n)
  BY DEF AddTimeOffset
<1>2. AddTimeOffset(e, n, "day", FALSE) = DateOf(DayNumber(e) + n)
  BY DEF AddTimeOffset
<1>3. /\ AddTimeOffset(e, n, "month", TRUE) = AddMonths(e, n)
      /\ AddTimeOffset(e, n, "month", FALSE) = AddMonths(e, n)
      /\ AddTimeOffset(e, n, "year", TRUE) = AddMonths(e, 12 * n)
      /\ AddTimeOffset(e, n, "year", FALSE) = AddMonths(e, 12 * n)
  BY DEF AddTimeOffset
<1> QED
  BY <1>1, <1>2, <1>3, Zenon

LEMMA OffsetIsExact ==
    ASSUME NEW e \in CalendarDate, NEW n \in Int, NEW unit \in Units, NEW business \in BOOLEAN
    PROVE  LET to == AddTimeOffset(e, n, unit, business)
           IN  /\ to \in CalendarDate /\ Exactly(e, to, n, unit, business)
               /\ n <= 0 => DayNumber(to) <= DayNumber(e)
               /\ n >= 0 => DayNumber(to) >= DayNumber(e)
<1>1. CASE unit = "day" /\ business
  <2>2. business = TRUE /\ unit = "day"
    BY <1>1
  <2>1. AddTimeOffset(e, n, unit, business) = AddBusinessDays(e, n)
    BY <2>2, OffsetByUnit
  <2> QED
    BY <2>1, <2>2, WorkdayOffset
<1>2. CASE unit = "day" /\ ~business
  <2>2. business = FALSE /\ unit = "day"
    BY <1>2
  <2>1. AddTimeOffset(e, n, unit, business) = DateOf(DayNumber(e) + n)
    BY <2>2, OffsetByUnit
  <2>3. DayNumber(e) \in Int
    BY DateIsIndexed
  <2>4. /\ n <= 0 => DayNumber(e) + n <= DayNumber(e)
        /\ n >= 0 => DayNumber(e) + n >= DayNumber(e)
    BY <2>3
  <2> QED
    BY <2>1, <2>2, <2>4, DayOffset, Zenon
<1>3. CASE unit \in {"month", "year"}
  <2>1. AddTimeOffset(e, n, unit, business) = AddMonths(e, IF unit = "year" THEN 12 * n ELSE n)
    BY <1>3, OffsetByUnit
  <2> QED
    BY <2>1, <1>3, MonthOffset
<1> QED
  BY <1>1, <1>2, <1>3 DEF Units

LEMMA OffsetIsMonotone ==
    ASSUME NEW e \in CalendarDate, NEW f \in CalendarDate, DayNumber(e) <= DayNumber(f),
           NEW n \in Int, NEW unit \in Units, NEW business \in BOOLEAN
    PROVE  DayNumber(AddTimeOffset(e, n, unit, business)) <= DayNumber(AddTimeOffset(f, n, unit, business))
<1>0. DayNumber(e) \in Int /\ DayNumber(f) \in Int
  BY DateIsIndexed
<1>1. CASE unit = "day" /\ business
  <2> DEFINE way == IF n >= 0 THEN 1 ELSE -1
             x == DayNumber(e)
             y == DayNumber(f)
             k == n * way
  <2>1. /\ way \in Direction /\ k \in Nat
        /\ AddBusinessDays(e, n) = DateOf(After(x, way, k))
        /\ AddBusinessDays(f, n) = DateOf(After(y, way, k))
    BY WorkdaysAreAdded
  <2>2. x \in Int /\ y \in Int /\ x <= y
    BY <1>0
  <2> HIDE DEF way, x, y, k
  <2>3. /\ After(x, way, k) <= After(y, way, k)
        /\ After(x, way, k) \in Int /\ After(y, way, k) \in Int
    BY <2>1, <2>2, LaterIsLaterByWorkdays, WorkdaysAreCounted
  <2>4. /\ DayNumber(AddBusinessDays(e, n)) = After(x, way, k)
        /\ DayNumber(AddBusinessDays(f, n)) = After(y, way, k)
    BY <2>1, <2>3, DayHasDate
  <2>6. business = TRUE /\ unit = "day"
    BY <1>1
  <2>5. /\ AddTimeOffset(e, n, unit, business) = AddBusinessDays(e, n)
        /\ AddTimeOffset(f, n, unit, business) = AddBusinessDays(f, n)
    BY <2>6, OffsetByUnit
  <2> QED
    BY <2>3, <2>4, <2>5
<1>2. CASE unit = "day" /\ ~business
  <2>1. /\ AddTimeOffset(e, n, unit, business) = DateOf(DayNumber(e) + n)
        /\ AddTimeOffset(f, n, unit, business) = DateOf(DayNumber(f) + n)
    <3>1. business = FALSE /\ unit = "day"
      BY <1>2
    <3> QED
      BY <3>1, OffsetByUnit
  <2>2. /\ DayNumber(DateOf(DayNumber(e) + n)) = DayNumber(e) + n
        /\ DayNumber(DateOf(DayNumber(f) + n)) = DayNumber(f) + n
    BY DayOffset
  <2>3. DayNumber(e) + n <= DayNumber(f) + n
    BY <1>0
  <2> QED
    BY <2>1, <2>2, <2>3
<1>3. CASE unit \in {"month", "year"}
  <2> DEFINE m == IF unit = "year" THEN 12 * n ELSE n
  <2>1. /\ AddTimeOffset(e, n, unit, business) = AddMonths(e, m)
        /\ AddTimeOffset(f, n, unit, business) = AddMonths(f, m)
    <3>1. CASE unit = "month"
      <4>1. m = n
        BY <3>1
      <4> QED
        BY <4>1, <3>1, OffsetByUnit
    <3>2. CASE unit = "year"
      <4>1. m = 12 * n
        BY <3>2
      <4> QED
        BY <4>1, <3>2, OffsetByUnit
    <3> QED
      BY <1>3, <3>1, <3>2
  <2>2. m \in Int
    OBVIOUS
  <2> HIDE DEF m
  <2> QED
    BY <2>1, <2>2, LaterIsLaterByMonths
<1> QED
  BY <1>1, <1>2, <1>3 DEF Units

-----------------------------------------------------------------------------
(* Rules.                                                                  *)

Bases == {"contract_effective", "contract_signed", "event"}

LEMMA ParsedIsTyped ==
    ASSUME NEW w \in Wording
    PROVE  /\ ParseTimeRule(w) \in TimeRule
           /\ ParseTimeRule(w).type \in Relative =>
                 ParseTimeRule(w).base \in Bases /\ ParseTimeRule(w).offset \in Nat
<1>1. /\ w.fixed \in [year : Nat, month : 1..12, day : 1..31] \cup {None}
      /\ w.periodic \in BOOLEAN /\ w.about \in Bases \cup {None} /\ w.offset \in Nat \cup {None}
      /\ w.unit \in Units /\ w.business \in BOOLEAN /\ w.before \in BOOLEAN /\ w.after \in BOOLEAN
  BY DEF Wording, Bases, Units
<1>2. NoExplicitDate \in TimeRule /\ NoExplicitDate.type = "no_explicit_date"
  BY DEF NoExplicitDate, TimeRule
<1>3. ASSUME NEW type \in Relative, NEW base \in Bases
      PROVE  /\ RelativeRule(type, base, w) \in TimeRule
             /\ RelativeRule(type, base, w).base \in Bases
             /\ RelativeRule(type, base, w).offset \in Nat
  <2> DEFINE n == IF w.offset = None THEN 0 ELSE w.offset
             d == IF w.offset = None THEN "on" ELSE IF w.before /\ ~w.after THEN "before" ELSE "after"
  <2>1. n \in Nat /\ d \in {"before", "after", "on"}
    BY <1>1
  <2>2. RelativeRule(type, base, w) =
          [type |-> type, fixed |-> None, base |-> base, offset |-> n, unit |-> w.unit,
           business |-> w.business, direction |-> d]
    <3>1. RelativeRule(type, base, w) =
            [NoExplicitDate EXCEPT !.type = type, !.base = base, !.offset = n, !.unit = w.unit,
                                   !.business = w.business, !.direction = d]
      BY DEF RelativeRule
    <3> HIDE DEF n, d
    <3> QED
      BY <3>1 DEF NoExplicitDate
  <2> HIDE DEF n, d
  <2> QED
    BY <1>1, <2>1, <2>2 DEF TimeRule, Bases, Units
<1>4. CASE w.fixed # None
  <2>1. ParseTimeRule(w) = [type |-> "fixed_date", fixed |-> w.fixed, base |-> None, offset |-> None,
                            unit |-> "day", business |-> FALSE, direction |-> "on"]
    BY <1>4 DEF ParseTimeRule, NoExplicitDate
  <2> QED
    BY <2>1, <1>1 DEF TimeRule, Relative
<1>5. CASE w.fixed = None /\ w.periodic
  <2>1. ParseTimeRule(w) = [type |-> "periodic", fixed |-> None, base |-> None, offset |-> None,
                            unit |-> "day", business |-> FALSE, direction |-> "after"]
    BY <1>5 DEF ParseTimeRule, NoExplicitDate
  <2> QED
    BY <2>1 DEF TimeRule, Relative
<1>6. CASE w.fixed = None /\ ~w.periodic /\ ~(w.offset = None /\ (w.before \/ w.after))
           /\ w.about # None
  <2>1. \E type \in Relative, base \in Bases : ParseTimeRule(w) = RelativeRule(type, base, w)
    <3> DEFINE t == CASE w.about = "contract_effective" -> "relative_to_contract_effective"
                      [] w.about = "contract_signed" -> "relative_to_contract_signing"
                      [] w.about = "event" -> "relative_to_event"
    <3>1. ParseTimeRule(w) = RelativeRule(t, w.about, w)
      BY <1>6 DEF ParseTimeRule
    <3>2. t \in Relative /\ w.about \in Bases
      BY <1>1, <1>6 DEF Bases, Relative
    <3> HIDE DEF t
    <3> QED
      BY <3>1, <3>2
  <2> QED
    BY <2>1, <1>3
<1>7. CASE /\ w.fixed = None /\ ~w.periodic
           /\ ~(~(w.offset = None /\ (w.before \/ w.after)) /\ w.about # None)
  <2>1. ParseTimeRule(w) = NoExplicitDate
    BY <1>7 DEF ParseTimeRule
  <2> QED
    BY <2>1, <1>2 DEF Relative
<1> QED
  BY <1>4, <1>5, <1>6, <1>7

LEMMA NormalizedIsTyped ==
    ASSUME NEW given \in TimeRule, NEW w \in Wording
    PROVE  LET r == NormalizeTimeRule(given, w)
           IN  /\ r \in TimeRule
               /\ ParseTimeRule(w).type = "no_explicit_date" => r = given
               /\ ParseTimeRule(w).type # "no_explicit_date" =>
                     /\ r.type = ParseTimeRule(w).type
                     /\ r.type \in Relative => r.base \in Bases /\ r.offset \in Nat
<1> DEFINE parsed == ParseTimeRule(w)
           r == NormalizeTimeRule(given, w)
<1>1. /\ parsed \in TimeRule
      /\ parsed.type \in Relative => parsed.base \in Bases /\ parsed.offset \in Nat
  BY ParsedIsTyped
<1>2. parsed.type = "no_explicit_date" => r = given
  BY DEF NormalizeTimeRule
<1>3. parsed.type # "no_explicit_date" =>
        r = [parsed EXCEPT !.offset = IF given.offset # None THEN given.offset ELSE @,
                              !.business = given.business \/ @]
  BY DEF NormalizeTimeRule
<1> HIDE DEF parsed, r
<1>4. CASE parsed.type # "no_explicit_date"
  <2> DEFINE n == IF given.offset # None THEN given.offset ELSE parsed.offset
             b == given.business \/ parsed.business
  <2>1. /\ parsed = [type |-> parsed.type, fixed |-> parsed.fixed, base |-> parsed.base,
                     offset |-> parsed.offset, unit |-> parsed.unit, business |-> parsed.business,
                     direction |-> parsed.direction]
        /\ parsed.business \in BOOLEAN /\ given.business \in BOOLEAN
        /\ given.offset \in Nat \cup {None} /\ parsed.offset \in Nat \cup {None}
    BY <1>1 DEF TimeRule
  <2>2. b \in BOOLEAN
    BY <2>1
  <2>3. n \in Nat \cup {None} /\ (parsed.offset \in Nat => n \in Nat)
    BY <2>1
  <2>4. r = [parsed EXCEPT !.offset = n, !.business = b]
    BY <1>3, <1>4
  <2> HIDE DEF n, b
  <2>5. /\ r = [type |-> parsed.type, fixed |-> parsed.fixed, base |-> parsed.base,
                   offset |-> n, unit |-> parsed.unit, business |-> b,
                   direction |-> parsed.direction]
    BY <2>1, <2>4
  <2>6. r \in TimeRule
    BY <1>1, <2>2, <2>3, <2>5 DEF TimeRule
  <2>7. r.type = parsed.type /\ r.base = parsed.base /\ r.offset = n
    BY <2>5
  <2> QED
    BY <1>1, <1>4, <2>3, <2>6, <2>7 DEF parsed, r
<1>5. CASE parsed.type = "no_explicit_date"
  BY <1>2, <1>5 DEF parsed, r
<1> QED
  BY <1>4, <1>5

\* The date of a rule that counts from an event is an offset from it, if there is one.
LEMMA ResolvedIsOffset ==
    ASSUME NEW r \in TimeRule, r.type \in Relative, NEW e \in EventDates
    PROVE  /\ \/ /\ ResolveDueDate(r, e) = AddTimeOffset(e, Signed(r), r.unit, r.business)
                 /\ r.base # None
              \/ /\ ResolveDueDate(r, e) = None
                 /\ r.base = None \/ (r.offset = None /\ r.direction # "on")
           /\ Signed(r) \in Int /\ r.unit \in Units /\ r.business \in BOOLEAN
           /\ r.direction = "before" => Signed(r) <= 0
           /\ r.direction # "before" => Signed(r) >= 0
<1>1. /\ r.offset \in Nat \cup {None} /\ r.unit \in Units /\ r.business \in BOOLEAN
      /\ r.direction \in {"before", "after", "on"}
  BY DEF TimeRule, Units
<1>2. e # None
  BY TimeAssumption, NoneIsNoDate
<1>3. r.type # "fixed_date" /\ r.type \notin {"periodic", "no_explicit_date"}
  BY DEF Relative
<1> DEFINE value == IF r.offset = None THEN 0 ELSE r.offset
           signed == IF r.direction = "before" THEN -value ELSE value
           none == r.base = None \/ (r.offset = None /\ r.direction # "on")
<1>4. /\ value \in Nat /\ signed \in Int /\ Signed(r) = signed
      /\ (r.direction = "before" => signed <= 0) /\ (r.direction # "before" => signed >= 0)
  BY <1>1 DEF Signed
<1>5. none => ResolveDueDate(r, e) = None
  BY <1>2, <1>3 DEF ResolveDueDate
<1>6. ~none => ResolveDueDate(r, e) = AddTimeOffset(e, signed, r.unit, r.business)
  BY <1>2, <1>3 DEF ResolveDueDate
<1>7. ~none => r.base # None
  OBVIOUS
<1> HIDE DEF value, signed
<1>8. CASE none
  BY <1>8, <1>1, <1>4, <1>5
<1>9. CASE ~none
  <2>1. ResolveDueDate(r, e) = AddTimeOffset(e, Signed(r), r.unit, r.business)
    BY <1>9, <1>4, <1>6
  <2> QED
    BY <2>1, <1>1, <1>4, <1>7, <1>9
<1> QED
  BY <1>8, <1>9

-----------------------------------------------------------------------------
(* The obligation.                                                         *)

DatesInv ==
    /\ TimesTypeOK
    /\ timeRule = None => occurred = None
    /\ timeRule # None =>
          /\ \E given \in ModelRules : timeRule = NormalizeTimeRule(given, timeText)
          /\ planned = ResolveDueDate(timeRule, occurred)
          /\ timeStatus = "waiting_trigger" => timeRule.type \in Relative /\ planned = None

LEMMA DatesAreKept == TimeSpec => []DatesInv
<1>1. TimeInit => DatesInv
  BY DEF TimeInit, DatesInv, TimesTypeOK
<1>2. DatesInv /\ [TimeNext]_timeVars => DatesInv'
  <2> SUFFICES ASSUME DatesInv, [TimeNext]_timeVars PROVE DatesInv'
    OBVIOUS
  <2>1. timeText \in Wordings /\ Wordings \subseteq Wording /\ ModelRules \subseteq TimeRule
    BY TimeAssumption DEF DatesInv, TimesTypeOK
  <2>2. ASSUME NEW r, NEW event, NEW today, Resolve(r, event, today)
        PROVE  /\ planned' = ResolveDueDate(r, event)
               /\ timeStatus' \in {"pending", "waiting_trigger", "overdue", None}
               /\ timeStatus' = "waiting_trigger" => r.type \in Relative /\ planned' = None
    BY <2>2 DEF Resolve
  <2>3. ASSUME NEW given \in ModelRules, NEW event \in EventDates \cup {None}, NEW today \in RunDates,
               Extract(given, event, today)
        PROVE  DatesInv'
    <3> DEFINE r == NormalizeTimeRule(given, timeText)
    <3>1. r \in TimeRule /\ r # None
      BY <2>1, NormalizedIsTyped, NoneIsNoDate
    <3>2. timeRule' = r /\ occurred' = event /\ timeText' = timeText /\ Resolve(r, event, today)
      BY <2>3 DEF Extract
    <3>3. r = NormalizeTimeRule(given, timeText')
      BY <3>2
    <3> HIDE DEF r
    <3> QED
      BY <3>1, <3>2, <3>3, <2>1, <2>2 DEF DatesInv, TimesTypeOK
  <2>4. ASSUME NEW event \in EventDates, NEW today \in RunDates, Recalculate(event, today)
        PROVE  DatesInv'
    <3>1. /\ timeRule # None /\ timeRule' = timeRule /\ occurred' = event /\ timeText' = timeText
          /\ Resolve(timeRule, event, today)
      BY <2>4 DEF Recalculate
    <3> QED
      BY <3>1, <2>2 DEF DatesInv, TimesTypeOK
  <2>5. CASE UNCHANGED timeVars
    BY <2>5 DEF timeVars, DatesInv, TimesTypeOK
  <2> QED
    BY <2>3, <2>4, <2>5 DEF TimeNext
<1> QED
  BY <1>1, <1>2, PTL DEF TimeSpec

\* Due dates are exact, for any words, rules and dates: days, workdays and months are counted as
\* a lawyer counts them, a later event is never due earlier, and nothing waits in vain.
THEOREM DueDatesStayExact == TimeSpec => []DueDatesAreExact
<1>1. DatesInv => DueDatesAreExact
  <2> SUFFICES ASSUME DatesInv PROVE DueDatesAreExact
    OBVIOUS
  <2>1. /\ TimesTypeOK /\ Wordings \subseteq Wording /\ ModelRules \subseteq TimeRule
        /\ EventDates \subseteq CalendarDate
    BY TimeAssumption DEF DatesInv
  <2>2. ASSUME timeRule # None, planned # None, timeRule.type \in Relative
        PROVE  /\ timeRule \in TimeRule /\ occurred \in EventDates
               /\ planned = AddTimeOffset(occurred, Signed(timeRule), timeRule.unit, timeRule.business)
    <3>1. timeRule \in TimeRule /\ planned = ResolveDueDate(timeRule, occurred)
      BY <2>1, <2>2 DEF DatesInv, TimesTypeOK
    <3>2. occurred # None
      BY <3>1, <2>2 DEF ResolveDueDate, Relative
    <3>3. occurred \in EventDates
      BY <3>2, <2>1 DEF TimesTypeOK
    <3> QED
      BY <3>1, <3>3, <2>2, ResolvedIsOffset
  <2>3. OffsetsAreExact
    <3> SUFFICES ASSUME timeRule # None, planned # None, timeRule.type \in Relative
                 PROVE  Exactly(occurred, planned, Signed(timeRule), timeRule.unit, timeRule.business)
      BY DEF OffsetsAreExact, Dated, Exactly
    <3>1. /\ Signed(timeRule) \in Int /\ timeRule.unit \in Units /\ timeRule.business \in BOOLEAN
      BY <2>2, ResolvedIsOffset
    <3> QED
      BY <2>1, <2>2, <3>1, OffsetIsExact
  <2>4. LaterEventsAreDueLater
    <3> SUFFICES ASSUME timeRule # None, planned # None, timeRule.type \in Relative
                 PROVE  /\ \A e \in EventDates : DayNumber(e) >= DayNumber(occurred) =>
                              DayNumber(ResolveDueDate(timeRule, e)) >= DayNumber(planned)
                        /\ IF timeRule.direction = "before" THEN DayNumber(planned) <= DayNumber(occurred)
                           ELSE DayNumber(planned) >= DayNumber(occurred)
      BY DEF LaterEventsAreDueLater, Dated
    <3> DEFINE n == Signed(timeRule)
               u == timeRule.unit
               b == timeRule.business
    <3>1. /\ n \in Int /\ u \in Units /\ b \in BOOLEAN
          /\ timeRule.direction = "before" => n <= 0
          /\ timeRule.direction # "before" => n >= 0
          /\ timeRule \in TimeRule /\ occurred \in CalendarDate
          /\ planned = AddTimeOffset(occurred, n, u, b)
      BY <2>1, <2>2, ResolvedIsOffset
    <3>2. ASSUME NEW e \in EventDates, DayNumber(e) >= DayNumber(occurred)
          PROVE  DayNumber(ResolveDueDate(timeRule, e)) >= DayNumber(planned)
      <4>1. e \in CalendarDate /\ DayNumber(e) \in Int /\ DayNumber(occurred) \in Int
        BY <2>1, <3>1, DateIsIndexed
      <4>2. ResolveDueDate(timeRule, e) = AddTimeOffset(e, n, u, b)
        <5>1. ResolveDueDate(timeRule, occurred) # None /\ occurred \in EventDates
          BY <2>2 DEF DatesInv
        <5>2. ~(timeRule.base = None \/ (timeRule.offset = None /\ timeRule.direction # "on"))
          BY <5>1, <2>2 DEF ResolveDueDate, Relative
        <5> QED
          BY <5>2, <2>2, ResolvedIsOffset
      <4>3. DayNumber(occurred) <= DayNumber(e)
        BY <4>1, <3>2
      <4> HIDE DEF n, u, b
      <4>4. DayNumber(AddTimeOffset(occurred, n, u, b)) <= DayNumber(AddTimeOffset(e, n, u, b))
        BY <3>1, <4>1, <4>3, OffsetIsMonotone
      <4>5. /\ AddTimeOffset(occurred, n, u, b) \in CalendarDate
            /\ AddTimeOffset(e, n, u, b) \in CalendarDate
        BY <3>1, <4>1, OffsetIsExact
      <4>6. /\ DayNumber(AddTimeOffset(occurred, n, u, b)) \in Int
            /\ DayNumber(AddTimeOffset(e, n, u, b)) \in Int
        BY <4>5, DateIsIndexed
      <4> QED
        BY <3>1, <4>2, <4>4, <4>6
    <3>3. IF timeRule.direction = "before" THEN DayNumber(planned) <= DayNumber(occurred)
          ELSE DayNumber(planned) >= DayNumber(occurred)
      <4> HIDE DEF n, u, b
      <4> QED
        BY <3>1, OffsetIsExact
    <3> QED
      BY <3>2, <3>3
  <2>5. WaitsForSomething
    <3> SUFFICES ASSUME timeStatus = "waiting_trigger", occurred # None
                 PROVE  /\ ParseTimeRule(timeText).type = "no_explicit_date"
                        /\ timeRule.base = None \/ timeRule.offset = None
      BY DEF WaitsForSomething
    <3>1. /\ timeRule # None /\ timeRule.type \in Relative /\ timeRule \in TimeRule
          /\ ResolveDueDate(timeRule, occurred) = None /\ occurred \in EventDates
      BY <2>1 DEF DatesInv, TimesTypeOK
    <3>2. PICK given \in ModelRules : timeRule = NormalizeTimeRule(given, timeText)
      BY <3>1 DEF DatesInv
    <3>3. \/ ParseTimeRule(timeText).type = "no_explicit_date"
          \/ timeRule.base \in Bases /\ timeRule.offset \in Nat
      BY <2>1, <3>1, <3>2, NormalizedIsTyped DEF TimesTypeOK
    <3>4. timeRule.base = None \/ timeRule.offset = None
      <4>1. CASE ResolveDueDate(timeRule, occurred)
                   = AddTimeOffset(occurred, Signed(timeRule), timeRule.unit, timeRule.business)
        <5>1. /\ Signed(timeRule) \in Int /\ timeRule.unit \in Units /\ timeRule.business \in BOOLEAN
              /\ occurred \in CalendarDate
          BY <2>1, <3>1, ResolvedIsOffset
        <5> QED
          BY <3>1, <4>1, <5>1, OffsetIsExact, NoneIsNoDate
      <4>2. CASE ~(ResolveDueDate(timeRule, occurred)
                     = AddTimeOffset(occurred, Signed(timeRule), timeRule.unit, timeRule.business))
        BY <3>1, <4>2, ResolvedIsOffset
      <4> QED
        BY <4>1, <4>2
    <3>5. timeRule.base \notin Bases \/ timeRule.offset \notin Nat
      BY <3>4, NoneIsNoDate DEF Bases
    <3> QED
      BY <3>3, <3>4, <3>5
  <2> QED
    BY <2>1, <2>3, <2>4, <2>5 DEF DueDatesAreExact
<1> QED
  BY <1>1, DatesAreKept, PTL

-----------------------------------------------------------------------------
(* Grading.                                                                *)

\* A sum is computed step by step.
LEMMA SumIsStepwise ==
    ASSUME NEW s \in Seq(Nat)
    PROVE  \E f \in [0..Len(s) -> Nat] :
              /\ f[0] = 0 /\ \A i \in 1..Len(s) : f[i] = f[i - 1] + s[i]
              /\ SumOf(s) = f[Len(s)]
<1> DEFINE n == Len(s)
           F == [p \in (1..n) \X Nat |-> p[2] + s[p[1]]]
<1>1. n \in Nat /\ \A i \in 1..n : s[i] \in Nat
  OBVIOUS
<1> HIDE DEF n
<1>2. F \in [(1..n) \X Nat -> Nat]
  BY <1>1
<1> HIDE DEF F
<1>3. PICK g : Follows(g, n, Nat, 0, F)
  BY <1>1, <1>2, StepsExist
<1>4. g \in [0..n -> Nat] /\ g[0] = 0 /\ \A i \in 1..n : g[i] = F[<<i, g[i - 1]>>]
  BY <1>3 DEF Follows
<1>5. \A i \in 1..n : g[i] = g[i - 1] + s[i]
  <2> TAKE i \in 1..n
  <2>1. g[i] = F[<<i, g[i - 1]>>] /\ g[i - 1] \in Nat
    BY <1>4, <1>1
  <2> QED
    BY <2>1 DEF F
<1> DEFINE sum == CHOOSE f : f = [i \in 0..n |-> IF i = 0 THEN 0 ELSE f[i - 1] + s[i]]
<1>6. g = [i \in 0..n |-> IF i = 0 THEN 0 ELSE g[i - 1] + s[i]]
  BY <1>4, <1>5, <1>1
<1>7. sum = [i \in 0..n |-> IF i = 0 THEN 0 ELSE sum[i - 1] + s[i]]
  BY <1>6
<1>8. SumOf(s) = sum[n]
  BY DEF SumOf, n
<1> HIDE DEF sum
<1>9. sum[0] = 0 /\ \A i \in 1..n : sum[i] = sum[i - 1] + s[i]
  BY <1>7, <1>1
<1> DEFINE S == {i \in 0..n : sum[i] \in Nat}
<1>10. 0 \in S
  BY <1>9, <1>1
<1>11. \A i \in 0..n : i > 0 /\ i - 1 \in S => i \in S
  <2> TAKE i \in 0..n
  <2>1. i > 0 => sum[i] = sum[i - 1] + s[i] /\ s[i] \in Nat
    BY <1>9, <1>1
  <2> QED
    BY <2>1
<1> HIDE DEF S
<1>12. 0..n \subseteq S
  BY <1>10, <1>11, <1>1, UpTo
<1>13. \A i \in 0..n : sum[i] \in Nat
  BY <1>12 DEF S
<1>14. sum \in [0..n -> Nat]
  BY <1>13, <1>7
<1> QED
  BY <1>8, <1>9, <1>14 DEF n

LEMMA SumIsANumber ==
    ASSUME NEW s \in Seq(Nat)
    PROVE  SumOf(s) \in Nat /\ (s = <<>> => SumOf(s) = 0)
<1> PICK f \in [0..Len(s) -> Nat] :
           /\ f[0] = 0 /\ \A i \in 1..Len(s) : f[i] = f[i - 1] + s[i]
           /\ SumOf(s) = f[Len(s)]
  BY SumIsStepwise
<1>1. Len(s) \in Nat /\ Len(s) \in 0..Len(s) /\ (s = <<>> => Len(s) = 0)
  OBVIOUS
<1> QED
  BY <1>1

\* One number more is added.
LEMMA SumOfOneMore ==
    ASSUME NEW s \in Seq(Nat), NEW x \in Nat
    PROVE  SumOf(Append(s, x)) = SumOf(s) + x
<1> DEFINE t == Append(s, x)
           n == Len(s)
<1>1. t \in Seq(Nat) /\ Len(t) = n + 1 /\ n \in Nat /\ t[n + 1] = x /\ \A i \in 1..n : t[i] = s[i]
  OBVIOUS
<1> HIDE DEF t, n
<1>2. PICK f \in [0..n -> Nat] :
           /\ f[0] = 0 /\ \A i \in 1..n : f[i] = f[i - 1] + s[i]
           /\ SumOf(s) = f[n]
  BY SumIsStepwise DEF n
<1>3. PICK g \in [0..Len(t) -> Nat] :
           /\ g[0] = 0 /\ \A i \in 1..Len(t) : g[i] = g[i - 1] + t[i]
           /\ SumOf(t) = g[Len(t)]
  BY <1>1, SumIsStepwise
<1> DEFINE S == {i \in 0..n : f[i] = g[i]}
<1>4. 0 \in S
  BY <1>1, <1>2, <1>3
<1>5. \A i \in 0..n : i > 0 /\ i - 1 \in S => i \in S
  <2> TAKE i \in 0..n
  <2>1. i > 0 => i \in 1..n /\ i \in 1..Len(t)
    BY <1>1
  <2>2. i > 0 => f[i] = f[i - 1] + s[i] /\ g[i] = g[i - 1] + t[i] /\ t[i] = s[i]
    BY <2>1, <1>1, <1>2, <1>3
  <2> QED
    BY <2>2
<1> HIDE DEF S
<1>6. 0..n \subseteq S
  BY <1>1, <1>4, <1>5, UpTo
<1>7. f[n] = g[n]
  BY <1>6, <1>1 DEF S
<1>8. g[n + 1] = g[n] + x
  BY <1>1, <1>3
<1> QED
  BY <1>1, <1>2, <1>3, <1>7, <1>8 DEF t

\* A sum of percentages.
LEMMA SumOfPercents ==
    ASSUME NEW s \in Seq(Nat), \A i \in 1..Len(s) : s[i] <= 100
    PROVE  SumOf(s) \in Nat /\ SumOf(s) <= 100 * Len(s)
<1> DEFINE n == Len(s)
<1>1. n \in Nat /\ \A i \in 1..n : s[i] \in Nat /\ s[i] <= 100
  OBVIOUS
<1> HIDE DEF n
<1>2. PICK f \in [0..n -> Nat] :
           /\ f[0] = 0 /\ \A i \in 1..n : f[i] = f[i - 1] + s[i]
           /\ SumOf(s) = f[n]
  BY <1>1, SumIsStepwise DEF n
<1> DEFINE S == {i \in 0..n : f[i] <= 100 * i}
<1>4. 0 \in S
  BY <1>1, <1>2
<1>5. \A i \in 0..n : i > 0 /\ i - 1 \in S => i \in S
  <2> TAKE i \in 0..n
  <2>1. i > 0 => f[i] = f[i - 1] + s[i] /\ s[i] \in Nat /\ s[i] <= 100 /\ f[i - 1] \in Nat
    BY <1>1, <1>2
  <2> QED
    BY <2>1, <1>1
<1> HIDE DEF S
<1>6. 0..n \subseteq S
  BY <1>1, <1>4, <1>5, UpTo
<1>7. f[n] <= 100 * n /\ f[n] \in Nat
  BY <1>6, <1>1, <1>2 DEF S
<1> QED
  BY <1>2, <1>7 DEF n

\* What is kept of a sequence is of it and in the set.
LEMMA KeepingKeeps ==
    ASSUME NEW A, NEW S, NEW s \in Seq(A)
    PROVE  Keeping(s, S) \in Seq(A \cap S)
<1> DEFINE n == Len(s)
           B == Seq(A \cap S)
           F == [p \in (1..n) \X B |-> IF s[p[1]] \in S THEN Append(p[2], s[p[1]]) ELSE p[2]]
<1>1. n \in Nat /\ \A i \in 1..n : s[i] \in A
  OBVIOUS
<1>2. <<>> \in B
  OBVIOUS
<1>21. \A q \in B, x \in A \cap S : Append(q, x) \in B
  OBVIOUS
<1> HIDE DEF n, B
<1>3. F \in [(1..n) \X B -> B]
  BY <1>1, <1>21
<1> HIDE DEF F
<1>4. PICK g : Follows(g, n, B, <<>>, F)
  BY <1>1, <1>2, <1>3, StepsExist
<1>5. g \in [0..n -> B] /\ g[0] = <<>> /\ \A i \in 1..n : g[i] = F[<<i, g[i - 1]>>]
  BY <1>4 DEF Follows
<1>6. \A i \in 1..n : g[i] = IF s[i] \in S THEN Append(g[i - 1], s[i]) ELSE g[i - 1]
  <2> TAKE i \in 1..n
  <2>1. g[i] = F[<<i, g[i - 1]>>] /\ g[i - 1] \in B
    BY <1>5, <1>1
  <2> QED
    BY <2>1 DEF F
<1> DEFINE Rec(f, i) == IF i = 0 THEN <<>>
                         ELSE IF s[i] \in S THEN Append(f[i - 1], s[i]) ELSE f[i - 1]
           kept == CHOOSE f : f = [i \in 0..n |-> Rec(f, i)]
<1>7. g = [i \in 0..n |-> Rec(g, i)]
  <2>1. \A i \in 0..n : g[i] = Rec(g, i)
    <3> TAKE i \in 0..n
    <3>1. CASE i = 0
      BY <3>1, <1>5
    <3>2. CASE i # 0
      <4>1. i \in 1..n
        BY <3>2, <1>1
      <4> QED
        BY <4>1, <3>2, <1>6
    <3> QED
      BY <3>1, <3>2
  <2> HIDE DEF Rec
  <2> QED
    BY <2>1, <1>5
<1>9. Keeping(s, S) = kept[n]
  BY DEF Keeping, n
<1>8. kept = [i \in 0..n |-> Rec(kept, i)]
  <2> HIDE DEF Rec
  <2> QED
    BY <1>7
<1> HIDE DEF kept
<1>81. \A i \in 0..n : kept[i] = Rec(kept, i)
  <2> HIDE DEF Rec
  <2> QED
    BY <1>8
<1>10. kept[0] = <<>>
  BY <1>81, <1>1
<1>101. \A i \in 1..n : kept[i] = IF s[i] \in S THEN Append(kept[i - 1], s[i]) ELSE kept[i - 1]
  <2> TAKE i \in 1..n
  <2>1. i \in 0..n /\ i # 0
    BY <1>1
  <2>2. kept[i] = Rec(kept, i)
    BY <2>1, <1>81
  <2> QED
    BY <2>1, <2>2
<1> DEFINE T == {i \in 0..n : kept[i] \in B}
<1>11. 0 \in T
  BY <1>10, <1>1, <1>2
<1>12. \A i \in 0..n : i > 0 /\ i - 1 \in T => i \in T
  <2> TAKE i \in 0..n
  <2>1. i > 0 => /\ s[i] \in A
                 /\ kept[i] = IF s[i] \in S THEN Append(kept[i - 1], s[i]) ELSE kept[i - 1]
    BY <1>101, <1>1
  <2> QED
    BY <2>1, <1>21
<1> HIDE DEF T
<1>13. 0..n \subseteq T
  BY <1>11, <1>12, <1>1, UpTo
<1>14. n \in T
  BY <1>13, <1>1
<1> QED
  BY <1>9, <1>14 DEF T, B

\* The total of the documents selected.
LEMMA TotalOfOneMore ==
    ASSUME NEW ds \in Seq(Document), NEW doc \in Document
    PROVE  /\ Total(ds) \in Nat
           /\ ds = <<>> => Total(ds) = 0
           /\ Total(Append(ds, doc)) = Total(ds) + doc.size
<1> DEFINE s == [i \in DOMAIN ds |-> ds[i].size]
           t == [i \in DOMAIN Append(ds, doc) |-> Append(ds, doc)[i].size]
<1>0. doc.size \in Nat /\ \A d \in Document : d.size \in Nat
  BY DEF Document
<1>1. Len(ds) \in Nat /\ DOMAIN ds = 1..Len(ds) /\ \A i \in 1..Len(ds) : ds[i] \in Document
  OBVIOUS
<1>2. s \in Seq(Nat) /\ Len(s) = Len(ds)
  BY <1>0, <1>1
<1>3. t = Append(s, doc.size)
  <2>1. DOMAIN t = 1..(Len(ds) + 1) /\ DOMAIN Append(s, doc.size) = 1..(Len(ds) + 1)
    BY <1>1, <1>2
  <2>2. ASSUME NEW i \in 1..(Len(ds) + 1) PROVE t[i] = Append(s, doc.size)[i]
    <3>1. CASE i \in 1..Len(ds)
      <4>1. t[i] = ds[i].size /\ s[i] = ds[i].size
        BY <3>1, <1>1, <2>1
      <4>2. Append(s, doc.size)[i] = s[i]
        BY <3>1, <1>2, <1>0
      <4> QED
        BY <4>1, <4>2
    <3>2. CASE i = Len(ds) + 1
      BY <3>2, <1>1, <1>2, <1>0, <2>1
    <3> QED
      BY <3>1, <3>2, <1>1
  <2>3. t = [i \in 1..(Len(ds) + 1) |-> t[i]]
    BY <2>1
  <2>4. Append(s, doc.size) = [i \in 1..(Len(ds) + 1) |-> Append(s, doc.size)[i]]
    BY <1>2, <1>0
  <2> HIDE DEF t, s
  <2> QED
    BY <2>2, <2>3, <2>4
<1>4. Total(ds) = SumOf(s) /\ Total(Append(ds, doc)) = SumOf(t)
  BY DEF Total
<1>5. ds = <<>> => s = <<>>
  OBVIOUS
<1> HIDE DEF s, t
<1> QED
  BY <1>0, <1>2, <1>3, <1>4, <1>5, SumIsANumber, SumOfOneMore

\* What has been selected fits the plan.
FitsPrompt(ds) ==
    /\ ds \in Seq(Document) /\ Len(ds) <= TopN /\ Total(ds) <= MaxChars
    /\ \A i \in DOMAIN ds : ds[i].good /\ ds[i].size <= MaxDocChars
    /\ \A i, j \in DOMAIN ds : ds[i].key = ds[j].key /\ ds[i].faq = ds[j].faq => i = j

LEMMA NothingFits == FitsPrompt(<<>>)
<1>1. <<>> \in Seq(Document) /\ Len(<<>>) = 0 /\ DOMAIN <<>> = {}
  OBVIOUS
<1>2. \E doc : doc \in Document
  <2>1. [key |-> None, size |-> 0, table |-> TRUE, faq |-> TRUE, good |-> TRUE] \in Document
    BY DEF Document
  <2> QED
    BY <2>1
<1>3. Total(<<>>) = 0
  BY <1>1, <1>2, TotalOfOneMore
<1> QED
  BY <1>1, <1>3, GradingAssumption DEF FitsPrompt

\* A document is appended only if it fits.
LEMMA AppendDocFits ==
    ASSUME NEW ds, FitsPrompt(ds), NEW hit \in Hit \cap Good, NEW isFaq \in BOOLEAN
    PROVE  FitsPrompt(AppendDoc(ds, hit, isFaq))
<1> DEFINE doc  == [key |-> hit.key, size |-> Smaller(hit.size, MaxDocChars),
                    table |-> hit.table, faq |-> isFaq, good |-> hit.good]
           more == Append(ds, doc)
           drop == \/ \E i \in DOMAIN ds : ds[i].key = hit.key /\ ds[i].faq = isFaq
                   \/ Len(ds) >= TopN
                   \/ ds # <<>> /\ Total(ds) + doc.size > MaxChars
<1>1. AppendDoc(ds, hit, isFaq) = IF drop THEN ds ELSE more
  BY DEF AppendDoc
<1>2. hit.key \in Keys /\ hit.size \in Nat /\ hit.table \in BOOLEAN /\ hit.good \in BOOLEAN /\ hit.good
  BY GradingAssumption DEF Hit, Good
<1>3. Smaller(hit.size, MaxDocChars) \in Nat /\ Smaller(hit.size, MaxDocChars) <= MaxDocChars
  BY <1>2, GradingAssumption DEF Smaller
<1>4. /\ doc \in Document /\ doc.good /\ doc.size \in Nat /\ doc.size <= MaxDocChars
      /\ doc.key = hit.key /\ doc.faq = isFaq
  BY <1>2, <1>3 DEF Document
<1> HIDE DEF doc
<1>5. ASSUME ~drop PROVE FitsPrompt(more)
  <2>1. ds \in Seq(Document) /\ Len(ds) \in Nat /\ Len(ds) < TopN /\ DOMAIN ds = 1..Len(ds)
    BY <1>5, GradingAssumption DEF FitsPrompt
  <2>2. /\ more \in Seq(Document) /\ Len(more) = Len(ds) + 1 /\ DOMAIN more = 1..(Len(ds) + 1)
        /\ more[Len(ds) + 1] = doc /\ \A i \in 1..Len(ds) : more[i] = ds[i]
    BY <2>1, <1>4
  <2>3. Total(more) = Total(ds) + doc.size /\ Total(ds) \in Nat /\ (ds = <<>> => Total(ds) = 0)
    BY <2>1, <1>4, TotalOfOneMore
  <2>4. Total(more) <= MaxChars
    <3>1. CASE ds = <<>>
      BY <3>1, <2>3, <1>4, GradingAssumption
    <3>2. CASE ds # <<>>
      BY <3>2, <2>3, <1>4, <1>5, GradingAssumption
    <3> QED
      BY <3>1, <3>2
  <2>5. \A i \in 1..Len(ds) : ~ (ds[i].key = doc.key /\ ds[i].faq = doc.faq)
    BY <1>4, <1>5, <2>1
  <2> HIDE DEF more, drop
  <2>6. \A i \in DOMAIN more : more[i].good /\ more[i].size <= MaxDocChars
    <3> TAKE i \in DOMAIN more
    <3>1. CASE i = Len(ds) + 1
      BY <3>1, <2>2, <1>4
    <3>2. CASE i \in 1..Len(ds)
      BY <3>2, <2>1, <2>2 DEF FitsPrompt
    <3> QED
      BY <3>1, <3>2, <2>1, <2>2
  <2>7. ASSUME NEW i \in DOMAIN more, NEW j \in DOMAIN more,
               more[i].key = more[j].key, more[i].faq = more[j].faq
        PROVE  i = j
    <3>1. (i = Len(ds) + 1 \/ i \in 1..Len(ds)) /\ (j = Len(ds) + 1 \/ j \in 1..Len(ds))
      BY <2>1, <2>2
    <3>2. CASE i \in 1..Len(ds) /\ j \in 1..Len(ds)
      BY <3>2, <2>1, <2>2, <2>7 DEF FitsPrompt
    <3>3. CASE i \in 1..Len(ds) /\ j = Len(ds) + 1
      BY <3>3, <2>2, <2>5, <2>7
    <3>4. CASE i = Len(ds) + 1 /\ j \in 1..Len(ds)
      BY <3>4, <2>2, <2>5, <2>7
    <3> QED
      BY <3>1, <3>2, <3>3, <3>4
  <2>8. Len(more) <= TopN
    BY <2>1, <2>2, GradingAssumption
  <2> QED
    BY <2>2, <2>4, <2>6, <2>7, <2>8 DEF FitsPrompt
<1> QED
  BY <1>1, <1>5

\* So does what is selected one by one, whatever was taken.
LEMMA SelectedFits ==
    ASSUME NEW f \in Seq(Hit), NEW d \in Seq(Hit), NEW p \in BOOLEAN
    PROVE  FitsPrompt(SelectContextDocs(f, d, p))
<1> DEFINE best  == Keeping(f, Good)
           two   == SubSeq(best, 1, Smaller(2, Len(best)))
           kept  == Keeping(d, Good)
           tail  == InOrder(kept, p)
           taken == two \o tail
           G     == Hit \cap Good
<1>1. best \in Seq(G) /\ kept \in Seq(G)
  BY KeepingKeeps
<1> HIDE DEF best, kept
<1>2. two \in Seq(G)
  <2>1. Len(best) \in Nat /\ Smaller(2, Len(best)) \in 0..Len(best)
    BY <1>1 DEF Smaller
  <2> HIDE DEF G
  <2> QED
    BY <2>1, <1>1
<1>3. tail \in Seq(G)
  <2>1. \A S : Keeping(kept, S) \in Seq(G \cap S)
    BY <1>1, KeepingKeeps
  <2>2. \A S, q : q \in Seq(G \cap S) => q \in Seq(G)
    OBVIOUS
  <2> HIDE DEF G
  <2>3. Keeping(kept, Tables) \in Seq(G) /\ Keeping(kept, Hit \ Tables) \in Seq(G)
    BY <2>1, <2>2
  <2>4. Keeping(kept, Tables) \o Keeping(kept, Hit \ Tables) \in Seq(G)
    BY <2>3
  <2> QED
    BY <1>1, <2>4 DEF InOrder
<1> DEFINE n == Len(taken)
           m == Len(two)
<1>4. n \in Nat /\ m \in Nat /\ \A i \in 1..n : taken[i] \in G
  <2>1. taken \in Seq(G)
    BY <1>2, <1>3
  <2> HIDE DEF taken, two, G
  <2>2. m \in Nat
    BY <1>2
  <2> QED
    BY <2>1, <2>2
<1> DEFINE B == {ds \in Seq(Document) : FitsPrompt(ds)}
           F == [q \in (1..n) \X B |-> AppendDoc(q[2], taken[q[1]], q[1] <= m)]
           Rec(g, i) == IF i = 0 THEN <<>> ELSE AppendDoc(g[i - 1], taken[i], i <= m)
           selected == CHOOSE g : g = [i \in 0..n |-> Rec(g, i)]
<1>5. SelectContextDocs(f, d, p) = selected[n]
  BY DEF SelectContextDocs, best, kept
<1> HIDE DEF taken, n, m, two
<1>51. <<>> \in B
  BY NothingFits
<1>52. ASSUME NEW ds \in B, NEW i \in 1..n PROVE AppendDoc(ds, taken[i], i <= m) \in B
  <2>1. FitsPrompt(ds) /\ taken[i] \in Hit \cap Good /\ (i <= m) \in BOOLEAN
    BY <1>4
  <2>2. FitsPrompt(AppendDoc(ds, taken[i], i <= m))
    BY <2>1, AppendDocFits
  <2> QED
    BY <2>2 DEF FitsPrompt
<1> HIDE DEF B
<1>6. F \in [(1..n) \X B -> B]
  BY <1>52
<1> HIDE DEF F
<1>7. PICK g : Follows(g, n, B, <<>>, F)
  BY <1>4, <1>51, <1>6, StepsExist
<1>8. g \in [0..n -> B] /\ g[0] = <<>> /\ \A i \in 1..n : g[i] = F[<<i, g[i - 1]>>]
  BY <1>7 DEF Follows
<1>9. \A i \in 1..n : g[i] = AppendDoc(g[i - 1], taken[i], i <= m)
  <2> TAKE i \in 1..n
  <2>1. g[i] = F[<<i, g[i - 1]>>] /\ g[i - 1] \in B
    BY <1>8, <1>4
  <2> QED
    BY <2>1 DEF F
<1>10. g = [i \in 0..n |-> Rec(g, i)]
  <2>1. \A i \in 0..n : g[i] = Rec(g, i)
    <3> TAKE i \in 0..n
    <3>1. CASE i = 0
      BY <3>1, <1>8
    <3>2. CASE i # 0
      <4>1. i \in 1..n
        BY <3>2, <1>4
      <4> QED
        BY <4>1, <3>2, <1>9
    <3> QED
      BY <3>1, <3>2
  <2> HIDE DEF Rec
  <2> QED
    BY <2>1, <1>8
<1>11. selected = [i \in 0..n |-> Rec(selected, i)]
  <2> HIDE DEF Rec
  <2> QED
    BY <1>10
<1> HIDE DEF selected
<1>12. \A i \in 0..n : selected[i] = Rec(selected, i)
  <2> HIDE DEF Rec
  <2> QED
    BY <1>11
<1>13. selected[0] = <<>>
  BY <1>12, <1>4
<1>14. \A i \in 1..n : selected[i] = AppendDoc(selected[i - 1], taken[i], i <= m)
  <2> TAKE i \in 1..n
  <2>1. i \in 0..n /\ i # 0
    BY <1>4
  <2>2. selected[i] = Rec(selected, i)
    BY <2>1, <1>12
  <2> QED
    BY <2>1, <2>2
<1> DEFINE T == {i \in 0..n : selected[i] \in B}
<1>15. 0 \in T
  BY <1>13, <1>4, <1>51
<1>16. \A i \in 0..n : i > 0 /\ i - 1 \in T => i \in T
  <2> TAKE i \in 0..n
  <2>1. i > 0 => i \in 1..n /\ selected[i] = AppendDoc(selected[i - 1], taken[i], i <= m)
    BY <1>14, <1>4
  <2> QED
    BY <2>1, <1>52
<1> HIDE DEF T
<1>17. 0..n \subseteq T
  BY <1>15, <1>16, <1>4, UpTo
<1>18. n \in T
  BY <1>17, <1>4
<1> QED
  BY <1>5, <1>18 DEF T, B

\* What a claim is, and a sequence of claims.
LEMMA ClaimsAre ==
    ASSUME NEW c \in Seq(Claim)
    PROVE  /\ Len(c) \in Nat /\ DOMAIN c = 1..Len(c)
           /\ CitedClaims(c) \in Nat /\ CitedClaims(c) <= Len(c)
           /\ InvalidCites(c) \in Nat
           /\ OverlapSum(c) \in Nat /\ OverlapSum(c) <= 100 * Len(c)
           /\ (\A i \in DOMAIN c : c[i].cites = {}) => CitedClaims(c) = 0
<1>1. /\ Len(c) \in Nat /\ DOMAIN c = 1..Len(c)
      /\ \A i \in 1..Len(c) : c[i].cites \in SUBSET (1..(TopN + 1)) /\ c[i].overlap \in Overlaps
  <2>1. Len(c) \in Nat /\ DOMAIN c = 1..Len(c) /\ \A i \in 1..Len(c) : c[i] \in Claim
    OBVIOUS
  <2>2. \A x \in Claim : x.cites \in SUBSET (1..(TopN + 1)) /\ x.overlap \in Overlaps
    BY DEF Claim
  <2> QED
    BY <2>1, <2>2
<1>2. IsFiniteSet(1..Len(c)) /\ Cardinality(1..Len(c)) = Len(c)
  <2>1. \A k \in Nat : /\ IsFiniteSet(1..k)
                       /\ Cardinality(1..k) = IF 1 > k THEN 0 ELSE k - 1 + 1
    BY FS_Interval
  <2>2. \A k \in Nat : (IF 1 > k THEN 0 ELSE k - 1 + 1) = k
    OBVIOUS
  <2> QED
    BY <1>1, <2>1, <2>2
<1>3. CitedClaims(c) \in Nat /\ CitedClaims(c) <= Len(c)
  <2> DEFINE S == {i \in DOMAIN c : c[i].cites \cap DOMAIN docs # {}}
  <2>1. S \subseteq 1..Len(c)
    BY <1>1
  <2> HIDE DEF S
  <2>2. IsFiniteSet(S) /\ Cardinality(S) <= Len(c)
    BY <2>1, <1>2, FS_Subset
  <2>3. Cardinality(S) \in Nat
    BY <2>2, FS_CardinalityType
  <2> QED
    BY <2>2, <2>3 DEF CitedClaims, S
<1>4. InvalidCites(c) \in Nat
  <2> DEFINE S == UNION {c[i].cites \ DOMAIN docs : i \in DOMAIN c}
  <2>1. S \subseteq 1..(TopN + 1)
    BY <1>1
  <2>2. IsFiniteSet(1..(TopN + 1))
    BY FS_Interval, GradingAssumption
  <2> HIDE DEF S
  <2>3. Cardinality(S) \in Nat
    BY <2>1, <2>2, FS_Subset, FS_CardinalityType
  <2> QED
    BY <2>3 DEF InvalidCites, S
<1>5. OverlapSum(c) \in Nat /\ OverlapSum(c) <= 100 * Len(c)
  <2> DEFINE s == [i \in DOMAIN c |-> c[i].overlap]
  <2>0. \A x \in Overlaps : x \in Nat /\ x <= 100
    BY GradingAssumption
  <2>1. \A i \in 1..Len(c) : c[i].overlap \in Nat /\ c[i].overlap <= 100
    BY <1>1, <2>0
  <2>2. s \in Seq(Nat) /\ Len(s) = Len(c)
    BY <1>1, <2>1
  <2>3. \A i \in 1..Len(s) : s[i] <= 100
    BY <1>1, <2>1, <2>2
  <2>4. OverlapSum(c) = SumOf(s)
    BY DEF OverlapSum
  <2> HIDE DEF s
  <2> QED
    BY <2>2, <2>3, <2>4, SumOfPercents
<1>6. (\A i \in DOMAIN c : c[i].cites = {}) => CitedClaims(c) = 0
  <2> SUFFICES ASSUME \A i \in DOMAIN c : c[i].cites = {} PROVE CitedClaims(c) = 0
    OBVIOUS
  <2>1. {i \in DOMAIN c : c[i].cites \cap DOMAIN docs # {}} = {}
    OBVIOUS
  <2> QED
    BY <2>1, FS_EmptySet DEF CitedClaims
<1> QED
  BY <1>1, <1>3, <1>4, <1>5, <1>6

\* Products.
LEMMA LengthIsAtMost ==
    ASSUME NEW n \in Nat, NEW length \in 0..100
    PROVE  5 * length * n \in Nat /\ 5 * length * n <= 500 * n
<1>1. length * n \in Nat /\ length * n <= 100 * n
  OBVIOUS
<1>2. 5 * length * n = 5 * (length * n)
  OBVIOUS
<1> QED
  BY <1>1, <1>2

LEMMA PenaltyIsANumber ==
    ASSUME NEW n \in Nat, NEW x \in Nat
    PROVE  n * x \in Nat
  OBVIOUS

\* A quotient of at least 82.
LEMMA QuotientIsAtLeast ==
    ASSUME NEW a \in Int, NEW d \in Nat \ {0}, a \div d >= 82
    PROVE  a >= 82 * d
<1> DEFINE q == a \div d
           r == a % d
<1>1. q \in Int /\ r \in 0..(d - 1) /\ a = d * q + r
  OBVIOUS
<1> HIDE DEF q, r
<1>2. q >= 82
  BY DEF q
<1>3. d * q >= d * 82
  BY <1>1, <1>2
<1> QED
  BY <1>1, <1>3

\* A high score has claims that cite and claims taken from the context.
Supported(c) ==
    /\ 100 * CitedClaims(c) >= 48 * Len(c) /\ OverlapSum(c) >= 38 * Len(c) /\ c # <<>>
    /\ CitedClaims(c) # 0

LEMMA HighIsSupported ==
    ASSUME NEW c \in Seq(Claim), NEW length \in 0..100, GroundingScore(c, length) >= High
    PROVE  Supported(c)
<1> DEFINE k   == CitedClaims(c)
           S   == OverlapSum(c)
           len == Len(c)
           n   == Larger(1, len)
           v   == Smaller(2000, 500 * InvalidCites(c))
           raw == 55 * (35 * n + 65 * k) + 1000 * n + 30 * S + 5 * length * n - n * v
           g   == Grounding(c, length)
<1>1. /\ len \in Nat /\ k \in Nat /\ k <= len /\ S \in Nat /\ S <= 100 * len
      /\ InvalidCites(c) \in Nat
  BY ClaimsAre
<1>2. g = IF len > 1 /\ k = 0 THEN Smaller(raw, 6500 * n) ELSE raw
  BY DEF Grounding
<1>21. GroundingScore(c, length) = Clamp(Rounded(g, 100 * n))
  BY DEF GroundingScore
<1>22. c = <<>> => len = 0
  OBVIOUS
<1> HIDE DEF g, k, S, len
<1>3. n \in Nat /\ n >= 1 /\ (len >= 1 => n = len) /\ (len = 0 => n = 1)
  BY <1>1 DEF Larger
<1>4. v \in Nat
  BY <1>1 DEF Smaller
<1> HIDE DEF n, v
<1>5. 5 * length * n \in Nat /\ 5 * length * n <= 500 * n /\ n * v \in Nat
  BY <1>3, <1>4, LengthIsAtMost, PenaltyIsANumber
<1>6. raw \in Int /\ raw <= 3425 * n + 3575 * k + 30 * S
  BY <1>1, <1>3, <1>5
<1> HIDE DEF raw
<1>7. g \in Int /\ g <= raw
  BY <1>1, <1>2, <1>3, <1>6 DEF Smaller
<1>8. Rounded(g, 100 * n) >= 82 /\ Rounded(g, 100 * n) = (2 * g + 100 * n) \div (200 * n)
  <2>1. Rounded(g, 100 * n) = (2 * g + 100 * n) \div (2 * (100 * n))
    BY DEF Rounded
  <2>2. 2 * (100 * n) = 200 * n
    BY <1>3
  <2>3. Rounded(g, 100 * n) \in Int
    BY <2>1, <2>2, <1>3, <1>7
  <2>4. Clamp(Rounded(g, 100 * n)) >= 82
    BY <1>21 DEF High
  <2> QED
    BY <2>1, <2>2, <2>3, <2>4 DEF Clamp, Smaller, Larger
<1>9. 2 * g + 100 * n >= 82 * (200 * n)
  <2>1. 2 * g + 100 * n \in Int /\ 200 * n \in Nat \ {0}
    BY <1>3, <1>7
  <2> QED
    BY <2>1, <1>8, QuotientIsAtLeast
<1>10. 3425 * n + 3575 * k + 30 * S >= 8150 * n
  BY <1>1, <1>3, <1>6, <1>7, <1>9
<1>11. len >= 1
  BY <1>1, <1>3, <1>10
<1>12. 100 * k >= 48 * len /\ S >= 38 * len /\ k # 0
  BY <1>1, <1>3, <1>10, <1>11
<1> QED
  BY <1>11, <1>12, <1>22, <1>1 DEF Supported, k, S, len

\* The score is one.
LEMMA ClampIsAScore ==
    ASSUME NEW x \in Int
    PROVE  Clamp(x) \in 0..100
  BY DEF Clamp, Smaller, Larger

LEMMA GroundingIsAScore ==
    ASSUME NEW c \in Seq(Claim), NEW length \in 0..100
    PROVE  GroundingScore(c, length) \in 0..100
<1> DEFINE k   == CitedClaims(c)
           S   == OverlapSum(c)
           len == Len(c)
           n   == Larger(1, len)
           v   == Smaller(2000, 500 * InvalidCites(c))
           raw == 55 * (35 * n + 65 * k) + 1000 * n + 30 * S + 5 * length * n - n * v
           g   == Grounding(c, length)
<1>1. len \in Nat /\ k \in Nat /\ S \in Nat /\ InvalidCites(c) \in Nat
  BY ClaimsAre
<1>2. g = IF len > 1 /\ k = 0 THEN Smaller(raw, 6500 * n) ELSE raw
  BY DEF Grounding
<1>21. GroundingScore(c, length) = Clamp(Rounded(g, 100 * n))
  BY DEF GroundingScore
<1> HIDE DEF g, k, S, len
<1>3. n \in Nat /\ n >= 1
  BY <1>1 DEF Larger
<1>4. v \in Nat
  BY <1>1 DEF Smaller
<1> HIDE DEF n, v
<1>5. 5 * length * n \in Nat /\ n * v \in Nat
  BY <1>3, <1>4, LengthIsAtMost, PenaltyIsANumber
<1>6. raw \in Int
  BY <1>1, <1>3, <1>5
<1> HIDE DEF raw
<1>7. g \in Int
  BY <1>1, <1>2, <1>3, <1>6 DEF Smaller
<1>8. Rounded(g, 100 * n) \in Int
  <2>1. Rounded(g, 100 * n) = (2 * g + 100 * n) \div (2 * (100 * n))
    BY DEF Rounded
  <2>2. 2 * (100 * n) \in Nat \ {0} /\ 2 * g + 100 * n \in Int
    BY <1>3, <1>7
  <2> QED
    BY <2>1, <2>2
<1> QED
  BY <1>8, <1>21, ClampIsAScore

LEMMA EvidenceIsAScore ==
    ASSUME NEW top \in 0..100, NEW contexts \in Nat, NEW sources \in Nat, NEW intent \in 0..100,
           NEW rewritten \in BOOLEAN
    PROVE  EvidenceScore(top, contexts, sources, intent, rewritten) \in 0..100
<1> DEFINE base == BaseEvidenceScore(top, contexts, sources, intent)
           risk == RiskAdjustment(contexts, intent, rewritten)
<1>1. base \in Int
  BY DEF BaseEvidenceScore, Smaller
<1>2. risk \in Int
  BY DEF RiskAdjustment
<1> HIDE DEF base, risk
<1>3. Rounded(base - risk, 100) \in Int
  BY <1>1, <1>2 DEF Rounded
<1> QED
  BY <1>3, ClampIsAScore DEF EvidenceScore, base, risk

-----------------------------------------------------------------------------
\* What is judged: high needs support, and verified and high need a citation.
Judged(a, v) ==
    /\ v \in Verdict
    /\ v.score >= High => Supported(Body(a))
    /\ ~HasCitation(a) => v.status # "verified" /\ v.score < High

InTheSearch == {"search", "select"}
WithAnswer  == {"enforce", "verify", "combine"}

\* How far an answer has come says what there is of it, and what has been made sure.
GradingInv ==
    /\ GradingTypeOK
    /\ step = "select" => hits \in [faq : Seq(Hit), doc : Seq(Hit)]
    /\ Len(docs) <= TopN
    /\ step = "generate" => FitsPrompt(docs) /\ docs # <<>>
    /\ step \in InTheSearch \cup {"generate"} => answer = None
    /\ step \in WithAnswer => answer \in Answer
    /\ step \in WithAnswer \cup {"generate"} => evidence \in 0..100
    /\ step \in InTheSearch \cup {"generate", "enforce", "verify"} => verdict = None
    /\ step = "combine" => Judged(answer, verdict)
    /\ verdict # None => answer \in Answer /\ Judged(answer, verdict)
    /\ step # "done" => grade = None
    /\ grade # None /\ answer # None => (grade >= High => Supported(Body(answer)))

LEMMA VerdictIsJudged ==
    ASSUME NEW a \in Answer, NEW length \in 0..100
    PROVE  Judged(a, VerdictOn(a, length))
<1> DEFINE s == GroundingScore(Body(a), length)
           v == VerdictOn(a, length)
<1>1. a.claims \in Seq(Claim) /\ a.references \in BOOLEAN /\ Body(a) = a.claims
  BY DEF Answer, Body
<1>2. s \in 0..100
  BY <1>1, GroundingIsAScore
<1>3. s >= High => Supported(a.claims)
  BY <1>1, HighIsSupported
<1>4. ~HasCitation(a) => CitedClaims(a.claims) = 0
  <2>1. ~HasCitation(a) => \A i \in DOMAIN a.claims : a.claims[i].cites = {}
    BY DEF HasCitation
  <2> QED
    BY <2>1, <1>1, ClaimsAre
<1>5. CASE IsEmpty(a)
  <2>1. v = [score |-> 0, status |-> "failed"]
    BY <1>5 DEF VerdictOn
  <2> HIDE DEF v
  <2>2. v \in Verdict /\ v.score = 0 /\ v.status = "failed"
    BY <2>1 DEF Verdict
  <2>3. ~ (0 >= High) /\ 0 < High
    BY DEF High
  <2> HIDE DEF s
  <2>4. Judged(a, v)
    BY <2>2, <2>3 DEF Judged
  <2> QED
    BY <2>4 DEF v
<1>6. CASE ~IsEmpty(a)
  <2>1. v = [score |-> s, status |-> Status(a.claims, s)]
    BY <1>6, <1>1 DEF VerdictOn
  <2>2. /\ Status(a.claims, s) \in {"verified", "partial", "failed"}
        /\ Status(a.claims, s) = "verified" => s >= High
    BY DEF Status
  <2>3. ~HasCitation(a) => ~ (s >= High)
    BY <1>3, <1>4 DEF Supported
  <2>4. s >= High \/ s < High
    BY <1>2 DEF High
  <2>5. s >= High => ~ (s < High)
    BY <1>2 DEF High
  <2> HIDE DEF v, s
  <2>6. v \in Verdict /\ v.score = s /\ v.status = Status(a.claims, s)
    BY <2>1, <2>2, <1>2 DEF Verdict
  <2>7. Judged(a, v)
    BY <2>2, <2>3, <2>4, <2>5, <2>6, <1>1, <1>3 DEF Judged
  <2> QED
    BY <2>7 DEF v
<1> QED
  BY <1>5, <1>6

LEMMA GradingInitHolds == GradingInit => GradingInv
<1> SUFFICES ASSUME GradingInit PROVE GradingInv
  OBVIOUS
<1>1. docs = <<>> /\ Len(docs) = 0 /\ docs \in Seq(Document)
  BY DEF GradingInit
<1> QED
  BY <1>1, GradingAssumption DEF GradingInit, GradingInv, GradingTypeOK, InTheSearch, WithAnswer

\* Everything taken is hits.
LEMMA HitSeqsAreHits ==
    ASSUME NEW n, NEW W, NEW which \in SUBSET W, NEW s \in HitSeqs(n, which), n \in Nat
    PROVE  s \in Seq(W)
<1>1. PICK k \in 0..n : s \in [1..k -> which]
  BY DEF HitSeqs
<1> QED
  BY <1>1


LEMMA SearchStep == GradingInv /\ Search => GradingInv'
<1> SUFFICES ASSUME GradingInv, Search PROVE GradingInv'
  OBVIOUS
<1>1. PICK f \in HitSeqs(MaxHits, {h \in Hit : ~h.table}), d \in HitSeqs(MaxHits, Hit) :
           hits' = [faq |-> f, doc |-> d]
  BY DEF Search
<1>2. f \in Seq(Hit)
  <2>1. {h \in Hit : ~h.table} \in SUBSET Hit
    OBVIOUS
  <2> QED
    BY <2>1, GradingAssumption, HitSeqsAreHits
<1>3. d \in Seq(Hit)
  <2>1. Hit \in SUBSET Hit
    OBVIOUS
  <2> QED
    BY <2>1, GradingAssumption, HitSeqsAreHits
<1>4. hits' \in [faq : Seq(Hit), doc : Seq(Hit)] /\ hits' # None
  BY <1>1, <1>2, <1>3, NoneIsNoHits
<1>5. /\ step = "search" /\ step' = "select"
      /\ UNCHANGED <<docs, evidence, answer, verdict, grade>>
  BY DEF Search
<1> QED
  BY <1>4, <1>5 DEF GradingInv, GradingTypeOK, InTheSearch, WithAnswer, FitsPrompt, Total, Judged, Supported

LEMMA SelectStep ==
    ASSUME GradingInv, NEW p \in BOOLEAN, NEW top \in TopScores, NEW i \in IntentScores,
           NEW r \in BOOLEAN, Select(p, top, i, r)
    PROVE  GradingInv'
<1> DEFINE ds == SelectContextDocs(hits.faq, hits.doc, p)
           n  == Smaller(2, Len(hits.faq)) + Smaller(5, Len(hits.doc))
           e  == EvidenceScore(top, Len(ds), n, i, r)
<1>1. /\ step = "select" /\ docs' = ds /\ evidence' = e
      /\ step' = IF ds = <<>> THEN "done" ELSE "generate"
      /\ grade' = IF ds = <<>> THEN evidence' ELSE grade
      /\ hits' = None /\ answer' = answer /\ verdict' = verdict
  BY DEF Select
<1>2. hits.faq \in Seq(Hit) /\ hits.doc \in Seq(Hit)
  BY <1>1 DEF GradingInv
<1>3. FitsPrompt(ds)
  BY <1>2, SelectedFits
<1>4. n \in Nat
  <2>1. Len(hits.faq) \in Nat /\ Len(hits.doc) \in Nat
    BY <1>2
  <2>2. \A x, y \in Nat : Smaller(2, x) + Smaller(5, y) \in Nat
    BY DEF Smaller
  <2> QED
    BY <2>1, <2>2
<1> HIDE DEF ds, n
<1>5. ds \in Seq(Document) /\ Len(ds) <= TopN /\ Len(ds) \in Nat
  BY <1>3 DEF FitsPrompt
<1>6. e \in 0..100
  <2>1. top \in 0..100 /\ i \in 0..100
    BY GradingAssumption
  <2> QED
    BY <2>1, <1>4, <1>5, EvidenceIsAScore
<1> HIDE DEF e
<1>7. FitsPrompt(docs)' /\ (docs # <<>>)' <=> FitsPrompt(ds) /\ ds # <<>>
  BY <1>1 DEF FitsPrompt, Total
<1>8. answer = None /\ verdict = None /\ grade = None
  BY <1>1 DEF GradingInv, InTheSearch
<1>9. CASE ds = <<>>
  BY <1>1, <1>3, <1>5, <1>6, <1>8, <1>9 DEF GradingInv, GradingTypeOK, InTheSearch, WithAnswer
<1>10. CASE ds # <<>>
  BY <1>1, <1>3, <1>5, <1>6, <1>7, <1>8, <1>10 DEF GradingInv, GradingTypeOK, InTheSearch, WithAnswer
<1> QED
  BY <1>9, <1>10

\* The kinds of documents are documents.
LEMMA KindsAreDocuments ==
    ASSUME NEW ds \in Seq(Document)
    PROVE  /\ [i \in DOMAIN ds |-> Kind(ds[i])] \in Seq(Document)
           /\ Len([i \in DOMAIN ds |-> Kind(ds[i])]) = Len(ds)
<1>1. \A d \in Document : Kind(d) \in Document
  BY DEF Kind, Document
<1>2. Len(ds) \in Nat /\ DOMAIN ds = 1..Len(ds) /\ \A i \in 1..Len(ds) : ds[i] \in Document
  OBVIOUS
<1> HIDE DEF Kind, Document
<1> QED
  BY <1>1, <1>2

LEMMA GenerateStep ==
    ASSUME GradingInv, NEW c \in HitSeqs(MaxClaims, Claim), NEW r \in BOOLEAN, Generate(c, r)
    PROVE  GradingInv'
<1>1. /\ step = "generate" /\ step' = "enforce" /\ answer' = [claims |-> c, references |-> r]
      /\ docs' = [i \in DOMAIN docs |-> Kind(docs[i])]
      /\ UNCHANGED <<hits, evidence, verdict, grade>>
  BY DEF Generate
<1>2. c \in Seq(Claim)
  <2>1. Claim \in SUBSET Claim
    OBVIOUS
  <2> QED
    BY <2>1, GradingAssumption, HitSeqsAreHits
<1>3. answer' \in Answer
  BY <1>1, <1>2 DEF Answer
<1>4. docs' \in Seq(Document) /\ Len(docs') = Len(docs)
  BY <1>1, KindsAreDocuments DEF GradingInv, GradingTypeOK
<1>5. answer = None /\ verdict = None /\ grade = None /\ evidence \in 0..100
  BY <1>1 DEF GradingInv
<1> QED
  BY <1>1, <1>3, <1>4, <1>5 DEF GradingInv, GradingTypeOK, InTheSearch, WithAnswer

\* What is appended to an answer are claims.
LEMMA EnforcedIsAnAnswer ==
    ASSUME NEW a \in Answer, NEW lacking \in SUBSET (1..TopN), NEW cells \in 1..2,
           NEW overlap \in Overlaps
    PROVE  WithReferences(WithTableRow(a, lacking, cells, overlap)) \in Answer
<1>0. a = [claims |-> a.claims, references |-> a.references] /\ a.claims \in Seq(Claim)
      /\ a.references \in BOOLEAN
  BY DEF Answer
<1>1. WithTableRow(a, lacking, cells, overlap) \in Answer
  <2>1. CASE lacking = {} \/ a.references
    BY <2>1 DEF WithTableRow
  <2>2. CASE ~ (lacking = {} \/ a.references)
    <3> DEFINE row  == CHOOSE i \in lacking : \A j \in lacking : i <= j
               more == [c \in 1..cells |-> [cites |-> IF c = cells THEN {row} ELSE {},
                                            overlap |-> overlap]]
    <3>1. row \in lacking
      <4>1. lacking \in SUBSET Nat /\ lacking # {}
        BY <2>2, GradingAssumption
      <4> QED
        BY <4>1, LeastNumber
    <3>3. WithTableRow(a, lacking, cells, overlap) = [a EXCEPT !.claims = @ \o more]
      BY <2>2 DEF WithTableRow
    <3> HIDE DEF row
    <3>2. row \in 1..(TopN + 1)
      <4>1. row \in 1..TopN
        BY <3>1
      <4> QED
        BY <4>1, GradingAssumption
    <3>4. more \in Seq(Claim)
      <4>0. {row} \in SUBSET (1..(TopN + 1)) /\ {} \in SUBSET (1..(TopN + 1))
        BY <3>2
      <4>1. \A c \in 1..cells : more[c] \in Claim
        BY <4>0 DEF Claim
      <4> HIDE DEF Claim
      <4> QED
        BY <4>1
    <3> HIDE DEF more
    <3>5. a.claims \o more \in Seq(Claim)
      BY <3>4, <1>0
    <3> QED
      BY <3>3, <3>5, <1>0 DEF Answer
  <2> QED
    BY <2>1, <2>2
<1> QED
  BY <1>1 DEF WithReferences, Answer, HasCitation

LEMMA EnforceStep ==
    ASSUME GradingInv, NEW l \in SUBSET (1..TopN), NEW k \in 1..2, NEW o \in Overlaps,
           Enforce(l, k, o)
    PROVE  GradingInv'
<1>1. /\ step = "enforce" /\ step' = "verify"
      /\ answer' = IF IsEmpty(answer) THEN answer
                   ELSE WithReferences(WithTableRow(answer, l, k, o))
      /\ UNCHANGED <<hits, docs, evidence, verdict, grade>>
  BY DEF Enforce
<1>2. answer \in Answer /\ verdict = None /\ grade = None /\ evidence \in 0..100
  BY <1>1 DEF GradingInv, WithAnswer
<1>3. answer' \in Answer
  BY <1>1, <1>2, EnforcedIsAnAnswer
<1> QED
  BY <1>1, <1>2, <1>3 DEF GradingInv, GradingTypeOK, InTheSearch, WithAnswer

LEMMA VerifyStep ==
    ASSUME GradingInv, NEW length \in LengthSignals, Verify(length)
    PROVE  GradingInv'
<1>1. /\ step = "verify" /\ step' = "combine" /\ verdict' = VerdictOn(answer, length)
      /\ UNCHANGED <<hits, docs, evidence, answer, grade>>
  BY DEF Verify
<1>2. answer \in Answer /\ grade = None /\ evidence \in 0..100
  BY <1>1 DEF GradingInv, WithAnswer
<1>3. Judged(answer, VerdictOn(answer, length))
  BY <1>2, GradingAssumption, VerdictIsJudged
<1>4. Judged(answer, verdict)'
  BY <1>1, <1>3 DEF Judged, Supported, CitedClaims, OverlapSum, HasCitation, Body
<1>5. verdict' \in Verdict
  BY <1>4 DEF Judged
<1> QED
  BY <1>1, <1>2, <1>4, <1>5 DEF GradingInv, GradingTypeOK, InTheSearch, WithAnswer

LEMMA CombineStep == GradingInv /\ Combine => GradingInv'
<1> SUFFICES ASSUME GradingInv, Combine PROVE GradingInv'
  OBVIOUS
<1>1. /\ step = "combine" /\ step' = "done" /\ grade' = Smaller(evidence, verdict.score)
      /\ UNCHANGED <<hits, docs, evidence, answer, verdict>>
  BY DEF Combine
<1>2. answer \in Answer /\ evidence \in 0..100 /\ Judged(answer, verdict)
  BY <1>1 DEF GradingInv, WithAnswer
<1>3. verdict.score \in 0..100 /\ verdict \in Verdict
  BY <1>2 DEF Judged, Verdict
<1>4. grade' \in 0..100 /\ (grade' >= High => verdict.score >= High)
  BY <1>1, <1>2, <1>3 DEF Smaller, High
<1>5. Judged(answer, verdict)' <=> Judged(answer, verdict)
  BY <1>1 DEF Judged, Supported, CitedClaims, OverlapSum, HasCitation, Body
<1>6. Supported(Body(answer))' <=> Supported(Body(answer))
  BY <1>1 DEF Supported, CitedClaims, OverlapSum, Body
<1>7. grade' >= High => Supported(Body(answer))
  BY <1>2, <1>4 DEF Judged
<1> QED
  BY <1>1, <1>2, <1>3, <1>4, <1>5, <1>6, <1>7
     DEF GradingInv, GradingTypeOK, InTheSearch, WithAnswer

LEMMA GradingNextKeeps == GradingInv /\ [GradingNext]_gradingVars => GradingInv'
<1> SUFFICES ASSUME GradingInv, [GradingNext]_gradingVars PROVE GradingInv'
  OBVIOUS
<1>1. CASE UNCHANGED gradingVars
  BY <1>1 DEF gradingVars, GradingInv, GradingTypeOK, InTheSearch, WithAnswer, FitsPrompt, Total,
              Judged, Supported, CitedClaims, OverlapSum, HasCitation, Body
<1>2. CASE GradingNext
  BY <1>2, SearchStep, SelectStep, GenerateStep, EnforceStep, VerifyStep, CombineStep
     DEF GradingNext
<1> QED
  BY <1>1, <1>2

\* The grade of an answer is earned, for any limits of the plan, any hits and any answer: its
\* context fits, high confidence needs claims that cite it, references earn nothing.
THEOREM GradesStayEarned == GradingSpec => []GradesAreEarned
<1>1. GradingInv => GradesAreEarned
  <2> SUFFICES ASSUME GradingInv PROVE GradesAreEarned
    OBVIOUS
  <2>1. GradingTypeOK
    BY DEF GradingInv
  <2>2. ContextFits
    <3> SUFFICES ASSUME step = "generate"
                 PROVE  /\ Len(docs) \in 1..TopN
                        /\ Total(docs) <= MaxChars
                        /\ \A i \in DOMAIN docs : docs[i].good /\ docs[i].size <= MaxDocChars
                        /\ \A i, j \in DOMAIN docs :
                              docs[i].key = docs[j].key /\ docs[i].faq = docs[j].faq => i = j
      BY DEF ContextFits
    <3>1. FitsPrompt(docs) /\ docs # <<>>
      BY DEF GradingInv
    <3>2. Len(docs) \in 1..TopN
      BY <3>1, GradingAssumption DEF FitsPrompt
    <3> QED
      BY <3>1, <3>2 DEF FitsPrompt
  <2>3. HighIsMostlySupported
    <3> SUFFICES ASSUME grade # None, answer # None, Level(grade) = "high"
                 PROVE  Supported(Body(answer))
      BY DEF HighIsMostlySupported, Supported
    <3>1. grade >= High
      BY DEF Level
    <3> QED
      BY <3>1 DEF GradingInv
  <2>4. ReferencesEarnNothing
    <3> SUFFICES ASSUME verdict # None, ~HasCitation(answer)
                 PROVE  verdict.status # "verified" /\ Level(verdict.score) # "high"
      BY DEF ReferencesEarnNothing
    <3>1. verdict.status # "verified" /\ verdict.score < High /\ verdict.score \in 0..100
      BY DEF GradingInv, Judged, Verdict
    <3>2. ~ (verdict.score >= High)
      BY <3>1 DEF High
    <3> QED
      BY <3>1, <3>2 DEF Level
  <2> QED
    BY <2>1, <2>2, <2>3, <2>4 DEF GradesAreEarned
<1> QED
  BY <1>1, GradingInitHolds, GradingNextKeeps, PTL DEF GradingSpec

-----------------------------------------------------------------------------
(* The regression loop. *)

Distinct(cases) == \A i, j \in DOMAIN cases : cases[i].id = cases[j].id => i = j

Won(points, I)  == {i \in I : points[i] = 100}
Lost(points, I) == {i \in I : points[i] = 0}

AllOrNothing(points, I) == \A i \in I : points[i] \in {0, 100}

\* Rows that have their points are counted one by one.
Counted(s, total, k) ==
    /\ IsFiniteSet(Won(s, 1..k)) /\ Cardinality(Won(s, 1..k)) \in Nat
    /\ total = 100 * Cardinality(Won(s, 1..k))

LEMMA OneMoreIsCounted ==
    ASSUME NEW s, NEW k \in Nat, k > 0, NEW before \in Nat, Counted(s, before, k - 1), s[k] \in {0, 100}
    PROVE  Counted(s, before + s[k], k)
<1>1. /\ IsFiniteSet(Won(s, 1..(k - 1))) /\ Cardinality(Won(s, 1..(k - 1))) \in Nat
      /\ before = 100 * Cardinality(Won(s, 1..(k - 1)))
  BY DEF Counted
<1>2. 1..k = 1..(k - 1) \cup {k} /\ k \notin 1..(k - 1)
  OBVIOUS
<1>3. CASE s[k] = 100
  <2>1. Won(s, 1..k) = Won(s, 1..(k - 1)) \cup {k} /\ k \notin Won(s, 1..(k - 1))
    BY <1>2, <1>3 DEF Won
  <2>2. /\ IsFiniteSet(Won(s, 1..(k - 1)) \cup {k})
        /\ Cardinality(Won(s, 1..(k - 1)) \cup {k}) = Cardinality(Won(s, 1..(k - 1))) + 1
    BY <1>1, <2>1, FS_AddElement
  <2>3. Cardinality(Won(s, 1..k)) = Cardinality(Won(s, 1..(k - 1))) + 1 /\ IsFiniteSet(Won(s, 1..k))
    BY <2>1, <2>2
  <2> QED
    BY <1>1, <1>3, <2>3 DEF Counted
<1>4. CASE s[k] = 0
  <2>1. Won(s, 1..k) = Won(s, 1..(k - 1))
    BY <1>2, <1>4 DEF Won
  <2>2. before + s[k] = before
    BY <1>4
  <2> QED
    BY <1>1, <2>1, <2>2 DEF Counted
<1> QED
  BY <1>3, <1>4

\* A sum of hundreds and nothings.
LEMMA SumOfHundreds ==
    ASSUME NEW s \in Seq(Nat), AllOrNothing(s, 1..Len(s))
    PROVE  Counted(s, SumOf(s), Len(s))
<1> DEFINE n == Len(s)
<1>1. n \in Nat /\ \A i \in 1..n : s[i] \in {0, 100}
  BY DEF AllOrNothing
<1>2. PICK f \in [0..n -> Nat] :
           /\ f[0] = 0 /\ \A i \in 1..n : f[i] = f[i - 1] + s[i]
           /\ SumOf(s) = f[n]
  BY SumIsStepwise
<1> HIDE DEF n
<1> DEFINE S == {k \in 0..n : Counted(s, f[k], k)}
<1>3. 0 \in S
  <2>1. Won(s, 1..0) = {}
    BY DEF Won
  <2>2. IsFiniteSet({}) /\ Cardinality({}) = 0
    BY FS_EmptySet
  <2>3. \A W : W = {} => /\ IsFiniteSet(W) /\ Cardinality(W) \in Nat
                         /\ 0 = 100 * Cardinality(W)
    BY <2>2
  <2>4. Counted(s, 0, 0)
    <3> DEFINE W == Won(s, 1..0)
    <3> HIDE DEF W
    <3>1. W = {}
      BY <2>1 DEF W
    <3>2. IsFiniteSet(W) /\ Cardinality(W) \in Nat /\ 0 = 100 * Cardinality(W)
      BY <3>1, <2>3
    <3> QED
      BY <3>2 DEF Counted, W
  <2>5. f[0] = 0
    BY <1>2
  <2> QED
    BY <1>1, <2>4, <2>5
<1>4. \A k \in 0..n : k > 0 /\ k - 1 \in S => k \in S
  <2> SUFFICES ASSUME NEW k \in 0..n, k > 0, k - 1 \in S PROVE k \in S
    OBVIOUS
  <2>1. k \in 1..n /\ k \in Nat /\ k - 1 \in 0..n
    BY <1>1
  <2>2. f[k] = f[k - 1] + s[k] /\ s[k] \in {0, 100} /\ f[k - 1] \in Nat
    BY <2>1, <1>1, <1>2
  <2>3. Counted(s, f[k - 1], k - 1)
    OBVIOUS
  <2>4. Counted(s, f[k - 1] + s[k], k)
    BY <2>1, <2>2, <2>3, OneMoreIsCounted
  <2> QED
    BY <2>1, <2>2, <2>4
<1> HIDE DEF S
<1>5. 0..n \subseteq S
  BY <1>1, <1>3, <1>4, UpTo
<1>6. n \in S
  BY <1>5, <1>1
<1> QED
  BY <1>2, <1>6 DEF S, n

\* Points over some rows: they count those that have them.
LEMMA SumOverCounts ==
    ASSUME NEW n \in Nat, NEW points \in [1..n -> Nat], NEW I \in SUBSET (1..n),
           AllOrNothing(points, I)
    PROVE  /\ SumOver(points, I) = 100 * Cardinality(Won(points, I))
           /\ IsFiniteSet(I) /\ Cardinality(I) \in Nat
           /\ Cardinality(Won(points, I)) \in Nat
<1> DEFINE s == [i \in 1..n |-> IF i \in I THEN points[i] ELSE 0]
<1>1. s \in Seq(Nat) /\ Len(s) = n
  <2>1. s \in [1..n -> Nat]
    OBVIOUS
  <2> HIDE DEF s
  <2> QED
    BY <2>1
<1>2. \A i \in 1..n : s[i] = IF i \in I THEN points[i] ELSE 0
  OBVIOUS
<1>3. SumOver(points, I) = SumOf(s)
  <2>1. DOMAIN points = 1..n
    OBVIOUS
  <2> QED
    BY <2>1 DEF SumOver
<1> HIDE DEF s
<1>4. AllOrNothing(s, 1..Len(s))
  BY <1>1, <1>2 DEF AllOrNothing
<1>5. Won(s, 1..n) = Won(points, I)
  <2>1. \A i \in 1..n : s[i] = 100 <=> i \in I /\ points[i] = 100
    <3> TAKE i \in 1..n
    <3>1. CASE i \in I
      BY <1>2, <3>1
    <3>2. CASE i \notin I
      BY <1>2, <3>2
    <3> QED
      BY <3>1, <3>2
  <2> QED
    BY <2>1 DEF Won
<1>6. IsFiniteSet(I) /\ Cardinality(I) \in Nat
  <2>1. IsFiniteSet(1..n)
    BY FS_Interval
  <2>2. IsFiniteSet(I)
    BY <2>1, FS_Subset
  <2> QED
    BY <2>2, FS_CardinalityType
<1>7. Counted(s, SumOf(s), n)
  BY <1>1, <1>4, SumOfHundreds
<1> QED
  BY <1>3, <1>5, <1>6, <1>7 DEF Counted

\* An average that meets four fifths loses at most one in five.
LEMMA MeetsLosesFew ==
    ASSUME NEW n \in Nat, NEW points \in [1..n -> Nat], NEW I \in SUBSET (1..n),
           AllOrNothing(points, I), Meets(I, points, 80, 100)
    PROVE  5 * Cardinality(Lost(points, I)) <= Cardinality(I)
<1> DEFINE won == Won(points, I)
           lost == Lost(points, I)
<1>1. SumOver(points, I) = 100 * Cardinality(won) /\ IsFiniteSet(I) /\ Cardinality(I) \in Nat
      /\ Cardinality(won) \in Nat
  BY SumOverCounts
<1>2. won \cup lost = I /\ won \cap lost = {} /\ won \subseteq I /\ lost \subseteq I
  <2>1. \A i \in I : (points[i] = 100 \/ points[i] = 0) /\ ~(points[i] = 100 /\ points[i] = 0)
    BY DEF AllOrNothing
  <2> QED
    BY <2>1 DEF Won, Lost
<1>3. I = {} => lost = {}
  BY <1>2
<1>4. Meets(I, points, 80, 100)
  OBVIOUS
<1> HIDE DEF lost, won
<1>5. IsFiniteSet(won) /\ IsFiniteSet(lost)
  BY <1>1, <1>2, FS_Subset
<1>6. Cardinality(lost) \in Nat
  BY <1>5, FS_CardinalityType
<1>7. Cardinality(I) = Cardinality(won) + Cardinality(lost)
  <2>1. Cardinality(won \cup lost) =
          Cardinality(won) + Cardinality(lost) - Cardinality(won \cap lost)
    BY <1>5, FS_Union
  <2>2. Cardinality({}) = 0
    BY FS_EmptySet
  <2>3. Cardinality(I) = Cardinality(won) + Cardinality(lost) - 0
    BY <2>1, <2>2, <1>2
  <2> QED
    BY <2>3, <1>1, <1>6
<1>8. CASE I = {}
  <2>1. lost = {} /\ Cardinality({}) = 0
    BY <1>3, <1>8, FS_EmptySet
  <2> QED
    BY <2>1, <1>1 DEF lost
<1>9. CASE I # {}
  <2>1. 100 * Cardinality(won) >= 80 * Cardinality(I)
    BY <1>1, <1>4, <1>9 DEF Meets
  <2>2. 5 * Cardinality(lost) <= Cardinality(I)
    BY <2>1, <1>1, <1>6, <1>7
  <2> QED
    BY <2>2 DEF lost
<1> QED
  BY <1>8, <1>9

AllHave(points, I) == \A i \in I : points[i] = 100

\* An average of rows that all have their points meets any minimum.
LEMMA MeetsWithAll ==
    ASSUME NEW n \in Nat, NEW points \in [1..n -> Nat], NEW I \in SUBSET (1..n),
           AllHave(points, I), NEW minimum \in 0..100
    PROVE  Meets(I, points, minimum, 100) /\ (I # {} => Meets(I, points, minimum, 0))
<1>1. AllOrNothing(points, I)
  BY DEF AllOrNothing, AllHave
<1>2. SumOver(points, I) = 100 * Cardinality(Won(points, I)) /\ Cardinality(I) \in Nat
  BY <1>1, SumOverCounts
<1>3. Won(points, I) = I
  BY DEF Won, AllHave
<1>4. \A c \in Nat : 100 * c >= minimum * c
  <2> TAKE c \in Nat
  <2>1. minimum \in Int /\ minimum <= 100
    OBVIOUS
  <2>2. (100 - minimum) * c >= 0 /\ (100 - minimum) * c = 100 * c - minimum * c
        /\ minimum * c \in Int
    BY <2>1
  <2> QED
    BY <2>2
<1>5. SumOver(points, I) >= minimum * Cardinality(I)
  BY <1>2, <1>3, <1>4
<1>6. 100 >= minimum
  OBVIOUS
<1>7. I = {} \/ I # {}
  OBVIOUS
<1>8. ASSUME NEW k, I # {} \/ k >= minimum PROVE Meets(I, points, minimum, k)
  BY <1>5, <1>8 DEF Meets
<1> QED
  BY <1>6, <1>8

-----------------------------------------------------------------------------
\* One case is merged.
LEMMA MergeCaseKeeps ==
    ASSUME NEW cases \in Seq(Case), Distinct(cases), NEW c \in Case, NEW conflict
    PROVE  LET m == MergeCase(cases, c, conflict)
           IN  /\ m \in Seq(Case) /\ Distinct(m) /\ Ids(cases) \subseteq Ids(m)
               /\ Len(cases) <= Len(m) /\ Ids(m) \subseteq Ids(cases) \cup {c.id}
               /\ \A i \in 1..Len(cases) :
                     conflict = "skip" \/ cases[i].id # c.id => m[i] = cases[i]
<1> DEFINE m == MergeCase(cases, c, conflict)
           n == Len(cases)
<1>1. n \in Nat /\ DOMAIN cases = 1..n /\ \A i \in 1..n : cases[i] \in Case
  OBVIOUS
<1>2. CASE c.id \notin Ids(cases)
  <2>1. m = Append(cases, c)
    BY <1>2 DEF MergeCase
  <2>2. /\ m \in Seq(Case) /\ Len(m) = n + 1 /\ DOMAIN m = 1..(n + 1)
        /\ m[n + 1] = c /\ \A i \in 1..n : m[i] = cases[i]
    BY <2>1
  <2> HIDE DEF m, n
  <2>3. \A i \in 1..n : cases[i].id # c.id
    BY <1>1, <1>2 DEF Ids
  <2>4. Distinct(m)
    <3> SUFFICES ASSUME NEW i \in 1..(n + 1), NEW j \in 1..(n + 1), m[i].id = m[j].id PROVE i = j
      BY <2>2 DEF Distinct
    <3>1. (i = n + 1 \/ i \in 1..n) /\ (j = n + 1 \/ j \in 1..n)
      BY <1>1
    <3>2. CASE i \in 1..n /\ j \in 1..n
      BY <3>2, <2>2, <1>1 DEF Distinct
    <3>3. CASE i \in 1..n /\ j = n + 1
      BY <3>3, <2>2, <2>3
    <3>4. CASE i = n + 1 /\ j \in 1..n
      BY <3>4, <2>2, <2>3
    <3> QED
      BY <3>1, <3>2, <3>3, <3>4
  <2>5. \A x : x \in Ids(m) <=> x \in Ids(cases) \/ x = c.id
    <3>1. \A x : x \in Ids(m) <=> \E i \in 1..(n + 1) : m[i].id = x
      BY <2>2 DEF Ids
    <3>2. \A x : x \in Ids(cases) <=> \E i \in 1..n : cases[i].id = x
      BY <1>1 DEF Ids
    <3>3. \A i \in 1..(n + 1) : i \in 1..n \/ i = n + 1
      BY <1>1
    <3>4. \A i \in 1..n : i \in 1..(n + 1)
      BY <1>1
    <3>5. n + 1 \in 1..(n + 1)
      BY <1>1
    <3>6. ASSUME NEW x PROVE x \in Ids(m) <=> x \in Ids(cases) \/ x = c.id
      <4>1. ASSUME x \in Ids(m) PROVE x \in Ids(cases) \/ x = c.id
        <5>1. PICK i \in 1..(n + 1) : m[i].id = x
          BY <3>1, <4>1
        <5> QED
          BY <5>1, <3>2, <3>3, <2>2
      <4>2. ASSUME x \in Ids(cases) PROVE x \in Ids(m)
        <5>1. PICK i \in 1..n : cases[i].id = x
          BY <3>2, <4>2
        <5> QED
          BY <5>1, <3>1, <3>4, <2>2
      <4>3. c.id \in Ids(m)
        BY <3>1, <3>5, <2>2
      <4> QED
        BY <4>1, <4>2, <4>3
    <3> QED
      BY <3>6
  <2>6. n <= n + 1
    BY <1>1
  <2> QED
    BY <2>2, <2>4, <2>5, <2>6 DEF m, n
<1>3. CASE c.id \in Ids(cases) /\ conflict = "skip"
  <2>1. m = cases
    BY <1>3 DEF MergeCase
  <2> QED
    BY <2>1, <1>1
<1>4. CASE c.id \in Ids(cases) /\ conflict # "skip"
  <2>1. m = [i \in 1..n |-> IF cases[i].id = c.id THEN c ELSE cases[i]]
    BY <1>1, <1>4 DEF MergeCase
  <2> HIDE DEF m, n
  <2>2. m \in Seq(Case) /\ Len(m) = n /\ DOMAIN m = 1..n
    BY <1>1, <2>1
  <2>3. \A i \in 1..n : m[i].id = cases[i].id /\ (cases[i].id # c.id => m[i] = cases[i])
    BY <2>1
  <2>4. Distinct(m)
    BY <1>1, <2>2, <2>3 DEF Distinct
  <2>5. Ids(m) = Ids(cases)
    BY <1>1, <2>2, <2>3 DEF Ids
  <2> QED
    BY <1>1, <1>4, <2>2, <2>3, <2>4, <2>5 DEF m, n
<1> QED
  BY <1>2, <1>3, <1>4

\* What merging keeps: the set of cases stays one without repetition, and drops none.
Merged(base, m) ==
    /\ m \in Seq(Case) /\ Distinct(m)
    /\ Ids(base) \subseteq Ids(m) /\ Len(base) <= Len(m)

\* Without replacement, what was there stays as it is.
Untouched(base, m) == \A i \in 1..Len(base) : m[i] = base[i]

LEMMA MergeCaseMerges ==
    ASSUME NEW base \in Seq(Case), NEW cases, Merged(base, cases), NEW c \in Case, NEW conflict
    PROVE  /\ Merged(base, MergeCase(cases, c, conflict))
           /\ (/\ Untouched(base, cases)
               /\ conflict = "skip" \/ c.id \notin Ids(base))
              => Untouched(base, MergeCase(cases, c, conflict))
<1> DEFINE m == MergeCase(cases, c, conflict)
<1>1. /\ m \in Seq(Case) /\ Distinct(m) /\ Ids(cases) \subseteq Ids(m) /\ Len(cases) <= Len(m)
      /\ \A i \in 1..Len(cases) : conflict = "skip" \/ cases[i].id # c.id => m[i] = cases[i]
  BY MergeCaseKeeps DEF Merged
<1> HIDE DEF m
<1>2. /\ cases \in Seq(Case) /\ Ids(base) \subseteq Ids(cases) /\ Len(base) <= Len(cases)
      /\ Len(base) \in Nat /\ Len(cases) \in Nat /\ Len(m) \in Nat
  BY <1>1 DEF Merged
<1>3. Merged(base, m)
  <2>1. Len(base) <= Len(m)
    BY <1>1, <1>2
  <2>2. Ids(base) \subseteq Ids(m)
    BY <1>1, <1>2
  <2> QED
    BY <1>1, <2>1, <2>2 DEF Merged
<1>4. ASSUME Untouched(base, cases), conflict = "skip" \/ c.id \notin Ids(base)
      PROVE  Untouched(base, m)
  <2>1. SUFFICES ASSUME NEW i \in 1..Len(base) PROVE m[i] = base[i]
    BY DEF Untouched
  <2>2. i \in 1..Len(cases) /\ cases[i] = base[i]
    BY <1>2, <1>4 DEF Untouched
  <2>3. base[i].id \in Ids(base)
    <3>1. DOMAIN base = 1..Len(base)
      OBVIOUS
    <3> QED
      BY <3>1 DEF Ids
  <2>4. conflict = "skip" \/ cases[i].id # c.id
    BY <1>4, <2>2, <2>3
  <2> QED
    BY <1>1, <2>2, <2>4
<1> QED
  BY <1>3, <1>4 DEF m

\* Any number of cases is merged.
LEMMA MergeCasesMerge ==
    ASSUME NEW base \in Seq(Case), Distinct(base), NEW incoming \in Seq(Case), NEW conflict
    PROVE  /\ Merged(base, MergeCases(base, incoming, conflict))
           /\ conflict = "skip" \/ Ids(incoming) \cap Ids(base) = {}
              => Untouched(base, MergeCases(base, incoming, conflict))
<1> DEFINE n    == Len(incoming)
           kept == conflict = "skip" \/ Ids(incoming) \cap Ids(base) = {}
           B == {m \in Seq(Case) : Merged(base, m) /\ (kept => Untouched(base, m))}
           F == [q \in (1..n) \X B |-> MergeCase(q[2], incoming[q[1]], conflict)]
           Rec(g, i) == IF i = 0 THEN base ELSE MergeCase(g[i - 1], incoming[i], conflict)
           merge == CHOOSE g : g = [i \in 0..n |-> Rec(g, i)]
<1>1. n \in Nat /\ \A i \in 1..n : incoming[i] \in Case /\ incoming[i].id \in Ids(incoming)
  <2>1. n \in Nat /\ DOMAIN incoming = 1..n /\ \A i \in 1..n : incoming[i] \in Case
    OBVIOUS
  <2> HIDE DEF n
  <2> QED
    BY <2>1 DEF Ids
<1>2. MergeCases(base, incoming, conflict) = merge[n]
  BY DEF MergeCases
<1> HIDE DEF n
<1>3. base \in B
  <2>1. Len(base) \in Nat
    OBVIOUS
  <2> QED
    BY <2>1 DEF Merged, Untouched
<1>4. ASSUME NEW m \in B, NEW i \in 1..n PROVE MergeCase(m, incoming[i], conflict) \in B
  <2>1. Merged(base, m) /\ incoming[i] \in Case
    BY <1>1
  <2>2. kept => conflict = "skip" \/ incoming[i].id \notin Ids(base)
    BY <1>1
  <2>3. kept => Untouched(base, m)
    OBVIOUS
  <2> HIDE DEF kept
  <2>4. /\ Merged(base, MergeCase(m, incoming[i], conflict))
        /\ kept => Untouched(base, MergeCase(m, incoming[i], conflict))
    BY <2>1, <2>2, <2>3, MergeCaseMerges
  <2>5. MergeCase(m, incoming[i], conflict) \in Seq(Case)
    BY <2>4 DEF Merged
  <2> QED
    BY <2>4, <2>5
<1> HIDE DEF B
<1>6. F \in [(1..n) \X B -> B]
  BY <1>4
<1> HIDE DEF F
<1>7. PICK g : Follows(g, n, B, base, F)
  BY <1>1, <1>3, <1>6, StepsExist
<1>8. g \in [0..n -> B] /\ g[0] = base /\ \A i \in 1..n : g[i] = F[<<i, g[i - 1]>>]
  BY <1>7 DEF Follows
<1>9. \A i \in 1..n : g[i] = MergeCase(g[i - 1], incoming[i], conflict)
  <2> TAKE i \in 1..n
  <2>1. g[i] = F[<<i, g[i - 1]>>] /\ g[i - 1] \in B
    BY <1>8, <1>1
  <2> QED
    BY <2>1 DEF F
<1>10. g = [i \in 0..n |-> Rec(g, i)]
  <2>1. \A i \in 0..n : g[i] = Rec(g, i)
    <3> TAKE i \in 0..n
    <3>1. CASE i = 0
      BY <3>1, <1>8
    <3>2. CASE i # 0
      <4>1. i \in 1..n
        BY <3>2, <1>1
      <4> QED
        BY <4>1, <3>2, <1>9
    <3> QED
      BY <3>1, <3>2
  <2> HIDE DEF Rec
  <2> QED
    BY <2>1, <1>8
<1>11. merge = [i \in 0..n |-> Rec(merge, i)]
  <2> HIDE DEF Rec
  <2> QED
    BY <1>10
<1> HIDE DEF merge
<1>12. \A i \in 0..n : merge[i] = Rec(merge, i)
  <2> HIDE DEF Rec
  <2> QED
    BY <1>11
<1>13. merge[0] = base
  BY <1>12, <1>1
<1>14. \A i \in 1..n : merge[i] = MergeCase(merge[i - 1], incoming[i], conflict)
  <2> TAKE i \in 1..n
  <2>1. i \in 0..n /\ i # 0
    BY <1>1
  <2>2. merge[i] = Rec(merge, i)
    BY <2>1, <1>12
  <2> QED
    BY <2>1, <2>2
<1> DEFINE T == {i \in 0..n : merge[i] \in B}
<1>15. 0 \in T
  BY <1>13, <1>1, <1>3
<1>16. \A i \in 0..n : i > 0 /\ i - 1 \in T => i \in T
  <2> TAKE i \in 0..n
  <2>1. i > 0 => i \in 1..n /\ merge[i] = MergeCase(merge[i - 1], incoming[i], conflict)
    BY <1>14, <1>1
  <2> QED
    BY <2>1, <1>4
<1> HIDE DEF T
<1>17. 0..n \subseteq T
  BY <1>15, <1>16, <1>1, UpTo
<1>18. n \in T
  BY <1>17, <1>1
<1> QED
  BY <1>2, <1>18 DEF T, B

-----------------------------------------------------------------------------
\* The set is one of cases without repetition, the report one of rows of the cases that run;
\* once judged, a report is complete, and the verdict is that of its rows.
LoopInv ==
    /\ dataset \in Seq(Case) /\ Distinct(dataset)
    /\ running \in Seq(Case) /\ Len(running) <= Limit
    /\ rows \in Seq(CaseRow) /\ Len(rows) <= Len(running)
    /\ \A i \in 1..Len(rows) : rows[i].case = running[i]
    /\ gated \in {None, "passed", "failed"}
    /\ feedback \in SUBSET Rated /\ IsFiniteSet(feedback)
    /\ drafts \in [Files -> Seq(Case)]
    /\ rounds \in 0..MaxRounds
    /\ gated # None => Len(rows) = Len(running) /\ (gated = "passed" <=> ReportPasses)

LEMMA RegressionInitHolds == RegressionInit => LoopInv
<1> SUFFICES ASSUME RegressionInit PROVE LoopInv
  OBVIOUS
<1>1. dataset \in Seq(Case) /\ Distinct(dataset)
  BY RegressionAssumption DEF RegressionInit, Distinct
<1>2. /\ running \in Seq(Case) /\ Len(running) = 0 /\ rows \in Seq(CaseRow) /\ Len(rows) = 0
      /\ gated = None /\ feedback = {} /\ drafts = [f \in Files |-> <<>>] /\ rounds = 0
  BY DEF RegressionInit
<1>3. drafts \in [Files -> Seq(Case)]
  BY <1>2
<1>4. IsFiniteSet({})
  BY FS_EmptySet
<1>5. 0 <= Limit /\ 0 \in 0..MaxRounds
  BY RegressionAssumption
<1> QED
  BY <1>1, <1>2, <1>3, <1>4, <1>5 DEF LoopInv

\* The verdict is of the rows alone.
LEMMA VerdictIsOfRows == rows' = rows => (ReportPasses' <=> ReportPasses)
<1> SUFFICES ASSUME rows' = rows PROVE ReportPasses' <=> ReportPasses
  OBVIOUS
<1>1. /\ Recall' = Recall /\ Rank' = Rank /\ Coverage' = Coverage /\ HitMatch' = HitMatch
      /\ Inferred' = Inferred
  BY DEF Recall, Rank, Coverage, HitMatch, Inferred
<1>2. (GroupsPass)' <=> GroupsPass
  BY <1>1 DEF GroupsPass, ScenarioPasses, SourcePasses, HitTypePasses, Errors, WithSource
<1> QED
  BY <1>1, <1>2 DEF ReportPasses, Errors, WithSource, WithHit, WithFaq, WithOrigin

\* What is neither running nor judged may change.
LEMMA ReportIsKept ==
    ASSUME LoopInv, UNCHANGED <<running, rows, gated>>,
           (dataset \in Seq(Case) /\ Distinct(dataset))', (feedback \in SUBSET Rated)',
           IsFiniteSet(feedback)', (drafts \in [Files -> Seq(Case)])', (rounds \in 0..MaxRounds)'
    PROVE  LoopInv'
<1>1. ReportPasses' <=> ReportPasses
  BY VerdictIsOfRows
<1> QED
  BY <1>1 DEF LoopInv

LEMMA EvaluateStep == LoopInv /\ Evaluate => LoopInv'
<1> SUFFICES ASSUME LoopInv, Evaluate PROVE LoopInv'
  OBVIOUS
<1> DEFINE m == Smaller(Limit, Len(dataset))
<1>1. Len(dataset) \in Nat /\ m \in 0..Len(dataset) /\ m <= Limit
  BY RegressionAssumption DEF LoopInv, Smaller
<1>2. dataset \in Seq(Case) /\ running' = SubSeq(dataset, 1, m)
  BY DEF LoopInv, Evaluate
<1> HIDE DEF m
<1>3. running' \in Seq(Case) /\ Len(running') = m
  BY <1>1, <1>2
<1>4. rows' \in Seq(CaseRow) /\ Len(rows') = 0 /\ gated' = None
  BY DEF Evaluate
<1>5. rounds' \in 0..MaxRounds
  BY RegressionAssumption DEF LoopInv, Evaluate
<1>6. UNCHANGED <<dataset, feedback, drafts>>
  BY DEF Evaluate
<1> QED
  BY <1>1, <1>3, <1>4, <1>5, <1>6 DEF LoopInv, Distinct

LEMMA RunCaseStep == ASSUME LoopInv, NEW o \in Observations, RunCase(o) PROVE LoopInv'
<1> DEFINE n == Len(rows)
           r == [case |-> running[n + 1], seen |-> [o EXCEPT !.right = o.right /\ ~o.error]]
<1>1. n \in Nat /\ Len(running) \in Nat /\ n < Len(running) /\ rows' = Append(rows, r)
      /\ rows \in Seq(CaseRow) /\ gated = None
  BY DEF LoopInv, RunCase
<1>2. r \in CaseRow
  <2>1. running[n + 1] \in Case
    BY <1>1 DEF LoopInv
  <2>2. o \in Observation
    BY RegressionAssumption
  <2>3. [o EXCEPT !.right = o.right /\ ~o.error] \in Observation
    <3>1. (o.right /\ ~o.error) \in BOOLEAN
      BY <2>2 DEF Observation
    <3> DEFINE b == o.right /\ ~o.error
    <3> HIDE DEF b
    <3>2. [o EXCEPT !.right = b] \in Observation
      BY <2>2, <3>1 DEF Observation, b
    <3> QED
      BY <3>2 DEF b
  <2> QED
    BY <2>1, <2>3 DEF CaseRow
<1>3. r.case = running[n + 1]
  OBVIOUS
<1> HIDE DEF r
<1>4. /\ rows' \in Seq(CaseRow) /\ Len(rows') = n + 1 /\ rows'[n + 1] = r
      /\ \A i \in 1..n : rows'[i] = rows[i]
  BY <1>1, <1>2
<1>5. Len(rows') <= Len(running)
  BY <1>1, <1>4
<1>6. \A i \in 1..Len(rows') : rows'[i].case = running[i]
  <2> TAKE i \in 1..Len(rows')
  <2>1. i = n + 1 \/ i \in 1..n
    BY <1>1, <1>4
  <2> QED
    BY <2>1, <1>3, <1>4 DEF LoopInv
<1>7. UNCHANGED <<dataset, running, gated, feedback, drafts, rounds>>
  BY DEF RunCase
<1> QED
  BY <1>1, <1>4, <1>5, <1>6, <1>7 DEF LoopInv, Distinct

LEMMA CheckGateStep == LoopInv /\ CheckGate => LoopInv'
<1> SUFFICES ASSUME LoopInv, CheckGate PROVE LoopInv'
  OBVIOUS
<1>1. /\ UNCHANGED <<dataset, running, rows, feedback, drafts, rounds>>
      /\ Len(rows) = Len(running)
      /\ gated' = IF ReportPasses THEN "passed" ELSE "failed"
  BY DEF CheckGate, Complete
<1>2. ReportPasses' <=> ReportPasses
  BY <1>1, VerdictIsOfRows
<1>3. gated' \in {None, "passed", "failed"}
  BY <1>1
<1>4. gated' = "passed" <=> ReportPasses'
  BY <1>1, <1>2
<1> QED
  BY <1>1, <1>3, <1>4 DEF LoopInv, Distinct

-----------------------------------------------------------------------------
\* Bad cases are cases.
LEMMA BadCaseIsCase == ASSUME LoopInv, NEW r \in CaseRow PROVE BadCase(r) \in Case
<1> DEFINE same == {c \in Case : c.id = r.case.id}
           now  == Keeping(dataset, same)
           old  == IF now # <<>> THEN now[1] ELSE [r.case EXCEPT !.source = FALSE]
           Or(a, b) == IF a # None THEN a ELSE b
<1>1. r.case \in Case
  BY DEF CaseRow
<1>2. now \in Seq(Case \cap same)
  BY KeepingKeeps DEF LoopInv
<1>3. BadCase(r) = [r.case EXCEPT !.source = old.source,
                                  !.keywords = old.keywords \/ r.case.keywords,
                                  !.hit = Or(old.hit, r.case.hit),
                                  !.origin = Or(old.origin, r.case.origin)]
  BY <1>1 DEF BadCase, Case
<1> HIDE DEF now, same
<1>4. old \in Case
  <2>1. [r.case EXCEPT !.source = FALSE] \in Case
    BY <1>1 DEF Case
  <2>2. now # <<>> => now[1] \in Case
    BY <1>2
  <2> QED
    BY <2>1, <2>2
<1> HIDE DEF old
<1>5. \A c \in Case : /\ c.source \in BOOLEAN /\ c.keywords \in BOOLEAN /\ c.hit \in Hits
                      /\ c.origin \in Origins \cup {None}
  BY DEF Case
<1>6. /\ old.source \in BOOLEAN /\ (old.keywords \/ r.case.keywords) \in BOOLEAN
      /\ Or(old.hit, r.case.hit) \in Hits /\ Or(old.origin, r.case.origin) \in Origins \cup {None}
  BY <1>1, <1>4, <1>5
<1> DEFINE s == old.source
           k == old.keywords \/ r.case.keywords
           h == Or(old.hit, r.case.hit)
           o == Or(old.origin, r.case.origin)
<1>8. /\ s \in BOOLEAN /\ k \in BOOLEAN /\ h \in Hits /\ o \in Origins \cup {None}
      /\ BadCase(r) = [r.case EXCEPT !.source = s, !.keywords = k, !.hit = h, !.origin = o]
  BY <1>3, <1>6
<1> HIDE DEF s, k, h, o
<1>9. [r.case EXCEPT !.source = s, !.keywords = k, !.hit = h, !.origin = o] \in Case
  BY <1>1, <1>8 DEF Case
<1> QED
  BY <1>8, <1>9

LEMMA ExtractStep == LoopInv /\ ExtractBadCases => LoopInv'
<1> SUFFICES ASSUME LoopInv, ExtractBadCases PROVE LoopInv'
  OBVIOUS
<1> DEFINE bad == Keeping(rows, {r \in CaseRow : FailsExpectation(r)})
           new == [i \in DOMAIN bad |-> BadCase(bad[i])]
<1>1. bad \in Seq(CaseRow \cap {r \in CaseRow : FailsExpectation(r)})
  BY KeepingKeeps DEF LoopInv
<1>2. /\ drafts' = [drafts EXCEPT !["report"] = new]
      /\ UNCHANGED <<dataset, running, rows, gated, feedback, rounds>>
  BY DEF ExtractBadCases
<1> HIDE DEF bad
<1>3. DOMAIN bad = 1..Len(bad) /\ Len(bad) \in Nat /\ \A i \in 1..Len(bad) : bad[i] \in CaseRow
  BY <1>1
<1>4. new \in Seq(Case)
  <2>1. \A i \in 1..Len(bad) : BadCase(bad[i]) \in Case
    BY <1>3, BadCaseIsCase
  <2>2. new \in [1..Len(bad) -> Case]
    BY <2>1, <1>3
  <2> HIDE DEF new
  <2> QED
    BY <2>2, <1>3
<1> HIDE DEF new
<1>5. drafts' \in [Files -> Seq(Case)]
  BY <1>2, <1>4 DEF LoopInv
<1> QED
  BY <1>2, <1>5, ReportIsKept DEF LoopInv, Distinct

LEMMA RateStep == ASSUME LoopInv, NEW f \in Rated, Rate(f) PROVE LoopInv'
<1>1. feedback' = feedback \cup {f} /\ UNCHANGED <<dataset, running, rows, gated, drafts, rounds>>
  BY DEF Rate
<1>2. IsFiniteSet(feedback')
  BY <1>1, FS_AddElement DEF LoopInv
<1> QED
  BY <1>1, <1>2, ReportIsKept DEF LoopInv, Distinct

LEMMA ExportStep == LoopInv /\ Export => LoopInv'
<1> SUFFICES ASSUME LoopInv, Export PROVE LoopInv'
  OBVIOUS
<1> DEFINE ids == SetToSeq(feedback)
           n   == Cardinality(feedback)
           new == [i \in DOMAIN ids |-> Draft(ids[i])]
<1>1. /\ drafts' = [drafts EXCEPT !["feedback"] = new]
      /\ UNCHANGED <<dataset, running, rows, gated, feedback, rounds>>
  BY DEF Export
<1>2. feedback \in SUBSET Rated /\ IsFiniteSet(feedback)
  BY DEF LoopInv
<1>3. n \in Nat /\ \E g \in [1..n -> feedback] : IsInjective(g)
  BY <1>2, FS_CardinalityType DEF ExistsBijection, Bijection, Injection
<1>4. ids \in [1..n -> feedback]
  BY <1>3 DEF SetToSeq
<1> HIDE DEF ids, n
<1>5. \A f \in Rated : Draft(f) \in Case
  BY RegressionAssumption DEF Draft, Case, Hits
<1>6. new \in [1..n -> Case]
  BY <1>2, <1>4, <1>5
<1> HIDE DEF new
<1>7. new \in Seq(Case)
  BY <1>3, <1>6
<1>8. drafts' \in [Files -> Seq(Case)]
  BY <1>1, <1>7 DEF LoopInv
<1> QED
  BY <1>1, <1>2, <1>8, ReportIsKept DEF LoopInv, Distinct

LEMMA ReviewStep ==
    ASSUME LoopInv, NEW f \in Files, NEW i \in DOMAIN drafts[f], Review(f, i)
    PROVE  LoopInv'
<1> DEFINE c   == [drafts[f][i] EXCEPT !.source = TRUE, !.keywords = TRUE]
           new == [drafts[f] EXCEPT ![i] = c]
<1>1. drafts \in [Files -> Seq(Case)] /\ drafts[f] \in Seq(Case)
  BY DEF LoopInv
<1>2. drafts' = [drafts EXCEPT ![f] = new]
      /\ UNCHANGED <<dataset, running, rows, gated, feedback, rounds>>
  BY <1>1 DEF Review
<1>3. drafts[f][i] \in Case
  BY <1>1
<1>4. c \in Case
  BY <1>3 DEF Case
<1> HIDE DEF c
<1>5. new \in Seq(Case)
  BY <1>1, <1>4
<1> HIDE DEF new
<1>6. drafts' \in [Files -> Seq(Case)]
  BY <1>1, <1>2, <1>5
<1> QED
  BY <1>2, <1>6, ReportIsKept DEF LoopInv, Distinct

LEMMA PromoteStep ==
    ASSUME LoopInv, NEW f \in Files, NEW p, Promote(f, p)
    PROVE  /\ LoopInv'
           /\ Merged(dataset, dataset')
           /\ p \in {"skip", "error"} => Untouched(dataset, dataset')
<1>1. /\ dataset' = MergeCases(dataset, drafts[f], p)
      /\ p = "error" => Ids(drafts[f]) \cap Ids(dataset) = {}
      /\ UNCHANGED <<running, rows, gated, feedback, drafts, rounds>>
  BY DEF Promote
<1>2. dataset \in Seq(Case) /\ Distinct(dataset) /\ drafts[f] \in Seq(Case)
  BY DEF LoopInv
<1>3. /\ Merged(dataset, dataset')
      /\ p = "skip" \/ Ids(drafts[f]) \cap Ids(dataset) = {} => Untouched(dataset, dataset')
  BY <1>1, <1>2, MergeCasesMerge
<1>4. p \in {"skip", "error"} => Untouched(dataset, dataset')
  BY <1>1, <1>3
<1>5. dataset' \in Seq(Case) /\ Distinct(dataset')
  BY <1>3 DEF Merged
<1>6. LoopInv'
  BY <1>1, <1>5, ReportIsKept DEF LoopInv, Distinct
<1> QED
  BY <1>3, <1>4, <1>6

LEMMA RegressionNextKeeps == LoopInv /\ [RegressionNext]_regressionVars => LoopInv'
<1> SUFFICES ASSUME LoopInv, [RegressionNext]_regressionVars PROVE LoopInv'
  OBVIOUS
<1>1. CASE UNCHANGED regressionVars
  BY <1>1, ReportIsKept DEF regressionVars, LoopInv, Distinct
<1>2. CASE RegressionNext
  BY <1>2, EvaluateStep, RunCaseStep, CheckGateStep, ExtractStep, ExportStep, RateStep, ReviewStep,
     PromoteStep DEF RegressionNext
<1> QED
  BY <1>1, <1>2

-----------------------------------------------------------------------------
\* What a report is: points for every row.
LEMMA PointsArePoints ==
    ASSUME rows \in Seq(CaseRow)
    PROVE  /\ Len(rows) \in Nat /\ DOMAIN rows = 1..Len(rows)
           /\ \A i \in 1..Len(rows) :
                /\ rows[i].case \in Case /\ rows[i].seen \in Observation
                /\ rows[i].seen.rank \in 0..2
           /\ Recall \in [1..Len(rows) -> Nat] /\ Rank \in [1..Len(rows) -> Nat]
           /\ Coverage \in [1..Len(rows) -> Nat] /\ HitMatch \in [1..Len(rows) -> Nat]
           /\ Inferred \in [1..Len(rows) -> Nat]
<1>1. Len(rows) \in Nat /\ DOMAIN rows = 1..Len(rows) /\ \A i \in 1..Len(rows) : rows[i] \in CaseRow
  OBVIOUS
<1>2. \A r \in CaseRow : r.case \in Case /\ r.seen \in Observation /\ r.seen.rank \in 0..2
  BY DEF CaseRow, Observation
<1>3. \A i \in 1..Len(rows) : /\ rows[i].case \in Case /\ rows[i].seen \in Observation
                              /\ rows[i].seen.rank \in 0..2
  BY <1>1, <1>2
<1>4. \A k \in 0..2 : k > 0 => 100 \div k \in Nat
  <2>1. 100 \div 1 = 100 /\ 100 \div 2 = 50
    OBVIOUS
  <2>2. \A k \in 0..2 : k > 0 => k = 1 \/ k = 2
    OBVIOUS
  <2> QED
    BY <2>1, <2>2
<1>5. Rank \in [1..Len(rows) -> Nat]
  <2> DEFINE R(k) == IF k > 0 THEN 100 \div k ELSE 0
  <2>1. \A k \in 0..2 : R(k) \in Nat
    BY <1>4
  <2>2. Rank = [i \in 1..Len(rows) |-> R(rows[i].seen.rank)]
    BY <1>1 DEF Rank
  <2> HIDE DEF R
  <2> QED
    BY <1>3, <2>1, <2>2
<1> QED
  BY <1>1, <1>3, <1>5 DEF Recall, Coverage, HitMatch, Inferred

\* A group that passes has lost at most one expected source in five.
LEMMA GroupLosesFew ==
    ASSUME rows \in Seq(CaseRow), NEW I \in SUBSET (1..Len(rows)), I = {} \/ ScenarioPasses(I)
    PROVE  5 * Cardinality({i \in WithSource(I) : rows[i].seen.rank = 0})
             <= Cardinality(WithSource(I))
<1> DEFINE A == WithSource(I)
<1>1. A \in SUBSET (1..Len(rows)) /\ A \subseteq I
  BY DEF WithSource
<1>2. \A i \in 1..Len(rows) : Recall[i] = IF rows[i].seen.rank > 0 THEN 100 ELSE 0
  BY PointsArePoints DEF Recall
<1>3. \A i \in A : rows[i].seen.rank \in 0..2
  BY <1>1, PointsArePoints
<1>4. AllOrNothing(Recall, A)
  BY <1>1, <1>2 DEF AllOrNothing
<1>5. {i \in A : rows[i].seen.rank = 0} = Lost(Recall, A)
  <2>1. \A i \in A : rows[i].seen.rank = 0 <=> Recall[i] = 0
    <3> TAKE i \in A
    <3>1. Recall[i] = (IF rows[i].seen.rank > 0 THEN 100 ELSE 0) /\ rows[i].seen.rank \in 0..2
      BY <1>1, <1>2, <1>3
    <3> QED
      BY <3>1
  <2> HIDE DEF A
  <2> QED
    BY <2>1 DEF Lost
<1>6. I # {} => Meets(A, Recall, 80, 100)
  BY DEF ScenarioPasses
<1>7. I = {} => Meets(A, Recall, 80, 100)
  BY <1>1 DEF Meets
<1>8. Meets(A, Recall, 80, 100)
  BY <1>6, <1>7
<1> HIDE DEF A
<1>9. 5 * Cardinality(Lost(Recall, A)) <= Cardinality(A)
  BY <1>1, <1>4, <1>8, PointsArePoints, MeetsLosesFew
<1> QED
  BY <1>5, <1>9 DEF A

LEMMA NoneMasked == LoopInv => NoGroupIsMasked
<1> SUFFICES ASSUME LoopInv, gated = "passed" PROVE
        /\ \A i \in DOMAIN rows : ~rows[i].seen.error
        /\ \A asked \in {{i \in DOMAIN rows : rows[i].case.scenario = s /\ rows[i].case.source} :
                            s \in Scenarios}
                  \cup {{i \in DOMAIN rows : rows[i].case.origin = o /\ rows[i].case.source} :
                            o \in Origins} :
             5 * Cardinality({i \in asked : rows[i].seen.rank = 0}) <= Cardinality(asked)
  BY DEF NoGroupIsMasked
<1>1. rows \in Seq(CaseRow) /\ ReportPasses /\ DOMAIN rows = 1..Len(rows)
  BY NoneIsNoHit DEF LoopInv
<1>2. Errors(DOMAIN rows) = {} /\ GroupsPass
  BY <1>1 DEF ReportPasses
<1>3. \A i \in DOMAIN rows : ~rows[i].seen.error
  BY <1>2 DEF Errors
<1>4. ASSUME NEW s \in Scenarios,
             NEW asked, asked = {i \in DOMAIN rows : rows[i].case.scenario = s /\ rows[i].case.source}
      PROVE  5 * Cardinality({i \in asked : rows[i].seen.rank = 0}) <= Cardinality(asked)
  <2> DEFINE I == {i \in DOMAIN rows : rows[i].case.scenario = s}
  <2>1. I \in SUBSET (1..Len(rows)) /\ (I = {} \/ ScenarioPasses(I))
    BY <1>1, <1>2 DEF GroupsPass
  <2>2. asked = WithSource(I)
    BY <1>4 DEF WithSource
  <2> HIDE DEF I
  <2> QED
    BY <1>1, <2>1, <2>2, GroupLosesFew
<1>5. ASSUME NEW o \in Origins,
             NEW asked, asked = {i \in DOMAIN rows : rows[i].case.origin = o /\ rows[i].case.source}
      PROVE  5 * Cardinality({i \in asked : rows[i].seen.rank = 0}) <= Cardinality(asked)
  <2> DEFINE I == {i \in DOMAIN rows : rows[i].case.origin = o}
  <2>1. I \in SUBSET (1..Len(rows)) /\ (I = {} \/ ScenarioPasses(I))
    BY <1>1, <1>2 DEF GroupsPass, SourcePasses
  <2>2. asked = WithSource(I)
    BY <1>5 DEF WithSource
  <2> HIDE DEF I
  <2> QED
    BY <1>1, <2>1, <2>2, GroupLosesFew
<1> QED
  BY <1>3, <1>4, <1>5

-----------------------------------------------------------------------------
\* A row with nothing against it.
Clean(i) ==
    /\ ~FailsExpectation(rows[i]) /\ rows[i].case.keywords
    /\ rows[i].case.source => rows[i].seen.rank = 1

\* It has its points wherever it is asked for them.
LEMMA CleanHasPoints ==
    ASSUME rows \in Seq(CaseRow), NEW i \in 1..Len(rows), Clean(i)
    PROVE  /\ ~rows[i].seen.error
           /\ rows[i].case.source => Recall[i] = 100 /\ Rank[i] = 100
           /\ Coverage[i] = 100
           /\ rows[i].case.hit # None => HitMatch[i] = 100
           /\ rows[i].case.origin # None => Inferred[i] = 100
<1>1. DOMAIN rows = 1..Len(rows)
  OBVIOUS
<1>2. 100 \div 1 = 100 /\ 1 > 0
  OBVIOUS
<1>3. rows[i].case.source => Rank[i] = 100 /\ Recall[i] = 100
  <2> SUFFICES ASSUME rows[i].case.source PROVE Rank[i] = 100 /\ Recall[i] = 100
    OBVIOUS
  <2>1. rows[i].seen.rank = 1
    BY DEF Clean
  <2>2. Rank[i] = (IF rows[i].seen.rank > 0 THEN 100 \div rows[i].seen.rank ELSE 0)
    BY <1>1 DEF Rank
  <2>3. Recall[i] = (IF rows[i].seen.rank > 0 THEN 100 ELSE 0)
    BY <1>1 DEF Recall
  <2> QED
    BY <1>2, <2>1, <2>2, <2>3
<1>4. /\ ~rows[i].seen.error /\ rows[i].seen.covered /\ rows[i].case.keywords
      /\ rows[i].case.hit # None => rows[i].seen.right
      /\ rows[i].case.origin # None => rows[i].seen.inferred
  BY DEF Clean, FailsExpectation
<1> QED
  BY <1>1, <1>3, <1>4 DEF Coverage, HitMatch, Inferred

\* So a group of such rows passes.
LEMMA CleanGroupPasses ==
    ASSUME rows \in Seq(CaseRow), \A i \in 1..Len(rows) : Clean(i), NEW I \in SUBSET (1..Len(rows))
    PROVE  I # {} => ScenarioPasses(I)
<1> SUFFICES ASSUME I # {} PROVE ScenarioPasses(I)
  OBVIOUS
<1>1. Errors(I) = {}
  BY CleanHasPoints DEF Errors
<1> DEFINE A == WithSource(I)
<1>2. A \in SUBSET (1..Len(rows)) /\ AllHave(Recall, A) /\ AllHave(Rank, A)
  BY CleanHasPoints DEF WithSource, AllHave
<1>3. AllHave(Coverage, I)
  BY CleanHasPoints DEF AllHave
<1>31. 60 \in 0..100 /\ 70 \in 0..100 /\ 80 \in 0..100
  OBVIOUS
<1> HIDE DEF A
<1>4. /\ Len(rows) \in Nat /\ Recall \in [1..Len(rows) -> Nat] /\ Rank \in [1..Len(rows) -> Nat]
      /\ Coverage \in [1..Len(rows) -> Nat]
  BY PointsArePoints
<1>5. Meets(A, Recall, 80, 100)
  BY <1>2, <1>4, <1>31, MeetsWithAll
<1>6. Meets(A, Rank, 60, 100)
  BY <1>2, <1>4, <1>31, MeetsWithAll
<1>7. Meets(I, Coverage, 70, 100)
  BY <1>3, <1>4, <1>31, MeetsWithAll
<1> QED
  BY <1>1, <1>5, <1>6, <1>7 DEF ScenarioPasses, A

LEMMA CleanPasses ==
    ASSUME rows \in Seq(CaseRow), \A i \in 1..Len(rows) : Clean(i),
           WithSource(DOMAIN rows) # {}, WithFaq(DOMAIN rows) # {}
    PROVE  ReportPasses
<1> DEFINE n == Len(rows)
           I == 1..n
<1>1. /\ DOMAIN rows = I /\ n \in Nat /\ Recall \in [1..n -> Nat] /\ Rank \in [1..n -> Nat]
      /\ Coverage \in [1..n -> Nat] /\ HitMatch \in [1..n -> Nat] /\ Inferred \in [1..n -> Nat]
  BY PointsArePoints
<1>2. \A i \in I : /\ rows[i].case.source => Recall[i] = 100 /\ Rank[i] = 100
                   /\ Coverage[i] = 100 /\ ~rows[i].seen.error
                   /\ rows[i].case.hit # None => HitMatch[i] = 100
                   /\ rows[i].case.origin # None => Inferred[i] = 100
  BY CleanHasPoints
<1>3. WithSource(I) # {} /\ WithFaq(I) # {}
  BY <1>1
<1>4. "faq_direct" # None
  BY NoneIsNoHit
<1>5. GroupsPass
  <2>1. \A J \in SUBSET I : J = {} \/ ScenarioPasses(J)
    BY CleanGroupPasses
  <2>2. ASSUME NEW h \in Hits \ {None} PROVE HitTypePasses({i \in DOMAIN rows : rows[i].case.hit = h})
    <3> DEFINE J == {i \in DOMAIN rows : rows[i].case.hit = h}
    <3>1. J \in SUBSET (1..n) /\ AllHave(HitMatch, J) /\ 70 \in 0..100
      BY <1>1, <1>2 DEF AllHave
    <3> HIDE DEF J, n
    <3>2. Meets(J, HitMatch, 70, 100)
      BY <1>1, <3>1, MeetsWithAll
    <3> QED
      BY <3>2 DEF HitTypePasses, J
  <2>3. \A s \in Scenarios : {i \in DOMAIN rows : rows[i].case.scenario = s} \in SUBSET I
    BY <1>1
  <2>4. \A o \in Origins : {i \in DOMAIN rows : rows[i].case.origin = o} \in SUBSET I
    BY <1>1
  <2> HIDE DEF I
  <2>5. \A s \in Scenarios : LET J == {i \in DOMAIN rows : rows[i].case.scenario = s}
                             IN  J = {} \/ ScenarioPasses(J)
    BY <2>1, <2>3
  <2>6. \A o \in Origins : SourcePasses({i \in DOMAIN rows : rows[i].case.origin = o})
    BY <2>1, <2>4 DEF SourcePasses
  <2> QED
    BY <2>2, <2>5, <2>6 DEF GroupsPass
<1>6. Errors(I) = {}
  BY <1>2 DEF Errors
<1>7. /\ WithSource(I) \in SUBSET (1..n) /\ WithHit(I) \in SUBSET (1..n) /\ WithFaq(I) \in SUBSET (1..n)
      /\ WithOrigin(I) \in SUBSET (1..n) /\ I \in SUBSET (1..n) /\ I # {} /\ WithHit(I) # {}
      /\ AllHave(Recall, WithSource(I)) /\ AllHave(Rank, WithSource(I))
      /\ AllHave(HitMatch, WithHit(I)) /\ AllHave(HitMatch, WithFaq(I))
      /\ AllHave(Inferred, WithOrigin(I)) /\ AllHave(Coverage, I)
      /\ 60 \in 0..100 /\ 70 \in 0..100 /\ 80 \in 0..100
  <2>1. WithSource(I) \subseteq I /\ \A i \in WithSource(I) : rows[i].case.source
    BY DEF WithSource
  <2>2. WithHit(I) \subseteq I /\ \A i \in WithHit(I) : rows[i].case.hit # None
    BY DEF WithHit
  <2>3. WithFaq(I) \subseteq WithHit(I)
    BY <1>4 DEF WithFaq, WithHit
  <2>4. WithOrigin(I) \subseteq I /\ \A i \in WithOrigin(I) : rows[i].case.origin # None
    BY DEF WithOrigin
  <2>5. I # {}
    BY <1>3, <2>1
  <2>6. AllHave(Recall, WithSource(I)) /\ AllHave(Rank, WithSource(I))
    BY <1>2, <2>1 DEF AllHave
  <2>7. AllHave(HitMatch, WithHit(I)) /\ AllHave(HitMatch, WithFaq(I))
    BY <1>2, <2>2, <2>3 DEF AllHave
  <2>8. AllHave(Inferred, WithOrigin(I)) /\ AllHave(Coverage, I)
    BY <1>2, <2>4 DEF AllHave
  <2>9. WithHit(I) # {} /\ WithFaq(I) \subseteq I
    BY <1>3, <2>2, <2>3
  <2> QED
    BY <2>1, <2>2, <2>4, <2>5, <2>6, <2>7, <2>8, <2>9
<1> HIDE DEF I, n
<1>8. Meets(WithSource(I), Recall, 80, 0) /\ Meets(WithSource(I), Rank, 60, 0)
  BY <1>1, <1>3, <1>7, MeetsWithAll
<1>9. Meets(I, Coverage, 70, 0)
  BY <1>1, <1>7, MeetsWithAll
<1>10. Meets(WithHit(I), HitMatch, 70, 0) /\ Meets(WithFaq(I), HitMatch, 70, 0)
  BY <1>1, <1>3, <1>7, MeetsWithAll
<1>11. Meets(WithOrigin(I), Inferred, 70, 100)
  BY <1>1, <1>7, MeetsWithAll
<1> QED
  BY <1>1, <1>5, <1>6, <1>8, <1>9, <1>10, <1>11 DEF ReportPasses

LEMMA CleanRuns == LoopInv => CleanRunPasses
<1> SUFFICES ASSUME LoopInv, gated # None,
                    \A i \in DOMAIN rows : /\ ~FailsExpectation(rows[i])
                                           /\ rows[i].case.keywords
                                           /\ rows[i].case.source => rows[i].seen.rank = 1,
                    WithSource(DOMAIN rows) # {}, WithFaq(DOMAIN rows) # {}
             PROVE  gated = "passed"
  BY DEF CleanRunPasses
<1>1. rows \in Seq(CaseRow) /\ (gated = "passed" <=> ReportPasses)
  BY DEF LoopInv
<1>2. \A i \in 1..Len(rows) : Clean(i)
  <2>1. DOMAIN rows = 1..Len(rows)
    BY <1>1
  <2> QED
    BY <2>1 DEF Clean
<1> QED
  BY <1>1, <1>2, CleanPasses

LEMMA LoopIsTyped == LoopInv => RegressionTypeOK
<1> SUFFICES ASSUME LoopInv PROVE RegressionTypeOK
  OBVIOUS
<1>1. /\ dataset \in Seq(Case) /\ rows \in Seq(CaseRow) /\ drafts \in [Files -> Seq(Case)]
      /\ Distinct(dataset)
  BY DEF LoopInv
<1>2. \A i \in DOMAIN dataset : dataset[i] \in Case
  BY <1>1
<1>3. \A f \in Files : \A i \in DOMAIN drafts[f] : drafts[f][i] \in Case
  <2> TAKE f \in Files
  <2>1. drafts[f] \in Seq(Case)
    BY <1>1
  <2> QED
    BY <2>1
<1>4. \A i \in DOMAIN rows : rows[i].case = running[i] /\ rows[i].seen \in Observation
  BY <1>1, PointsArePoints DEF LoopInv
<1> QED
  BY <1>1, <1>2, <1>3, <1>4 DEF LoopInv, RegressionTypeOK, Distinct

-----------------------------------------------------------------------------
\* Every other step leaves the set alone.
LEMMA CasesAreKeptInEveryStep ==
    LoopInv /\ [RegressionNext]_regressionVars => [CasesAreKept]_regressionVars
<1> SUFFICES ASSUME LoopInv, RegressionNext PROVE CasesAreKept
  OBVIOUS
<1>1. Ids(dataset) \subseteq Ids(dataset')
  <2>1. ASSUME NEW f \in Files, NEW p \in Policies, Promote(f, p)
        PROVE  Ids(dataset) \subseteq Ids(dataset')
    BY <2>1, PromoteStep DEF Merged
  <2>2. ASSUME dataset' = dataset PROVE Ids(dataset) \subseteq Ids(dataset')
    BY <2>2
  <2> QED
    BY <2>1, <2>2 DEF RegressionNext, Evaluate, RunCase, CheckGate, ExtractBadCases, Export, Rate, Review
<1>2. ASSUME NEW f \in Files, NEW p \in Policies \ {"replace"}, Promote(f, p), NEW i \in DOMAIN dataset
      PROVE  i \in DOMAIN dataset' /\ dataset'[i] = dataset[i]
  <2>1. p \in {"skip", "error"}
    BY RegressionAssumption
  <2>2. Merged(dataset, dataset') /\ Untouched(dataset, dataset')
    BY <1>2, <2>1, PromoteStep
  <2>3. /\ dataset \in Seq(Case) /\ dataset' \in Seq(Case) /\ Len(dataset) <= Len(dataset')
    BY <2>2 DEF LoopInv, Merged
  <2>4. i \in 1..Len(dataset) /\ i \in DOMAIN dataset'
    BY <2>3
  <2> QED
    BY <2>2, <2>4 DEF Untouched
<1>3. ASSUME NEW f \in Files, NEW p \in Policies \ {"replace"}, Promote(f, p), NEW i \in DOMAIN dataset
      PROVE  \E j \in DOMAIN dataset' :
                /\ dataset'[j].id = dataset[i].id
                /\ dataset[i].source => dataset'[j].source
                /\ dataset[i].keywords => dataset'[j].keywords
                /\ \A e \in {"hit", "origin"} : dataset[i][e] # None => dataset'[j][e] # None
  BY <1>2, <1>3
<1> QED
  BY <1>1, <1>3 DEF CasesAreKept

\* What was once bad stays under test: no failing scenario or source is masked by an average
\* of others, the gate passes what the extraction finds nothing wrong with, no step drops a
\* case, and a promotion that does not replace weakens none.
THEOREM RegressionStaysCaught == RegressionSpec => RegressionIsCaught
<1>1. RegressionSpec => []LoopInv
  BY RegressionInitHolds, RegressionNextKeeps, PTL DEF RegressionSpec
<1>2. LoopInv => RegressionTypeOK /\ NoGroupIsMasked /\ CleanRunPasses
  BY LoopIsTyped, NoneMasked, CleanRuns
<1> QED
  BY <1>1, <1>2, CasesAreKeptInEveryStep, PTL
     DEF RegressionSpec, RegressionIsCaught, PromotionNeverWeakens
=============================================================================
