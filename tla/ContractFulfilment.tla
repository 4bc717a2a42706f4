------------------------- MODULE ContractFulfilment -------------------------
(***************************************************************************)
(* The life of a published analysis: users report events, move obligations *)
(* and decide about risks, and after every event or obligation change the  *)
(* service recalculates everything that follows (ContractService in        *)
(* contracts/service.py, recalculate_obligations and resolve_obligation,   *)
(* the rules of contracts/risk.py, and the transactions of ContractStore). *)
(*                                                                         *)
(* recalculate_contract_obligations reads the obligations, then the        *)
(* events, computes in memory and writes everything back in transactions   *)
(* of their own, without a lock: each read and each transaction is one     *)
(* action here, and requests interleave between them.                      *)
(*                                                                         *)
(* The obligations are those of one succeeded analysis, each due Offset    *)
(* days after the event its time rule is based on.  Dates are day numbers. *)
(***************************************************************************)
EXTENDS Integers

CONSTANTS
    Requests,     \* request threads
    Obligations,  \* the obligations of the analysis that depend on an event
    SharedKey,    \* those whose upcoming and overdue risks have one fingerprint key
    MaxEvents,    \* bound on contract_events
    MaxDay,       \* bound on the calendar
    Offset,       \* offset of the time rules, in days
    UpcomingDays, \* contract_upcoming_days
    Extracted,    \* Obligations -> day of the base event in the contract text, or NoDay
    Requested,    \* the obligation statuses users ask for
    Decisions,    \* the risk statuses users ask for
    Faults        \* may requests die ("crash")?

NoDay   == -1
NoEvent == 0

Days     == 0 .. MaxDay
EventIds == 1 .. MaxEvents

ObligationStatus == {"pending", "waiting_trigger", "in_progress", "overdue",
                     "completed", "waived", "cancelled"}
Closed           == {"completed", "waived", "cancelled"}
RiskStatus       == {"open", "acknowledged", "resolved", "ignored"}
Decided          == {"resolved", "ignored"}
RiskKinds        == {"none", "upcoming", "overdue"}
EventTypes       == {"base", "other"}  \* the type the rules ask for, any other

ASSUME BoundsAssumption ==
    MaxEvents \in Nat /\ MaxDay \in Nat /\ Offset \in Nat /\ UpcomingDays \in Nat
ASSUME InstanceAssumption ==
    /\ SharedKey \subseteq Obligations
    /\ Extracted \in [Obligations -> Days \union {NoDay}]
    /\ Requested \subseteq ObligationStatus
    /\ Decisions \subseteq RiskStatus
    /\ Faults \subseteq {"crash"}

VARIABLES
    today,       \* date.today()
    events,      \* contract_events: EventIds -> [type, day], type "absent" if unused
    obligations, \* contract_obligations: [status, event, due, level]
    risks,       \* the rule risk of each obligation: [kind, status, fresh]
    overall,     \* contracts.overall_risk_level
    pc,          \* where each request is
    task,        \* what it was asked to do
    plan,        \* the obligations it has read, then resolved
    day,         \* date.today() when it resolved them
    kept,        \* previous_statuses in replace_rule_risks
    listed,      \* the levels it got from list_risks
    seen,        \* does the risk row the request looked at still exist?
    alone        \* history: has nobody else written since the request read?

tables == <<events, obligations, risks, overall>>
locals == <<pc, task, plan, day, kept, listed, seen, alone>>
vars   == <<today, tables, locals>>

-----------------------------------------------------------------------------
\* RiskLevel by RISK_LEVEL_SCORE; the rules only produce "high" and "critical":
\* normalize_risk_level of the overdue rule (3 or 4, 4, 4) and of the upcoming
\* rule (2, 3, 3 or 4).
Level(kind) == CASE kind = "overdue" -> 4 [] kind = "upcoming" -> 3 [] OTHER -> 1
Levels == {1, 3, 4}

\* Mutant: an empty list has no level.
HighestOrNothing(levels) ==
    IF \E o \in Obligations : levels[o] = 4 THEN 4
    ELSE IF \E o \in Obligations : levels[o] = 3 THEN 3 ELSE 0
\* overall_risk_level: the highest, "low" if there is none.
Highest(levels) ==
    IF \E o \in Obligations : levels[o] = 4 THEN 4
    ELSE IF \E o \in Obligations : levels[o] = 3 THEN 3 ELSE 1

OfType(es, t) == {e \in EventIds : es[e].type = t}

\* latest_by_type: sorted by event date, then by creation.
Latest(es) ==
    LET candidates == OfType(es, "base")
    IN  IF candidates = {} THEN NoEvent
        ELSE CHOOSE e \in candidates : \A f \in candidates :
               es[e].day > es[f].day \/ (es[e].day = es[f].day /\ e >= f)

\* requested_event_id: the event recorded by an earlier recalculation, looked
\* up by its id alone, or the latest of the right type.
Selected(o, event, es) == IF event # NoEvent THEN event ELSE Latest(es)

\* resolve_due_date: base date plus offset.
DueAfter(base) == IF base = NoDay THEN NoDay ELSE base + Offset
DueDate(o, selected, es) ==
    DueAfter(IF selected = NoEvent THEN Extracted[o] ELSE es[selected].day)

\* resolve_obligation.
\* Mutant: only "in_progress" is protected.
OnlyInProgress == {"in_progress"}
Protected == Closed \union {"in_progress"}
ResolvedStatus(status, due, now) ==
    CASE status \in Protected              -> status
      [] status \notin Protected /\ due = NoDay -> "waiting_trigger"
      [] OTHER -> IF due < now THEN "overdue" ELSE "pending"

\* overdue_obligation_rule and upcoming_deadline_rule.
RiskKind(status, due, now) ==
    IF status \in Closed \/ due = NoDay THEN "none"
    ELSE IF status = "overdue" \/ due < now THEN "overdue"
    ELSE IF due - now <= UpcomingDays THEN "upcoming"
    ELSE "none"

\* recalculate_obligations and evaluate_deterministic_risks for one row.
Resolve(o, row, es, now) ==
    LET selected == Selected(o, row.event, es)
        due      == DueDate(o, selected, es)
        status   == ResolvedStatus(row.status, due, now)
    IN  [status |-> status, event |-> selected, due |-> due, level |-> row.level,
         risk |-> RiskKind(status, due, now)]

\* The part of a resolved obligation that update_obligations_batch writes.
Row(p) == [status |-> p.status, event |-> p.event, due |-> p.due, level |-> p.level]

\* _normalized_risk_key: upcoming and overdue risks of payments and deposits
\* have keys of their own, those of other obligations share "time".
SameKey(o, k, l) == k = l \/ (o \in SharedKey /\ k # "none" /\ l # "none")

\* OBLIGATION_STATUS_TRANSITIONS.
ObligationMoves(s) ==
    {s} \union
    CASE s = "pending"         -> {"in_progress"} \union Closed
      [] s = "waiting_trigger" -> {"pending", "in_progress"} \union Closed
      [] s = "in_progress"     -> {"pending"} \union Closed
      [] s = "overdue"         -> {"in_progress"} \union Closed
      [] OTHER                 -> {}

\* RISK_STATUS_TRANSITIONS.
RiskMoves(s) ==
    CASE s = "open"         -> RiskStatus
      [] s = "acknowledged" -> RiskStatus
      [] OTHER              -> {s}

NewEvents     == [kind : {"add"}, type : EventTypes, day : Days]
EventChanges  == [kind : {"change"}, event : EventIds, type : EventTypes, day : Days]
StatusChanges == [kind : {"status"}, of : Obligations, to : Requested]
RiskDecisions == [kind : {"risk"}, of : Obligations, to : Decisions]
NoTask        == [kind |-> "none"]
Tasks == NewEvents \union EventChanges \union StatusChanges \union RiskDecisions
           \union {NoTask}

NoPlan  == [o \in Obligations |-> [status |-> "pending", event |-> NoEvent,
                                   due |-> NoDay, level |-> 1, risk |-> "none"]]
NoKept  == [o \in Obligations |-> [kind |-> "none", status |-> "open"]]
NoLevel == [o \in Obligations |-> 1]

-----------------------------------------------------------------------------
\* As save_analysis_result leaves it: resolved with the dates of the text, the
\* risks of apply_obligation_risk_levels, fingerprints of the analysis.
Init ==
    /\ today  = 0
    /\ events = [e \in EventIds |-> [type |-> "absent", day |-> 0]]
    /\ LET due(o)  == DueAfter(Extracted[o])
           st(o)   == ResolvedStatus("pending", due(o), 0)
           kind(o) == RiskKind(st(o), due(o), 0)
       IN  /\ obligations = [o \in Obligations |->
                [status |-> st(o), event |-> NoEvent, due |-> due(o),
                 level |-> Level(kind(o))]]
           /\ risks = [o \in Obligations |->
                [kind |-> kind(o), status |-> "open", fresh |-> TRUE]]
           /\ overall = Highest([o \in Obligations |-> Level(kind(o))])
    /\ pc     = [q \in Requests |-> "idle"]
    /\ task   = [q \in Requests |-> NoTask]
    /\ plan   = [q \in Requests |-> NoPlan]
    /\ day    = [q \in Requests |-> 0]
    /\ kept   = [q \in Requests |-> NoKept]
    /\ listed = [q \in Requests |-> NoLevel]
    /\ seen   = [q \in Requests |-> FALSE]
    /\ alone  = [q \in Requests |-> FALSE]

Tick ==
    /\ today < MaxDay
    /\ today' = today + 1
    /\ UNCHANGED <<tables, locals>>

Goto(q, from, to) ==
    /\ pc[q] = from
    /\ pc' = [pc EXCEPT ![q] = to]

\* The request is over: its locals are gone.
Leave(q) ==
    /\ pc'     = [pc EXCEPT ![q] = "idle"]
    /\ task'   = [task EXCEPT ![q] = NoTask]
    /\ plan'   = [plan EXCEPT ![q] = NoPlan]
    /\ day'    = [day EXCEPT ![q] = 0]
    /\ kept'   = [kept EXCEPT ![q] = NoKept]
    /\ listed' = [listed EXCEPT ![q] = NoLevel]

\* The write of the request is done; the recalculation needs nothing of it.
WriteDone(q) ==
    /\ Goto(q, "write", "read")
    /\ task' = [task EXCEPT ![q] = NoTask]

\* Nobody else is alone any more once q has written.
Wrote(q) == alone' = [p \in Requests |-> p = q /\ alone[q]]

-----------------------------------------------------------------------------
\* A request is checked against get_detail.  Passing the checks says nothing
\* about the state its write will find.
BeginEvent(q) ==
    /\ Goto(q, "idle", "write")
    /\ \E t \in NewEvents \union {c \in EventChanges : events[c.event].type # "absent"} :
         task' = [task EXCEPT ![q] = t]
    /\ UNCHANGED <<today, tables, plan, day, kept, listed, seen, alone>>

\* transition_obligation_status accepts the change.
BeginStatus(q) ==
    /\ Goto(q, "idle", "write")
    /\ \E t \in {c \in StatusChanges : c.to \in ObligationMoves(obligations[c.of].status)} :
         task' = [task EXCEPT ![q] = t]
    /\ UNCHANGED <<today, tables, plan, day, kept, listed, seen, alone>>

\* transition_risk_status accepts the change.
BeginDecision(q) ==
    /\ Goto(q, "idle", "write")
    /\ \E t \in {d \in RiskDecisions : /\ risks[d.of].kind # "none"
                                       /\ d.to \in RiskMoves(risks[d.of].status)} :
         task' = [task EXCEPT ![q] = t]
    /\ seen' = [seen EXCEPT ![q] = TRUE]
    /\ UNCHANGED <<today, tables, plan, day, kept, listed, alone>>

\* add_event, under the contract's row lock: an equal event is not repeated,
\* unless it is of the type "custom", one of the others.
AddEvent(q) ==
    /\ task[q].kind = "add"
    /\ WriteDone(q)
    /\ LET new   == [type |-> task[q].type, day |-> task[q].day]
           free  == OfType(events, "absent")
       IN  \/ /\ \E e \in EventIds : events[e] = new
              /\ UNCHANGED events
           \/ /\ new.type = "other" \/ \A e \in EventIds : events[e] # new
              /\ \E e \in free :
                   /\ \A f \in free : e <= f
                   /\ events' = [events EXCEPT ![e] = new]
    /\ Wrote(q)
    /\ UNCHANGED <<today, obligations, risks, overall, plan, day, kept, listed, seen>>

\* update_event.
ChangeEvent(q) ==
    /\ task[q].kind = "change"
    /\ WriteDone(q)
    /\ events' = [events EXCEPT ![task[q].event] =
                    [type |-> task[q].type, day |-> task[q].day]]
    /\ Wrote(q)
    /\ UNCHANGED <<today, obligations, risks, overall, plan, day, kept, listed, seen>>

\* update_obligation, by id alone.
SetStatus(q) ==
    /\ task[q].kind = "status"
    /\ WriteDone(q)
    /\ obligations' = [obligations EXCEPT ![task[q].of].status = task[q].to]
    /\ Wrote(q)
    /\ UNCHANGED <<today, events, risks, overall, plan, day, kept, listed, seen>>

\* update_risk_status: the row is found by its id, or the request fails.
DecideRisk(q) ==
    /\ pc[q] = "write"
    /\ task[q].kind = "risk"
    /\ risks' = IF seen[q] THEN [risks EXCEPT ![task[q].of].status = task[q].to]
                ELSE risks
    /\ Leave(q)
    /\ seen' = [seen EXCEPT ![q] = FALSE]
    /\ Wrote(q)
    /\ UNCHANGED <<today, events, obligations, overall>>

-----------------------------------------------------------------------------
\* recalculate_contract_obligations.  detail reads the obligations ...
ReadObligations(q) ==
    /\ Goto(q, "read", "events")
    /\ plan' = [plan EXCEPT ![q] = [o \in Obligations |->
                  [status |-> obligations[o].status, event |-> obligations[o].event,
                   due |-> obligations[o].due, level |-> obligations[o].level,
                   risk |-> "none"]]]
    /\ alone' = [alone EXCEPT ![q] = TRUE]
    /\ UNCHANGED <<today, tables, task, day, kept, listed, seen>>

\* ... and later the events; then everything is resolved in memory.
ReadEvents(q) ==
    /\ Goto(q, "events", "batch")
    /\ plan' = [plan EXCEPT ![q] =
                  [o \in Obligations |-> Resolve(o, plan[q][o], events, today)]]
    /\ day' = [day EXCEPT ![q] = today]
    /\ UNCHANGED <<today, tables, task, kept, listed, seen, alone>>

\* update_obligations_batch: what was read and resolved replaces what is there.
SaveObligations(q) ==
    /\ Goto(q, "batch", "statuses")
    /\ obligations' = [o \in Obligations |-> Row(plan[q][o])]
    /\ Wrote(q)
    /\ UNCHANGED <<today, events, risks, overall, task, plan, day, kept, listed, seen>>

\* replace_rule_risks reads the decisions of the rows it is about to delete;
\* the read locks nothing.  Rows written by the analysis itself ("fresh") have
\* a fingerprint of another form and are never found again.
ReadDecisions(q) ==
    /\ Goto(q, "statuses", "replace")
    /\ kept' = [kept EXCEPT ![q] = [o \in Obligations |->
                  IF risks[o].fresh THEN NoKept[o]
                  ELSE [kind |-> risks[o].kind, status |-> risks[o].status]]]
    /\ UNCHANGED <<today, tables, task, plan, day, listed, seen, alone>>

\* The status a new rule risk is born with: that of a deleted row with the same
\* fingerprint.
\* Mutant: every new row is open.
AlwaysOpen(q, o) == "open"
CarriedStatus(q, o) ==
    IF /\ plan[q][o].risk # "none"
       /\ SameKey(o, kept[q][o].kind, plan[q][o].risk)
    THEN kept[q][o].status ELSE "open"

\* Deletes the rule risks and inserts the new ones: rows with new ids.
ReplaceRisks(q) ==
    /\ Goto(q, "replace", "list")
    /\ risks' = [o \in Obligations |->
         [kind   |-> plan[q][o].risk,
          status |-> CarriedStatus(q, o),
          fresh  |-> FALSE]]
    /\ kept' = [kept EXCEPT ![q] = NoKept]
    /\ seen' = [p \in Requests |-> FALSE]
    /\ Wrote(q)
    /\ UNCHANGED <<today, events, obligations, overall, task, plan, day, listed>>

\* list_risks, once for the contract and once for the obligations.
ListRisks(q) ==
    /\ \/ Goto(q, "list", "overall")
       \/ Goto(q, "relist", "levels")
    /\ listed' = [listed EXCEPT ![q] = [o \in Obligations |-> Level(risks[o].kind)]]
    /\ UNCHANGED <<today, tables, task, plan, day, kept, seen, alone>>

SaveOverall(q) ==
    /\ Goto(q, "overall", "relist")
    /\ overall' = Highest(listed[q])
    /\ Wrote(q)
    /\ UNCHANGED <<today, events, obligations, risks, task, plan, day, kept, listed, seen>>

\* Mutant: the second batch writes the levels that were read at the start.
SaveLevelsOfRead(q) ==
    /\ pc[q] = "levels"
    /\ obligations' = [o \in Obligations |-> Row(plan[q][o])]
    /\ Leave(q)
    /\ Wrote(q)
    /\ UNCHANGED <<today, events, risks, overall, seen>>

\* The second update_obligations_batch, with the levels of the related risks.
SaveLevels(q) ==
    /\ pc[q] = "levels"
    /\ obligations' = [o \in Obligations |->
                         [Row(plan[q][o]) EXCEPT !.level = listed[q][o]]]
    /\ Leave(q)
    /\ Wrote(q)
    /\ UNCHANGED <<today, events, risks, overall, seen>>

\* The process dies, or a transaction is refused: the request ends here.
Crash(q) ==
    /\ "crash" \in Faults
    /\ pc[q] # "idle"
    /\ Leave(q)
    /\ seen'  = [seen EXCEPT ![q] = FALSE]
    /\ UNCHANGED <<today, tables, alone>>

Next ==
    \/ Tick
    \/ \E q \in Requests :
         \/ BeginEvent(q)      \/ BeginStatus(q) \/ BeginDecision(q)
         \/ AddEvent(q)        \/ ChangeEvent(q) \/ SetStatus(q)    \/ DecideRisk(q)
         \/ ReadObligations(q) \/ ReadEvents(q)  \/ SaveObligations(q)
         \/ ReadDecisions(q)   \/ ReplaceRisks(q)
         \/ ListRisks(q)       \/ SaveOverall(q) \/ SaveLevels(q)
         \/ Crash(q)

Spec == Init /\ [][Next]_vars

-----------------------------------------------------------------------------
ObligationRows ==
    [status : ObligationStatus, event : EventIds \union {NoEvent},
     due : {NoDay} \union 0 .. MaxDay + Offset, level : Levels]

TypeOK ==
    /\ today \in Days
    /\ events \in [EventIds -> [type : EventTypes \union {"absent"}, day : Days]]
    /\ obligations \in [Obligations -> ObligationRows]
    /\ risks \in [Obligations -> [kind : RiskKinds, status : RiskStatus, fresh : BOOLEAN]]
    /\ overall \in Levels
    /\ pc \in [Requests -> {"idle", "write", "read", "events", "batch", "statuses",
                            "replace", "list", "overall", "relist", "levels"}]
    /\ task \in [Requests -> Tasks]
    /\ plan \in [Requests -> [Obligations ->
         [status : ObligationStatus, event : EventIds \union {NoEvent},
          due : {NoDay} \union 0 .. MaxDay + Offset, level : Levels, risk : RiskKinds]]]
    /\ day \in [Requests -> Days]
    /\ kept \in [Requests -> [Obligations -> [kind : RiskKinds, status : RiskStatus]]]
    /\ listed \in [Requests -> [Obligations -> Levels]]
    /\ seen  \in [Requests -> BOOLEAN]
    /\ alone \in [Requests -> BOOLEAN]

-----------------------------------------------------------------------------
\* What a reader expects of the tables on the day they were recalculated: dates
\* and statuses follow from the events, risks from the obligations, levels from
\* the risks.
ConsistentOn(now) ==
    /\ \A o \in Obligations :
         LET row == obligations[o]
             selected == Selected(o, row.event, events)
         IN  /\ row.event  = selected
             /\ row.due    = DueDate(o, selected, events)
             /\ row.status = ResolvedStatus(row.status, row.due, now)
             /\ risks[o].kind = RiskKind(row.status, row.due, now)
             /\ row.level  = Level(risks[o].kind)
    /\ overall = Highest([o \in Obligations |-> obligations[o].level])

\* A recalculation that nobody writes into leaves everything consistent, even
\* if it starts from what crashes half way and interleaved recalculations have
\* left behind: repeating a request repairs the contract.
SoloRepairs ==
    \A q \in Requests, d \in Days :
        SaveLevels(q) /\ alone[q] /\ day[q] = d => ConsistentOn(d)'
SoloRecalculationRepairs == [][SoloRepairs]_vars

\* Completed, waived and cancelled obligations stay so, whatever is reported or
\* recalculated ("completed, waived and cancelled are protected").
ClosedStaysClosed ==
    \A o \in Obligations :
        obligations[o].status \in Closed => obligations'[o].status = obligations[o].status
ClosedObligationsAreFinal == [][ClosedStaysClosed]_vars

\* A risk somebody has resolved or decided to ignore does not come back open
\* while its obligation still gives rise to it.
DecisionKept(o) ==
    risks[o].status \in Decided /\ risks[o].kind # "none" /\ risks'[o].kind = risks[o].kind
        => risks'[o].status = risks[o].status

\* Once the risk has been written by a recalculation ...
RecalculatedDecisionsSurvive ==
    [][\A o \in Obligations : ~risks[o].fresh => DecisionKept(o)]_vars

\* ... and always: refuted by TLC with one request, since the first recalculation
\* does not recognise the risks that the analysis has written.
RiskDecisionsSurvive == [][\A o \in Obligations : DecisionKept(o)]_vars

\* Refuted by TLC with one request and two events, since the event selected first
\* is taken for an explicit one from then on.
\* When its recalculation is done, an obligation follows the latest event of
\* the type its rule asks for; nobody can ask for another one.
LatestEventCounts ==
    [][\A q \in Requests : SaveLevels(q) /\ alone[q] =>
         \A o \in Obligations : obligations'[o].event = Latest(events)]_vars
=============================================================================
