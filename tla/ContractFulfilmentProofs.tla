----------------------- MODULE ContractFulfilmentProofs -----------------------
(***************************************************************************)
(* Proofs about ContractFulfilment, for any number of obligations, events  *)
(* and days and any rules about shared keys.                               *)
(*                                                                         *)
(* A recalculation takes no lock, so what it leaves behind depends on who  *)
(* else has written.  Two results say how far it can be trusted: if nobody *)
(* has, it repairs the whole contract, whatever half-done recalculations   *)
(* it starts from (the invariant follows a request that is alone from step *)
(* to step); and if requests come one at a time, what users have closed or *)
(* decided survives it.                                                    *)
(***************************************************************************)
EXTENDS ContractFulfilment, NaturalsInduction, WellFoundedInduction, TLAPS

Events == [EventIds -> [type : EventTypes \union {"absent"}, day : Days]]
DueDays == {NoDay} \union 0 .. MaxDay + Offset
Plans ==
    [status : ObligationStatus, event : EventIds \union {NoEvent},
     due : DueDays, level : Levels, risk : RiskKinds]

-----------------------------------------------------------------------------
(* The operators of the model.                                             *)

\* Every risk has a level.
LEMMA LevelIsTyped == \A kind : Level(kind) \in Levels
BY DEF Level, Levels

\* The highest of any levels is a level.
LEMMA HighestIsTyped == \A levels : Highest(levels) \in Levels
BY DEF Highest, Levels

\* A set of natural numbers has a smallest.
LEMMA Smallest ==
    ASSUME NEW B \in SUBSET Nat, B # {}
    PROVE  \E m \in B : \A b \in B : m <= b
<1> DEFINE less == OpToRel(<, Nat)
<1>1. IsWellFoundedOn(less, Nat)
  BY NatLessThanWellFounded
<1> HIDE DEF less
<1>2. PICK m \in B : \A b \in B : ~ (<<b, m>> \in less)
  BY <1>1, WFMin
<1>3. \A b \in B : ~ (b < m)
  BY <1>2 DEF less, OpToRel
<1> QED
  BY <1>3

\* There is a latest event of the base type if there is one at all: the last one
\* recorded of those with the last date.
LEMMA LatestExists ==
    ASSUME NEW es \in Events, OfType(es, "base") # {}
    PROVE  /\ Latest(es) \in OfType(es, "base")
           /\ \A f \in OfType(es, "base") :
                es[Latest(es)].day > es[f].day
                  \/ (es[Latest(es)].day = es[f].day /\ Latest(es) >= f)
<1> DEFINE candidates == OfType(es, "base")
           daysLeft   == {MaxDay - es[e].day : e \in candidates}
<1>1. candidates \subseteq EventIds /\ MaxDay \in Nat /\ MaxEvents \in Nat
  BY BoundsAssumption DEF OfType
<1>2. \A e \in candidates : e \in Nat /\ e <= MaxEvents /\ es[e].day \in 0 .. MaxDay
  BY <1>1 DEF EventIds, Events, Days
<1>3. daysLeft \in SUBSET Nat /\ daysLeft # {}
  BY <1>1, <1>2
<1>4. PICK left \in daysLeft : \A l \in daysLeft : left <= l
  BY <1>3, Smallest
<1> DEFINE last    == {e \in candidates : MaxDay - es[e].day = left}
           idsLeft == {MaxEvents - e : e \in last}
<1>5. last # {}
  BY <1>4
<1>6. idsLeft \in SUBSET Nat /\ idsLeft # {}
  BY <1>1, <1>2, <1>5
<1>7. PICK few \in idsLeft : \A n \in idsLeft : few <= n
  BY <1>6, Smallest
<1>8. PICK m \in last : few = MaxEvents - m
  BY <1>7
<1>9. ASSUME NEW f \in candidates
      PROVE  es[m].day > es[f].day \/ (es[m].day = es[f].day /\ m >= f)
  <2>1. MaxDay - es[m].day <= MaxDay - es[f].day
    BY <1>4, <1>8
  <2>2. es[m].day >= es[f].day
    BY <2>1, <1>1, <1>2, <1>8
  <2>3. CASE es[m].day = es[f].day
    <3>1. f \in last
      BY <2>3, <1>8
    <3>2. MaxEvents - m <= MaxEvents - f
      BY <3>1, <1>7, <1>8
    <3> QED
      BY <2>3, <3>2, <1>1, <1>2, <1>8
  <2> QED
    BY <2>2, <2>3, <1>2, <1>8
<1>10. \E e \in candidates : \A f \in candidates :
         es[e].day > es[f].day \/ (es[e].day = es[f].day /\ e >= f)
  BY <1>8, <1>9
<1> QED
  BY <1>10 DEF Latest

\* The event an obligation follows is an event, or none.
LEMMA SelectedIsTyped ==
    ASSUME NEW es \in Events, NEW event \in EventIds \union {NoEvent}, NEW o
    PROVE  Selected(o, event, es) \in EventIds \union {NoEvent}
<1>1. Latest(es) \in EventIds \union {NoEvent}
  <2>1. CASE OfType(es, "base") = {}
    BY <2>1 DEF Latest
  <2>2. CASE OfType(es, "base") # {}
    BY <2>2, LatestExists DEF OfType
  <2> QED
    BY <2>1, <2>2
<1> QED
  BY <1>1 DEF Selected

\* Selecting again selects the same.
LEMMA SelectedIsFinal ==
    ASSUME NEW es, NEW event, NEW o
    PROVE  Selected(o, Selected(o, event, es), es) = Selected(o, event, es)
BY DEF Selected

\* A date is set back by the offset at most.
LEMMA DueDateIsTyped ==
    ASSUME NEW es \in Events, NEW o \in Obligations, NEW e \in EventIds \union {NoEvent}
    PROVE  DueDate(o, e, es) \in DueDays
<1> DEFINE base == IF e = NoEvent THEN Extracted[o] ELSE es[e].day
<1>1. base \in Days \union {NoDay}
  BY InstanceAssumption DEF Events
<1>2. DueAfter(base) \in DueDays
  BY <1>1, BoundsAssumption DEF DueAfter, DueDays, Days, NoDay
<1> QED
  BY <1>2 DEF DueDate

\* Resolving keeps a status a status, keeps what is protected, and resolving
\* again changes nothing.
LEMMA ResolvedIsTyped ==
    ASSUME NEW status \in ObligationStatus, NEW due, NEW now
    PROVE  /\ ResolvedStatus(status, due, now) \in ObligationStatus
           /\ status \in Protected => ResolvedStatus(status, due, now) = status
           /\ ResolvedStatus(ResolvedStatus(status, due, now), due, now)
                = ResolvedStatus(status, due, now)
BY DEF ResolvedStatus, ObligationStatus, Protected, Closed

\* The kinds of risks.
LEMMA RiskKindIsTyped == \A status, due, now : RiskKind(status, due, now) \in RiskKinds
BY DEF RiskKind, RiskKinds

\* What a recalculation computes of an obligation is typed and keeps it closed
\* if it was.
LEMMA ResolveIsTyped ==
    ASSUME NEW es \in Events, NEW o \in Obligations, NEW row \in Plans, NEW now
    PROVE  /\ Resolve(o, row, es, now) \in Plans
           /\ row.status \in Protected => Resolve(o, row, es, now).status = row.status
<1> DEFINE selected == Selected(o, row.event, es)
           due      == DueDate(o, selected, es)
<1>1. selected \in EventIds \union {NoEvent}
  BY SelectedIsTyped DEF Plans
<1>2. due \in DueDays
  BY <1>1, DueDateIsTyped
<1>3. /\ ResolvedStatus(row.status, due, now) \in ObligationStatus
      /\ row.status \in Protected => ResolvedStatus(row.status, due, now) = row.status
  BY ResolvedIsTyped DEF Plans
<1>4. row.level \in Levels
  BY DEF Plans
<1> HIDE DEF selected, due
<1>5. [status |-> ResolvedStatus(row.status, due, now), event |-> selected, due |-> due,
       level |-> row.level, risk |-> RiskKind(ResolvedStatus(row.status, due, now), due, now)]
        \in Plans
  BY <1>1, <1>2, <1>3, <1>4, RiskKindIsTyped DEF Plans
<1> QED
  BY <1>3, <1>5 DEF Resolve, selected, due

\* The part of a plan that is written is a row.
LEMMA RowIsTyped == \A p \in Plans : Row(p) \in ObligationRows
BY DEF Row, Plans, ObligationRows, DueDays

\* What a request has been asked to do.
LEMMA TaskIsTyped ==
    ASSUME NEW t \in Tasks
    PROVE  /\ t.kind = "add"    => t.type \in EventTypes /\ t.day \in Days
           /\ t.kind = "change" => t.event \in EventIds /\ t.type \in EventTypes /\ t.day \in Days
           /\ t.kind = "status" => t.of \in Obligations /\ t.to \in Requested
           /\ t.kind = "risk"   => t.of \in Obligations /\ t.to \in Decisions
BY DEF Tasks, NewEvents, EventChanges, StatusChanges, RiskDecisions, NoTask

-----------------------------------------------------------------------------
(* Types.                                                                  *)

RiskRows == [kind : RiskKinds, status : RiskStatus, fresh : BOOLEAN]
KeptRows == [kind : RiskKinds, status : RiskStatus]
Places   == {"idle", "write", "read", "events", "batch", "statuses",
             "replace", "list", "overall", "relist", "levels"}

TablesTyped ==
    /\ today \in Days
    /\ events \in Events
    /\ obligations \in [Obligations -> ObligationRows]
    /\ risks \in [Obligations -> RiskRows]
    /\ overall \in Levels

LocalsTyped ==
    /\ pc     \in [Requests -> Places]
    /\ task   \in [Requests -> Tasks]
    /\ plan   \in [Requests -> [Obligations -> Plans]]
    /\ day    \in [Requests -> Days]
    /\ kept   \in [Requests -> [Obligations -> KeptRows]]
    /\ listed \in [Requests -> [Obligations -> Levels]]
    /\ seen   \in [Requests -> BOOLEAN]
    /\ alone  \in [Requests -> BOOLEAN]

\* The type invariant, with a name for every column.
LEMMA TypeOKInParts ==
    (TypeOK <=> TablesTyped /\ LocalsTyped) /\ (TypeOK <=> TablesTyped /\ LocalsTyped)'
BY DEF TypeOK, TablesTyped, LocalsTyped, Events, Plans, DueDays, RiskRows, KeptRows, Places

\* The empty locals are typed.
LEMMA EmptyIsTyped ==
    /\ NoTask \in Tasks /\ 0 \in Days
    /\ NoPlan \in [Obligations -> Plans]
    /\ NoKept \in [Obligations -> KeptRows]
    /\ NoLevel \in [Obligations -> Levels]
BY BoundsAssumption
   DEF NoTask, Tasks, Days, NoPlan, Plans, ObligationStatus, DueDays, Levels, RiskKinds,
       NoKept, KeptRows, RiskStatus, NoLevel

\* A request that moves on, ends, or has written.
LEMMA GotoIsTyped ==
    ASSUME LocalsTyped, NEW q, NEW from, NEW to \in Places, Goto(q, from, to)
    PROVE  pc' \in [Requests -> Places]
BY DEF LocalsTyped, Goto

LEMMA LeaveIsTyped ==
    ASSUME LocalsTyped, NEW q, Leave(q)
    PROVE  /\ pc'     \in [Requests -> Places]
           /\ task'   \in [Requests -> Tasks]
           /\ plan'   \in [Requests -> [Obligations -> Plans]]
           /\ day'    \in [Requests -> Days]
           /\ kept'   \in [Requests -> [Obligations -> KeptRows]]
           /\ listed' \in [Requests -> [Obligations -> Levels]]
<1> "idle" \in Places
  BY DEF Places
<1> QED
  BY EmptyIsTyped DEF LocalsTyped, Leave

LEMMA WriteDoneIsTyped ==
    ASSUME LocalsTyped, NEW q, WriteDone(q)
    PROVE  pc' \in [Requests -> Places] /\ task' \in [Requests -> Tasks]
<1> "read" \in Places
  BY DEF Places
<1> QED
  BY EmptyIsTyped, GotoIsTyped DEF LocalsTyped, WriteDone

LEMMA WroteIsTyped ==
    ASSUME LocalsTyped, NEW q \in Requests, Wrote(q)
    PROVE  alone' \in [Requests -> BOOLEAN]
BY DEF LocalsTyped, Wrote

\* The begin of a request.
LEMMA BeginIsTyped ==
    ASSUME TypeOK, NEW q \in Requests, BeginEvent(q) \/ BeginStatus(q) \/ BeginDecision(q)
    PROVE  TypeOK'
<1>t. TablesTyped /\ LocalsTyped
  BY TypeOKInParts
<1>1. Goto(q, "idle", "write")
  BY DEF BeginEvent, BeginStatus, BeginDecision
<1>2. pc' \in [Requests -> Places]
  BY <1>1, <1>t, GotoIsTyped DEF Places
<1>3. \E t \in Tasks : task' = [task EXCEPT ![q] = t]
  BY DEF BeginEvent, BeginStatus, BeginDecision, Tasks
<1>4. task' \in [Requests -> Tasks]
  BY <1>3, <1>t DEF LocalsTyped
<1>5. seen' \in [Requests -> BOOLEAN]
  BY <1>t DEF LocalsTyped, BeginEvent, BeginStatus, BeginDecision
<1>6. UNCHANGED <<today, tables, plan, day, kept, listed, alone>>
  BY DEF BeginEvent, BeginStatus, BeginDecision
<1>7. TablesTyped' /\ LocalsTyped'
  BY <1>2, <1>4, <1>5, <1>6, <1>t DEF TablesTyped, LocalsTyped, tables
<1> QED
  BY <1>7, TypeOKInParts

\* The writes of a request.
LEMMA WriteIsTyped ==
    ASSUME TypeOK, NEW q \in Requests,
           AddEvent(q) \/ ChangeEvent(q) \/ SetStatus(q)
    PROVE  TypeOK'
<1>t. TablesTyped /\ LocalsTyped
  BY TypeOKInParts
<1>1. WriteDone(q) /\ Wrote(q)
  BY DEF AddEvent, ChangeEvent, SetStatus
<1>2. pc' \in [Requests -> Places] /\ task' \in [Requests -> Tasks]
      /\ alone' \in [Requests -> BOOLEAN]
  BY <1>1, <1>t, WriteDoneIsTyped, WroteIsTyped
<1>3. task[q] \in Tasks
  BY <1>t DEF LocalsTyped
<1>4. events' \in Events
  <2>1. CASE AddEvent(q)
    BY <2>1, <1>3, <1>t, TaskIsTyped DEF AddEvent, TablesTyped, Events
  <2>2. CASE ChangeEvent(q)
    BY <2>2, <1>3, <1>t, TaskIsTyped DEF ChangeEvent, TablesTyped, Events
  <2>3. CASE SetStatus(q)
    BY <2>3, <1>t DEF SetStatus, TablesTyped
  <2> QED
    BY <2>1, <2>2, <2>3
<1>5. obligations' \in [Obligations -> ObligationRows]
  <2>1. CASE SetStatus(q)
    <3>1. task[q].of \in Obligations /\ task[q].to \in ObligationStatus
      BY <2>1, <1>3, TaskIsTyped, InstanceAssumption DEF SetStatus
    <3>2. [obligations[task[q].of] EXCEPT !.status = task[q].to] \in ObligationRows
      BY <3>1, <1>t DEF TablesTyped, ObligationRows
    <3> QED
      BY <2>1, <3>1, <3>2, <1>t DEF SetStatus, TablesTyped
  <2>2. CASE AddEvent(q) \/ ChangeEvent(q)
    BY <2>2, <1>t DEF AddEvent, ChangeEvent, TablesTyped
  <2> QED
    BY <2>1, <2>2
<1>6. UNCHANGED <<today, risks, overall, plan, day, kept, listed, seen>>
  BY DEF AddEvent, ChangeEvent, SetStatus
<1>7. TablesTyped' /\ LocalsTyped'
  BY <1>2, <1>4, <1>5, <1>6, <1>t DEF TablesTyped, LocalsTyped
<1> QED
  BY <1>7, TypeOKInParts

\* The requests that end.
LEMMA EndIsTyped ==
    ASSUME TypeOK, NEW q \in Requests, DecideRisk(q) \/ SaveLevels(q) \/ Crash(q)
    PROVE  TypeOK'
<1>t. TablesTyped /\ LocalsTyped
  BY TypeOKInParts
<1>1. Leave(q)
  BY DEF DecideRisk, SaveLevels, Crash
<1>2. /\ pc' \in [Requests -> Places]
      /\ task' \in [Requests -> Tasks]
      /\ plan' \in [Requests -> [Obligations -> Plans]]
      /\ day' \in [Requests -> Days]
      /\ kept' \in [Requests -> [Obligations -> KeptRows]]
      /\ listed' \in [Requests -> [Obligations -> Levels]]
  BY <1>1, <1>t, LeaveIsTyped
<1>3. alone' \in [Requests -> BOOLEAN] /\ seen' \in [Requests -> BOOLEAN]
  BY <1>t, WroteIsTyped DEF DecideRisk, SaveLevels, Crash, LocalsTyped
<1>4. risks' \in [Obligations -> RiskRows]
  <2>1. CASE DecideRisk(q)
    <3>1. task[q].of \in Obligations /\ task[q].to \in RiskStatus
      BY <2>1, <1>t, TaskIsTyped, InstanceAssumption DEF DecideRisk, LocalsTyped
    <3>2. [risks[task[q].of] EXCEPT !.status = task[q].to] \in RiskRows
      BY <3>1, <1>t DEF TablesTyped, RiskRows
    <3> QED
      BY <2>1, <3>1, <3>2, <1>t DEF DecideRisk, TablesTyped
  <2>2. CASE SaveLevels(q) \/ Crash(q)
    BY <2>2, <1>t DEF SaveLevels, Crash, tables, TablesTyped
  <2> QED
    BY <2>1, <2>2
<1>5. obligations' \in [Obligations -> ObligationRows]
  <2>1. CASE SaveLevels(q)
    <3>1. \A o \in Obligations :
            Row(plan[q][o]) \in ObligationRows /\ listed[q][o] \in Levels
      BY <1>t, RowIsTyped DEF LocalsTyped
    <3>2. \A o \in Obligations :
            [Row(plan[q][o]) EXCEPT !.level = listed[q][o]] \in ObligationRows
      BY <3>1 DEF ObligationRows
    <3> QED
      BY <2>1, <3>2 DEF SaveLevels
  <2>2. CASE DecideRisk(q) \/ Crash(q)
    BY <2>2, <1>t DEF DecideRisk, Crash, tables, TablesTyped
  <2> QED
    BY <2>1, <2>2
<1>6. UNCHANGED <<today, events, overall>>
  BY DEF DecideRisk, SaveLevels, Crash, tables
<1>7. TablesTyped' /\ LocalsTyped'
  BY <1>2, <1>3, <1>4, <1>5, <1>6, <1>t DEF TablesTyped, LocalsTyped
<1> QED
  BY <1>7, TypeOKInParts

\* The recalculation.
LEMMA RecalculationIsTyped ==
    ASSUME TypeOK, NEW q \in Requests,
           ReadObligations(q) \/ ReadEvents(q) \/ SaveObligations(q) \/ ReadDecisions(q)
             \/ ReplaceRisks(q) \/ ListRisks(q) \/ SaveOverall(q)
    PROVE  TypeOK'
<1>t. TablesTyped /\ LocalsTyped
  BY TypeOKInParts
<1>1. pc' \in [Requests -> Places]
  <2>1. PICK from, to \in Places : Goto(q, from, to)
    BY DEF ReadObligations, ReadEvents, SaveObligations, ReadDecisions, ReplaceRisks,
           ListRisks, SaveOverall, Places
  <2> QED
    BY <2>1, <1>t, GotoIsTyped
<1>2. alone' \in [Requests -> BOOLEAN] /\ seen' \in [Requests -> BOOLEAN]
  BY <1>t, WroteIsTyped
     DEF ReadObligations, ReadEvents, SaveObligations, ReadDecisions, ReplaceRisks,
         ListRisks, SaveOverall, LocalsTyped
<1>3. plan' \in [Requests -> [Obligations -> Plans]]
  <2>1. CASE ReadObligations(q)
    <3>1. \A o \in Obligations :
            [status |-> obligations[o].status, event |-> obligations[o].event,
             due |-> obligations[o].due, level |-> obligations[o].level,
             risk |-> "none"] \in Plans
      BY <1>t DEF TablesTyped, ObligationRows, Plans, DueDays, RiskKinds
    <3> QED
      BY <2>1, <3>1, <1>t DEF ReadObligations, LocalsTyped
  <2>2. CASE ReadEvents(q)
    <3>1. \A o \in Obligations : Resolve(o, plan[q][o], events, today) \in Plans
      BY <1>t, ResolveIsTyped DEF TablesTyped, LocalsTyped
    <3> QED
      BY <2>2, <3>1, <1>t DEF ReadEvents, LocalsTyped
  <2>3. CASE SaveObligations(q) \/ ReadDecisions(q) \/ ReplaceRisks(q) \/ ListRisks(q)
               \/ SaveOverall(q)
    BY <2>3, <1>t DEF SaveObligations, ReadDecisions, ReplaceRisks, ListRisks, SaveOverall,
       LocalsTyped
  <2> QED
    BY <2>1, <2>2, <2>3
<1>4. day' \in [Requests -> Days] /\ UNCHANGED <<today, events, task>>
  BY <1>t DEF ReadObligations, ReadEvents, SaveObligations, ReadDecisions, ReplaceRisks,
     ListRisks, SaveOverall, LocalsTyped, TablesTyped, tables
<1>5. kept' \in [Requests -> [Obligations -> KeptRows]]
  <2>1. CASE ReadDecisions(q)
    <3>1. \A o \in Obligations : [kind |-> risks[o].kind, status |-> risks[o].status] \in KeptRows
      BY <1>t DEF TablesTyped, RiskRows, KeptRows
    <3>2. [o \in Obligations |-> IF risks[o].fresh THEN NoKept[o]
             ELSE [kind |-> risks[o].kind, status |-> risks[o].status]]
            \in [Obligations -> KeptRows]
      BY <3>1, EmptyIsTyped
    <3> QED
      BY <2>1, <3>2, <1>t DEF ReadDecisions, LocalsTyped
  <2>2. CASE ~ReadDecisions(q)
    BY <2>2, <1>t, EmptyIsTyped
       DEF ReadObligations, ReadEvents, SaveObligations, ReplaceRisks, ListRisks,
           SaveOverall, LocalsTyped
  <2> QED
    BY <2>1, <2>2
<1>6. listed' \in [Requests -> [Obligations -> Levels]]
  BY <1>t, LevelIsTyped
     DEF ReadObligations, ReadEvents, SaveObligations, ReadDecisions, ReplaceRisks,
         ListRisks, SaveOverall, LocalsTyped
<1>7. obligations' \in [Obligations -> ObligationRows]
  <2>1. CASE SaveObligations(q)
    BY <2>1, <1>t, RowIsTyped DEF SaveObligations, LocalsTyped
  <2>2. CASE ~SaveObligations(q)
    BY <2>2, <1>t DEF ReadObligations, ReadEvents, ReadDecisions, ReplaceRisks, ListRisks,
       SaveOverall, TablesTyped, tables
  <2> QED
    BY <2>1, <2>2
<1>8. risks' \in [Obligations -> RiskRows]
  <2>1. CASE ReplaceRisks(q)
    <3>1. \A o \in Obligations :
            plan[q][o].risk \in RiskKinds /\ CarriedStatus(q, o) \in RiskStatus
      BY <1>t DEF LocalsTyped, Plans, KeptRows, CarriedStatus, RiskStatus
    <3> QED
      BY <2>1, <3>1 DEF ReplaceRisks, RiskRows
  <2>2. CASE ~ReplaceRisks(q)
    BY <2>2, <1>t DEF ReadObligations, ReadEvents, SaveObligations, ReadDecisions, ListRisks,
       SaveOverall, TablesTyped, tables
  <2> QED
    BY <2>1, <2>2
<1>9. overall' \in Levels
  BY <1>t, HighestIsTyped
     DEF ReadObligations, ReadEvents, SaveObligations, ReadDecisions, ReplaceRisks,
         ListRisks, SaveOverall, TablesTyped, tables
<1>10. TablesTyped' /\ LocalsTyped'
  BY <1>1, <1>2, <1>3, <1>4, <1>5, <1>6, <1>7, <1>8, <1>9, <1>t DEF TablesTyped, LocalsTyped
<1> QED
  BY <1>10, TypeOKInParts

\* Every step keeps the types.
LEMMA TypeInvariant == TypeOK /\ [Next]_vars => TypeOK'
<1> SUFFICES ASSUME TypeOK, [Next]_vars PROVE TypeOK'
  OBVIOUS
<1>1. CASE Tick
  <2>1. today' \in Days /\ UNCHANGED <<tables, locals>>
    BY <1>1, BoundsAssumption DEF Tick, Days, TypeOK
  <2>2. TablesTyped' /\ LocalsTyped'
    BY <2>1, TypeOKInParts DEF TablesTyped, LocalsTyped, tables, locals
  <2> QED
    BY <2>2, TypeOKInParts
<1>2. CASE UNCHANGED vars
  BY <1>2 DEF TypeOK, vars, tables, locals
<1> QED
  BY <1>1, <1>2, BeginIsTyped, WriteIsTyped, EndIsTyped, RecalculationIsTyped DEF Next

\* The tables as the analysis left them.
LEMMA InitIsTyped == Init => TypeOK
<1> SUFFICES ASSUME Init PROVE TypeOK
  OBVIOUS
<1> DEFINE due(o)  == DueAfter(Extracted[o])
           st(o)   == ResolvedStatus("pending", due(o), 0)
           kind(o) == RiskKind(st(o), due(o), 0)
<1>1. \A o \in Obligations : due(o) \in DueDays
  BY InstanceAssumption, BoundsAssumption DEF DueAfter, DueDays, Days, NoDay
<1>2. \A o \in Obligations : st(o) \in ObligationStatus
  BY ResolvedIsTyped DEF ObligationStatus
<1>3. \A o \in Obligations : kind(o) \in RiskKinds /\ Level(kind(o)) \in Levels
  BY RiskKindIsTyped, LevelIsTyped
<1>4. /\ obligations = [o \in Obligations |->
                [status |-> st(o), event |-> NoEvent, due |-> due(o),
                 level |-> Level(kind(o))]]
      /\ risks = [o \in Obligations |->
                [kind |-> kind(o), status |-> "open", fresh |-> TRUE]]
      /\ overall \in Levels
  BY HighestIsTyped DEF Init
<1> HIDE DEF due, st, kind
<1>5. obligations \in [Obligations -> ObligationRows]
  BY <1>1, <1>2, <1>3, <1>4 DEF ObligationRows, DueDays
<1>6. risks \in [Obligations -> RiskRows]
  BY <1>3, <1>4 DEF RiskRows, RiskStatus
<1>7. today \in Days /\ events \in Events
  BY BoundsAssumption DEF Init, Days, Events
<1>8. LocalsTyped
  BY EmptyIsTyped DEF Init, LocalsTyped, Places
<1> QED
  BY <1>4, <1>5, <1>6, <1>7, <1>8, TypeOKInParts DEF TablesTyped

\* Every column and every local keeps its type, for any bounds, dates in the
\* text and decisions asked for.
THEOREM TypeCorrect == Spec => []TypeOK
BY InitIsTyped, TypeInvariant, PTL DEF Spec

-----------------------------------------------------------------------------
(* What users closed or decided, with one request at a time.               *)

OneAtATime == \A p, q \in Requests : p = q

AfterEvents == {"batch", "statuses", "replace", "list", "overall", "relist", "levels"}

\* The change a request is about to write has been checked.
ChangeIsChecked ==
    \A q \in Requests : pc[q] = "write" =>
        /\ task[q].kind = "status" =>
             task[q].to \in ObligationMoves(obligations[task[q].of].status)
        /\ task[q].kind = "risk" =>
             task[q].to \in RiskMoves(risks[task[q].of].status)

\* The plan of a recalculation keeps what is closed.
PlanKeepsClosed ==
    \A q \in Requests : pc[q] \in {"events"} \union AfterEvents =>
        \A o \in Obligations : obligations[o].status \in Closed =>
                                 plan[q][o].status = obligations[o].status

\* The decisions that have been read are those of the rows about to go.
DecisionsAreKept ==
    \A q \in Requests : pc[q] = "replace" =>
        \A o \in Obligations : ~risks[o].fresh =>
            kept[q][o].kind = risks[o].kind /\ kept[q][o].status = risks[o].status

\* The invariant of requests that come one at a time.
OneAtATimeInv == ChangeIsChecked /\ PlanKeepsClosed /\ DecisionsAreKept

\* Nothing leads away from a status that is closed, or from a decision.
LEMMA ClosedIsFinal ==
    /\ \A s \in Closed : ObligationMoves(s) = {s}
    /\ \A s \in Decided : RiskMoves(s) = {s}
BY DEF ObligationMoves, RiskMoves, Closed, Decided

\* A request moves from where it is.
LEMMA GotoMoves ==
    ASSUME LocalsTyped, NEW q \in Requests, NEW from, NEW to, Goto(q, from, to)
    PROVE  pc[q] = from /\ pc'[q] = to
BY DEF LocalsTyped, Goto

LEMMA LeaveEnds ==
    ASSUME LocalsTyped, NEW q \in Requests, Leave(q)
    PROVE  pc'[q] = "idle"
BY DEF LocalsTyped, Leave

\* Every step keeps the invariant of requests that come one at a time.
LEMMA OneAtATimeInductive ==
    ASSUME OneAtATime
    PROVE  TypeOK /\ OneAtATimeInv /\ [Next]_vars => OneAtATimeInv'
<1> SUFFICES ASSUME TypeOK, OneAtATimeInv, [Next]_vars PROVE OneAtATimeInv'
  OBVIOUS
<1>t. TablesTyped /\ LocalsTyped
  BY TypeOKInParts
<1> USE DEF OneAtATime, OneAtATimeInv
\* Where nothing is claimed there is nothing to show.
<1>n. ASSUME NEW q \in Requests, pc'[q] \in {"idle", "read"}
      PROVE  OneAtATimeInv'
  BY <1>n DEF ChangeIsChecked, PlanKeepsClosed, DecisionsAreKept, AfterEvents
<1>1. ASSUME NEW q \in Requests, BeginEvent(q) PROVE OneAtATimeInv'
  <2>1. pc'[q] = "write"
    BY <1>1, <1>t, GotoMoves DEF BeginEvent
  <2>2. task'[q].kind \in {"add", "change"}
    BY <1>1, <1>t DEF BeginEvent, NewEvents, EventChanges, LocalsTyped
  <2> QED
    BY <2>1, <2>2 DEF ChangeIsChecked, PlanKeepsClosed, DecisionsAreKept, AfterEvents
<1>2. ASSUME NEW q \in Requests, BeginStatus(q) PROVE OneAtATimeInv'
  <2>1. pc'[q] = "write" /\ UNCHANGED obligations
    BY <1>2, <1>t, GotoMoves DEF BeginStatus, tables
  <2>2. /\ task'[q].kind = "status"
        /\ task'[q].to \in ObligationMoves(obligations[task'[q].of].status)
    BY <1>2, <1>t DEF BeginStatus, StatusChanges, LocalsTyped
  <2> QED
    BY <2>1, <2>2 DEF ChangeIsChecked, PlanKeepsClosed, DecisionsAreKept, AfterEvents
<1>3. ASSUME NEW q \in Requests, BeginDecision(q) PROVE OneAtATimeInv'
  <2>1. pc'[q] = "write" /\ UNCHANGED risks
    BY <1>3, <1>t, GotoMoves DEF BeginDecision, tables
  <2>2. /\ task'[q].kind = "risk"
        /\ task'[q].to \in RiskMoves(risks[task'[q].of].status)
    BY <1>3, <1>t DEF BeginDecision, RiskDecisions, LocalsTyped
  <2> QED
    BY <2>1, <2>2 DEF ChangeIsChecked, PlanKeepsClosed, DecisionsAreKept, AfterEvents
<1>4. ASSUME NEW q \in Requests, AddEvent(q) \/ ChangeEvent(q) \/ SetStatus(q)
      PROVE  OneAtATimeInv'
  BY <1>4, <1>t, <1>n, GotoMoves DEF AddEvent, ChangeEvent, SetStatus, WriteDone
<1>5. ASSUME NEW q \in Requests, DecideRisk(q) \/ SaveLevels(q) \/ Crash(q)
      PROVE  OneAtATimeInv'
  BY <1>5, <1>t, <1>n, LeaveEnds DEF DecideRisk, SaveLevels, Crash
<1>6. ASSUME NEW q \in Requests, ReadObligations(q) PROVE OneAtATimeInv'
  <2>1. pc'[q] = "events" /\ UNCHANGED obligations
    BY <1>6, <1>t, GotoMoves DEF ReadObligations, tables
  <2>2. \A o \in Obligations : plan'[q][o].status = obligations[o].status
    BY <1>6, <1>t DEF ReadObligations, LocalsTyped
  <2> QED
    BY <2>1, <2>2 DEF ChangeIsChecked, PlanKeepsClosed, DecisionsAreKept, AfterEvents
<1>7. ASSUME NEW q \in Requests, ReadEvents(q) PROVE OneAtATimeInv'
  <2>1. pc[q] = "events" /\ pc'[q] = "batch" /\ UNCHANGED obligations
    BY <1>7, <1>t, GotoMoves DEF ReadEvents, tables
  <2>2. \A o \in Obligations : plan[q][o].status \in Closed =>
                                 plan'[q][o].status = plan[q][o].status
    <3>1. \A o \in Obligations : plan[q][o].status \in Protected =>
            Resolve(o, plan[q][o], events, today).status = plan[q][o].status
      BY <1>t, ResolveIsTyped DEF TablesTyped, LocalsTyped
    <3>2. \A o \in Obligations : plan'[q][o] = Resolve(o, plan[q][o], events, today)
      BY <1>7, <1>t DEF ReadEvents, LocalsTyped
    <3> QED
      BY <3>1, <3>2 DEF Protected
  <2> QED
    BY <2>1, <2>2 DEF ChangeIsChecked, PlanKeepsClosed, DecisionsAreKept, AfterEvents
<1>8. ASSUME NEW q \in Requests, SaveObligations(q) PROVE OneAtATimeInv'
  <2>1. pc'[q] = "statuses" /\ UNCHANGED plan
    BY <1>8, <1>t, GotoMoves DEF SaveObligations
  <2>2. \A o \in Obligations : obligations'[o].status = plan[q][o].status
    BY <1>8 DEF SaveObligations, Row
  <2> QED
    BY <2>1, <2>2 DEF ChangeIsChecked, PlanKeepsClosed, DecisionsAreKept, AfterEvents
<1>9. ASSUME NEW q \in Requests, ReadDecisions(q) PROVE OneAtATimeInv'
  <2>1. pc[q] = "statuses" /\ pc'[q] = "replace" /\ UNCHANGED <<obligations, risks, plan>>
    BY <1>9, <1>t, GotoMoves DEF ReadDecisions, tables
  <2>2. \A o \in Obligations : ~risks[o].fresh =>
          kept'[q][o].kind = risks[o].kind /\ kept'[q][o].status = risks[o].status
    BY <1>9, <1>t DEF ReadDecisions, LocalsTyped
  <2>3. DecisionsAreKept'
    BY <2>1, <2>2 DEF DecisionsAreKept
  <2>4. PlanKeepsClosed' /\ ChangeIsChecked'
    BY <2>1 DEF ChangeIsChecked, PlanKeepsClosed, AfterEvents
  <2> QED
    BY <2>3, <2>4
<1>10. ASSUME NEW q \in Requests, ReplaceRisks(q) \/ ListRisks(q) \/ SaveOverall(q)
       PROVE  OneAtATimeInv'
  <2>1. /\ pc[q] \in {"replace", "list", "overall", "relist"}
        /\ pc'[q] \in {"list", "overall", "relist", "levels"}
    BY <1>10, <1>t, GotoMoves DEF ReplaceRisks, ListRisks, SaveOverall
  <2>2. UNCHANGED <<obligations, plan>>
    BY <1>10 DEF ReplaceRisks, ListRisks, SaveOverall, tables
  <2> QED
    BY <2>1, <2>2 DEF ChangeIsChecked, PlanKeepsClosed, DecisionsAreKept, AfterEvents
<1>11. CASE Tick \/ UNCHANGED vars
  <2>1. UNCHANGED <<pc, task, plan, kept, obligations, risks>>
    BY <1>11 DEF Tick, vars, tables, locals
  <2> QED
    BY <2>1 DEF ChangeIsChecked, PlanKeepsClosed, DecisionsAreKept
<1> QED
  BY <1>1, <1>2, <1>3, <1>4, <1>5, <1>6, <1>7, <1>8, <1>9, <1>10, <1>11 DEF Next

\* The invariant of requests that come one at a time.
LEMMA OneAtATimeInvariance ==
    ASSUME OneAtATime
    PROVE  Spec => [](TypeOK /\ OneAtATimeInv)
<1>1. Init => OneAtATimeInv
  BY DEF Init, OneAtATimeInv, ChangeIsChecked, PlanKeepsClosed, DecisionsAreKept, AfterEvents
<1>2. TypeOK /\ OneAtATimeInv /\ [Next]_vars => (TypeOK /\ OneAtATimeInv)'
  BY TypeInvariant, OneAtATimeInductive
<1> QED
  BY <1>1, <1>2, InitIsTyped, PTL DEF Spec

\* With one request at a time, whatever is reported or recalculated, and
\* wherever a process dies, what is completed, waived or cancelled stays so.
THEOREM ClosedIsFinalSerially ==
    ASSUME OneAtATime
    PROVE  Spec => ClosedObligationsAreFinal
<1>1. TypeOK /\ OneAtATimeInv /\ [Next]_vars => [ClosedStaysClosed]_vars
  <2> SUFFICES ASSUME TypeOK, OneAtATimeInv, Next, NEW o \in Obligations,
                      obligations[o].status \in Closed
               PROVE  obligations'[o].status = obligations[o].status
    BY DEF ClosedStaysClosed
  <2>t. TablesTyped /\ LocalsTyped
    BY TypeOKInParts
  <2>1. ASSUME NEW q \in Requests, SetStatus(q)
        PROVE  obligations'[o].status = obligations[o].status
    <3>1. pc[q] = "write" /\ task[q].kind = "status"
      BY <2>1 DEF SetStatus, WriteDone, Goto
    <3>2. task[q].to \in ObligationMoves(obligations[task[q].of].status)
      BY <3>1 DEF OneAtATimeInv, ChangeIsChecked
    <3>3. task[q].of = o => task[q].to = obligations[o].status
      BY <3>2, ClosedIsFinal
    <3>4. obligations[o] \in ObligationRows
      BY <2>t DEF TablesTyped
    <3> QED
      BY <2>1, <3>3, <3>4, <2>t DEF SetStatus, TablesTyped, ObligationRows
  <2>2. ASSUME NEW q \in Requests, SaveObligations(q) \/ SaveLevels(q)
        PROVE  obligations'[o].status = obligations[o].status
    <3>1. pc[q] \in AfterEvents
      BY <2>2 DEF SaveObligations, SaveLevels, Goto, AfterEvents
    <3>2. plan[q][o].status = obligations[o].status
      BY <3>1 DEF OneAtATimeInv, PlanKeepsClosed
    <3>3. Row(plan[q][o]).status = plan[q][o].status
          /\ [Row(plan[q][o]) EXCEPT !.level = listed[q][o]].status = plan[q][o].status
      BY DEF Row
    <3>4. obligations'[o].status = plan[q][o].status
      BY <2>2, <3>3 DEF SaveObligations, SaveLevels
    <3> QED
      BY <3>2, <3>4
  <2> QED
    BY <2>1, <2>2 DEF Next, Tick, BeginEvent, BeginStatus, BeginDecision, AddEvent,
       ChangeEvent, DecideRisk, ReadObligations, ReadEvents, ReadDecisions, ReplaceRisks,
       ListRisks, SaveOverall, Crash, tables
<1> QED
  BY <1>1, OneAtATimeInvariance, PTL DEF Spec, ClosedObligationsAreFinal

\* With one request at a time, a risk that a recalculation has written and a
\* user has resolved or ignored does not come back open while its obligation
\* still gives rise to it, though every recalculation deletes and rewrites it.
THEOREM DecisionsSurviveSerially ==
    ASSUME OneAtATime
    PROVE  Spec => RecalculatedDecisionsSurvive
<1> DEFINE Survive == \A o \in Obligations : ~risks[o].fresh => DecisionKept(o)
<1>1. TypeOK /\ OneAtATimeInv /\ [Next]_vars => [Survive]_vars
  <2> SUFFICES ASSUME TypeOK, OneAtATimeInv, Next, NEW o \in Obligations,
                      ~risks[o].fresh, risks[o].status \in Decided,
                      risks[o].kind # "none", risks'[o].kind = risks[o].kind
               PROVE  risks'[o].status = risks[o].status
    BY DEF DecisionKept
  <2>t. TablesTyped /\ LocalsTyped
    BY TypeOKInParts
  <2>1. ASSUME NEW q \in Requests, DecideRisk(q)
        PROVE  risks'[o].status = risks[o].status
    <3>1. task[q].to \in RiskMoves(risks[task[q].of].status)
      BY <2>1 DEF DecideRisk, OneAtATimeInv, ChangeIsChecked
    <3>2. task[q].of = o => task[q].to = risks[o].status
      BY <3>1, ClosedIsFinal
    <3>3. risks[o] \in RiskRows
      BY <2>t DEF TablesTyped
    <3> QED
      BY <2>1, <3>2, <3>3, <2>t DEF DecideRisk, TablesTyped, RiskRows
  <2>2. ASSUME NEW q \in Requests, ReplaceRisks(q)
        PROVE  risks'[o].status = risks[o].status
    <3>1. kept[q][o].kind = risks[o].kind /\ kept[q][o].status = risks[o].status
      BY <2>2 DEF ReplaceRisks, Goto, OneAtATimeInv, DecisionsAreKept
    <3>2. plan[q][o].risk = risks[o].kind
      BY <2>2 DEF ReplaceRisks
    <3>3. CarriedStatus(q, o) = risks[o].status
      BY <3>1, <3>2 DEF CarriedStatus, SameKey
    <3> QED
      BY <2>2, <3>3 DEF ReplaceRisks
  <2> QED
    BY <2>1, <2>2 DEF Next, Tick, BeginEvent, BeginStatus, BeginDecision, AddEvent,
       ChangeEvent, SetStatus, ReadObligations, ReadEvents, SaveObligations, ReadDecisions,
       ListRisks, SaveOverall, SaveLevels, Crash, tables
<1> QED
  BY <1>1, OneAtATimeInvariance, PTL DEF Spec, RecalculatedDecisionsSurvive

-----------------------------------------------------------------------------
(* What a recalculation repairs that nobody writes into.                   *)

\* What a resolved obligation satisfies on the day it was resolved: date and
\* status follow from the event, the risk from both.
Settled(o, p, es, now) ==
    /\ p.event  = Selected(o, p.event, es)
    /\ p.due    = DueDate(o, p.event, es)
    /\ p.status = ResolvedStatus(p.status, p.due, now)
    /\ p.risk   = RiskKind(p.status, p.due, now)

AfterBatch   == AfterEvents \ {"batch"}
AfterReplace == {"list", "overall", "relist", "levels"}
AfterList    == {"overall", "relist", "levels"}
AfterOverall == {"relist", "levels"}

\* A request that is alone has in its plan what it will write; once it has, the
\* tables have it, one after the other.
RepairsSoFar(q) ==
    /\ pc[q] \in AfterEvents =>
         \A o \in Obligations : Settled(o, plan[q][o], events, day[q])
    /\ pc[q] \in AfterReplace =>
         \A o \in Obligations : risks[o].kind = plan[q][o].risk
    /\ pc[q] \in AfterList =>
         \A o \in Obligations : listed[q][o] = Level(risks[o].kind)
    /\ pc[q] \in AfterOverall => overall = Highest(listed[q])

SoloInv == \A q \in Requests : alone[q] => RepairsSoFar(q)

\* What is resolved is settled: resolving again finds nothing to do.
LEMMA ResolveSettles ==
    ASSUME NEW o, NEW row \in Plans, NEW es, NEW now
    PROVE  Settled(o, Resolve(o, row, es, now), es, now)
<1> DEFINE selected == Selected(o, row.event, es)
           due      == DueDate(o, selected, es)
           status   == ResolvedStatus(row.status, due, now)
<1>1. selected = Selected(o, selected, es)
  BY SelectedIsFinal
<1>2. status = ResolvedStatus(status, due, now)
  BY ResolvedIsTyped DEF Plans
<1> HIDE DEF selected, due, status
<1>3. Resolve(o, row, es, now) =
        [status |-> status, event |-> selected, due |-> due, level |-> row.level,
         risk |-> RiskKind(status, due, now)]
  BY DEF Resolve, selected, due, status
<1>4. due = DueDate(o, selected, es)
  BY DEF due
<1> QED
  BY <1>1, <1>2, <1>3, <1>4 DEF Settled

\* A step leaves what it does not touch of a request that stays alone.
LEMMA StayingIsKept ==
    ASSUME NEW q, RepairsSoFar(q),
           UNCHANGED <<events, risks, overall>>, pc'[q] = pc[q], plan'[q] = plan[q],
           day'[q] = day[q], listed'[q] = listed[q]
    PROVE  RepairsSoFar(q)'
<1>1. ASSUME NEW o PROVE Settled(o, plan[q][o], events, day[q])'
                           <=> Settled(o, plan[q][o], events, day[q])
  BY DEF Settled, Selected, Latest, OfType, DueDate
<1> QED
  BY <1>1 DEF RepairsSoFar

\* Nothing is claimed of a request that has not resolved anything.
LEMMA BeforeEvents ==
    ASSUME NEW q, pc'[q] \in {"idle", "write", "read", "events"}
    PROVE  RepairsSoFar(q)'
BY DEF RepairsSoFar, AfterEvents, AfterReplace, AfterList, AfterOverall

\* Every step of another request either writes, and then nobody else is alone
\* any more, or leaves the tables and the locals of the others.
LEMMA OthersStepKeeps ==
    ASSUME TypeOK, SoloInv, NEW q \in Requests, NEW p \in Requests, p # q,
           \/ BeginEvent(q)      \/ BeginStatus(q) \/ BeginDecision(q)
           \/ AddEvent(q)        \/ ChangeEvent(q) \/ SetStatus(q)    \/ DecideRisk(q)
           \/ ReadObligations(q) \/ ReadEvents(q)  \/ SaveObligations(q)
           \/ ReadDecisions(q)   \/ ReplaceRisks(q)
           \/ ListRisks(q)       \/ SaveOverall(q) \/ SaveLevels(q)
           \/ Crash(q)
    PROVE  alone'[p] => RepairsSoFar(p)'
<1>t. LocalsTyped
  BY TypeOKInParts
<1>1. CASE Wrote(q)
  BY <1>1 DEF Wrote
<1>2. CASE ~Wrote(q)
  <2>1. UNCHANGED tables
    BY <1>2 DEF BeginEvent, BeginStatus, BeginDecision, AddEvent, ChangeEvent, SetStatus,
       DecideRisk, ReadObligations, ReadEvents, SaveObligations, ReadDecisions,
       ReplaceRisks, ListRisks, SaveOverall, SaveLevels, Crash
  <2>2. /\ pc'[p] = pc[p] /\ plan'[p] = plan[p] /\ day'[p] = day[p]
        /\ listed'[p] = listed[p] /\ alone'[p] = alone[p]
    BY <1>2, <1>t DEF BeginEvent, BeginStatus, BeginDecision, AddEvent, ChangeEvent, SetStatus,
       DecideRisk, ReadObligations, ReadEvents, SaveObligations, ReadDecisions,
       ReplaceRisks, ListRisks, SaveOverall, SaveLevels, Crash, Goto, Leave, LocalsTyped
  <2> QED
    BY <2>1, <2>2, StayingIsKept DEF SoloInv, tables
<1> QED
  BY <1>1, <1>2

\* Every step of a request keeps what it has repaired, if it is alone.
LEMMA OwnStepKeeps ==
    ASSUME TypeOK, SoloInv, NEW q \in Requests, alone'[q],
           \/ BeginEvent(q)      \/ BeginStatus(q) \/ BeginDecision(q)
           \/ AddEvent(q)        \/ ChangeEvent(q) \/ SetStatus(q)    \/ DecideRisk(q)
           \/ ReadObligations(q) \/ ReadEvents(q)  \/ SaveObligations(q)
           \/ ReadDecisions(q)   \/ ReplaceRisks(q)
           \/ ListRisks(q)       \/ SaveOverall(q) \/ SaveLevels(q)
           \/ Crash(q)
    PROVE  RepairsSoFar(q)'
<1>t. TablesTyped /\ LocalsTyped
  BY TypeOKInParts
<1>s. ASSUME UNCHANGED <<events, plan, day>>
      PROVE  \A o : Settled(o, plan[q][o], events, day[q])'
                      <=> Settled(o, plan[q][o], events, day[q])
  BY <1>s DEF Settled, Selected, Latest, OfType, DueDate
<1>1. CASE BeginEvent(q) \/ BeginStatus(q) \/ BeginDecision(q)
  BY <1>1, <1>t, GotoMoves, BeforeEvents DEF BeginEvent, BeginStatus, BeginDecision
<1>2. CASE AddEvent(q) \/ ChangeEvent(q) \/ SetStatus(q)
  BY <1>2, <1>t, GotoMoves, BeforeEvents DEF AddEvent, ChangeEvent, SetStatus, WriteDone
<1>3. CASE DecideRisk(q) \/ SaveLevels(q) \/ Crash(q)
  BY <1>3, <1>t, LeaveEnds, BeforeEvents DEF DecideRisk, SaveLevels, Crash
<1>4. CASE ReadObligations(q)
  BY <1>4, <1>t, GotoMoves, BeforeEvents DEF ReadObligations
<1>5. CASE ReadEvents(q)
  <2>1. pc'[q] = "batch" /\ events' = events
    BY <1>5, <1>t, GotoMoves DEF ReadEvents, tables
  <2>2. day'[q] = today /\ \A o \in Obligations :
                             plan'[q][o] = Resolve(o, plan[q][o], events, today)
    BY <1>5, <1>t DEF ReadEvents, LocalsTyped
  <2>3. \A o \in Obligations : Settled(o, Resolve(o, plan[q][o], events, today), events, today)
    BY <1>t, ResolveSettles DEF LocalsTyped
  <2>4. \A o \in Obligations : Settled(o, plan'[q][o], events', day'[q])
    BY <2>1, <2>2, <2>3
  <2> QED
    BY <2>1, <2>4 DEF RepairsSoFar, AfterReplace, AfterList, AfterOverall, Settled
\* From here on q was alone before.
<1>a. ASSUME SaveObligations(q) \/ ReadDecisions(q) \/ ReplaceRisks(q) \/ ListRisks(q)
               \/ SaveOverall(q)
      PROVE  /\ RepairsSoFar(q) /\ pc[q] \in AfterEvents
             /\ \A o \in Obligations : Settled(o, plan[q][o], events, day[q])'
  <2>1. alone[q] /\ pc[q] \in AfterEvents /\ UNCHANGED <<events, plan, day>>
    BY <1>a DEF SaveObligations, ReadDecisions, ReplaceRisks, ListRisks, SaveOverall, Wrote,
       Goto, AfterEvents, tables
  <2> QED
    BY <2>1, <1>s DEF SoloInv, RepairsSoFar
<1>6. CASE SaveObligations(q) \/ ReadDecisions(q)
  <2>1. pc'[q] \in {"statuses", "replace"}
    BY <1>6, <1>t, GotoMoves DEF SaveObligations, ReadDecisions
  <2> QED
    BY <2>1, <1>6, <1>a DEF RepairsSoFar, AfterReplace, AfterList, AfterOverall
<1>7. CASE ReplaceRisks(q)
  <2>1. pc'[q] = "list" /\ UNCHANGED plan
    BY <1>7, <1>t, GotoMoves DEF ReplaceRisks
  <2>2. \A o \in Obligations : risks'[o].kind = plan'[q][o].risk
    BY <1>7 DEF ReplaceRisks
  <2> QED
    BY <2>1, <2>2, <1>7, <1>a DEF RepairsSoFar, AfterList, AfterOverall
<1>8. CASE ListRisks(q)
  <2>1. \/ pc[q] = "list" /\ pc'[q] = "overall"
        \/ pc[q] = "relist" /\ pc'[q] = "levels"
    BY <1>8, <1>t, GotoMoves DEF ListRisks
  <2>2. listed'[q] = [o \in Obligations |-> Level(risks[o].kind)]
        /\ UNCHANGED <<risks, overall, plan>>
    BY <1>8, <1>t DEF ListRisks, LocalsTyped, tables
  <2>3. \A o \in Obligations : risks'[o].kind = plan'[q][o].risk
    BY <2>1, <2>2, <1>8, <1>a DEF RepairsSoFar, AfterReplace
  <2>4. \A o \in Obligations : listed'[q][o] = Level(risks'[o].kind)
    BY <2>2
  <2>5. CASE pc'[q] = "overall"
    BY <2>3, <2>4, <2>5, <1>8, <1>a DEF RepairsSoFar, AfterOverall
  <2>6. CASE pc[q] = "relist"
    <3>1. listed[q] \in [Obligations -> Levels]
      BY <1>t DEF LocalsTyped
    <3>2. \A o \in Obligations : listed[q][o] = Level(risks[o].kind)
      BY <2>6, <1>8, <1>a DEF RepairsSoFar, AfterList
    <3>3. listed'[q] = listed[q]
      BY <2>2, <3>1, <3>2
    <3>4. overall' = Highest(listed'[q])
      BY <2>2, <2>6, <3>3, <1>8, <1>a DEF RepairsSoFar, AfterOverall
    <3> QED
      BY <2>3, <2>4, <3>4, <1>8, <1>a DEF RepairsSoFar
  <2> QED
    BY <2>1, <2>5, <2>6
<1>9. CASE SaveOverall(q)
  <2>1. pc[q] = "overall" /\ pc'[q] = "relist"
    BY <1>9, <1>t, GotoMoves DEF SaveOverall
  <2>2. overall' = Highest(listed'[q]) /\ UNCHANGED <<risks, plan, listed>>
    BY <1>9 DEF SaveOverall
  <2> QED
    BY <2>1, <2>2, <1>9, <1>a DEF RepairsSoFar, AfterReplace, AfterList
<1> QED
  BY <1>1, <1>2, <1>3, <1>4, <1>5, <1>6, <1>7, <1>8, <1>9

\* Every step keeps the invariant of the requests that are alone.
LEMMA SoloInductive == TypeOK /\ SoloInv /\ [Next]_vars => SoloInv'
<1> SUFFICES ASSUME TypeOK, SoloInv, [Next]_vars, NEW p \in Requests, alone'[p]
             PROVE  RepairsSoFar(p)'
  BY DEF SoloInv
<1>1. CASE Tick \/ UNCHANGED vars
  BY <1>1, StayingIsKept DEF SoloInv, Tick, vars, tables, locals
<1>2. ASSUME NEW q \in Requests,
             \/ BeginEvent(q)      \/ BeginStatus(q) \/ BeginDecision(q)
             \/ AddEvent(q)        \/ ChangeEvent(q) \/ SetStatus(q)    \/ DecideRisk(q)
             \/ ReadObligations(q) \/ ReadEvents(q)  \/ SaveObligations(q)
             \/ ReadDecisions(q)   \/ ReplaceRisks(q)
             \/ ListRisks(q)       \/ SaveOverall(q) \/ SaveLevels(q)
             \/ Crash(q)
      PROVE  RepairsSoFar(p)'
  <2>1. CASE p = q
    BY <1>2, <2>1, OwnStepKeeps
  <2>2. CASE p # q
    BY <1>2, <2>2, OthersStepKeeps
  <2> QED
    BY <2>1, <2>2
<1> QED
  BY <1>1, <1>2 DEF Next

\* A recalculation that ends without anybody having written into it leaves the
\* whole contract consistent, for any number of requests before it, however far
\* they got and wherever they died: to repeat a request repairs the contract.
THEOREM SoloRepairsEverything == Spec => SoloRecalculationRepairs
<1>1. Init => SoloInv
  BY DEF Init, SoloInv
<1>2. TypeOK /\ SoloInv /\ [Next]_vars => [SoloRepairs]_vars
  <2> SUFFICES ASSUME TypeOK, SoloInv, NEW q \in Requests, NEW d \in Days,
                      SaveLevels(q), alone[q], day[q] = d
               PROVE  ConsistentOn(d)'
    BY DEF SoloRepairs
  <2>t. LocalsTyped
    BY TypeOKInParts
  <2>1. /\ \A o \in Obligations : Settled(o, plan[q][o], events, d)
        /\ \A o \in Obligations : risks[o].kind = plan[q][o].risk
        /\ \A o \in Obligations : listed[q][o] = Level(risks[o].kind)
        /\ overall = Highest(listed[q])
    BY DEF SaveLevels, SoloInv, RepairsSoFar, AfterEvents, AfterReplace, AfterList, AfterOverall
  <2>2. UNCHANGED <<events, risks, overall>>
    BY DEF SaveLevels
  <2>3. ASSUME NEW o \in Obligations
        PROVE  /\ obligations'[o].status = plan[q][o].status
               /\ obligations'[o].event  = plan[q][o].event
               /\ obligations'[o].due    = plan[q][o].due
               /\ obligations'[o].level  = listed[q][o]
    <3>1. obligations'[o] = [Row(plan[q][o]) EXCEPT !.level = listed[q][o]]
      BY DEF SaveLevels
    <3> QED
      BY <3>1 DEF Row
  <2>4. ASSUME NEW o \in Obligations
        PROVE  LET row == obligations'[o]
                   selected == Selected(o, row.event, events')
               IN  /\ row.event  = selected
                   /\ row.due    = DueDate(o, selected, events')
                   /\ row.status = ResolvedStatus(row.status, row.due, d)
                   /\ risks'[o].kind = RiskKind(row.status, row.due, d)
                   /\ row.level  = Level(risks'[o].kind)
    BY <2>1, <2>2, <2>3 DEF Settled
  <2>5. [o \in Obligations |-> obligations'[o].level] = listed[q]
    <3>1. listed[q] \in [Obligations -> Levels]
      BY <2>t DEF LocalsTyped
    <3> QED
      BY <3>1, <2>3
  <2>6. overall' = Highest([o \in Obligations |-> obligations'[o].level])
    BY <2>1, <2>2, <2>5
  <2> QED
    BY <2>4, <2>6 DEF ConsistentOn
<1>3. TypeOK /\ SoloInv /\ [Next]_vars => (TypeOK /\ SoloInv)'
  BY TypeInvariant, SoloInductive
<1> QED
  BY <1>1, <1>2, <1>3, InitIsTyped, PTL DEF Spec, SoloRecalculationRepairs
=============================================================================
