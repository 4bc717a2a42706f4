--------------------------- MODULE OperationsProofs ---------------------------
(***************************************************************************)
(* Proofs about what operators, scheduled scripts and the page do to the   *)
(* system: the records of versions and the pointer (KbVersions), the       *)
(* release of a knowledge base and the report it is skipped by             *)
(* (KbRelease), the quality cycle with its lock (QualityCycle), the page   *)
(* of the workbench (ContractPage), the promotion of scans (OcrReview),    *)
(* the life of the intent model (IntentModel), the gates on material,      *)
(* conversations and times (QualityGates) and the graph of relations       *)
(* (RelationGraph).  Each component has its own variables and its own      *)
(* specification; nothing is assumed of the others.                        *)
(***************************************************************************)
EXTENDS KbVersions, KbRelease, QualityCycle, ContractPage, OcrReview, IntentModel, QualityGates,
        RelationGraph, FiniteSetTheorems, SequenceTheorems, WellFoundedInduction, TLAPS

-----------------------------------------------------------------------------
(* Version records, for any set of operators and of versions.              *)
(*                                                                         *)
(* Records are overwritten by stale copies, but the pointer and the log are*)
(* written by activate_version alone, together, under one lock: the audit  *)
(* trail is sound even where the records are not.                          *)

\* Whoever is about to activate has chosen a version.
TargetIsChosen ==
    \A o \in Operators : pc[o] \notin {"idle"} => target[o] \in Versions

IInv == TypeOK /\ TargetIsChosen /\ LogLeadsToPointer

\* An operator that leaves, or takes a copy, keeps the types of the locals.
LEMMA LeaveKeepsTypes ==
    ASSUME TypeOK, TargetIsChosen, NEW o \in Operators, Leave(o)
    PROVE  /\ pc' \in [Operators -> {"idle", "ensuring", "recording", "activating",
                                     "checked", "archiving"}]
           /\ target' \in [Operators -> Versions \union {NoVersion}]
           /\ copy' \in [Operators -> Records]
           /\ TargetIsChosen'
BY VersionsAssumption, BoundsAssumption DEF TypeOK, TargetIsChosen, Leave, Records, NoRow, Status

\* The same for reading a record.
LEMMA GetKeepsTypes ==
    ASSUME TypeOK, TargetIsChosen, NEW o \in Operators, NEW v \in Versions,
           NEW next \in {"recording", "activating", "archiving"}, Get(o, v, next)
    PROVE  /\ pc' \in [Operators -> {"idle", "ensuring", "recording", "activating",
                                     "checked", "archiving"}]
           /\ target' \in [Operators -> Versions \union {NoVersion}]
           /\ copy' \in [Operators -> Records]
           /\ TargetIsChosen'
BY DEF TypeOK, TargetIsChosen, Get

\* Every version record written is a record.
LEMMA RowsStayTyped ==
    ASSUME TypeOK, NEW v \in Versions, NEW r \in Records, NEW s \in Status
    PROVE  /\ [row EXCEPT ![v] = r] \in [Versions -> Records]
           /\ [row EXCEPT ![v] = [r EXCEPT !.status = s]] \in [Versions -> Records]
           /\ Deactivated \in [Versions -> Records]
           /\ [Deactivated EXCEPT ![v] = [r EXCEPT !.status = s]] \in [Versions -> Records]
<1>1. [r EXCEPT !.status = s] \in Records
  BY DEF Records
<1>2. Deactivated \in [Versions -> Records]
  BY DEF TypeOK, Deactivated, Records, Status
<1> QED
  BY <1>1, <1>2 DEF TypeOK

\* The pointer and the log move together.
LEMMA ActivationExtendsLog ==
    ASSUME IInv, NEW o \in Operators, Activate(o)
    PROVE  /\ LogLeadsToPointer'
           /\ log' \in Seq(LogEntries)
           /\ active' \in Versions
           /\ previous' \in Versions \union {NoVersion}
<1> USE DEF IInv, TypeOK
<1>v. target[o] \in Versions
  BY DEF Activate, TargetIsChosen
<1> DEFINE act == IF /\ active # NoVersion
                     /\ copy[o].seq < (IF active = NoVersion THEN 0 ELSE row[active].seq)
                  THEN "rollback" ELSE "activate"
           entry == [from |-> active, to |-> target[o], action |-> act]
<1>e. entry \in LogEntries
  BY <1>v DEF LogEntries
<1>1. CASE active = target[o]
  <2>1. UNCHANGED <<log, previous>> /\ active' = active
    BY <1>1 DEF Activate, Switches
  <2> QED
    BY <2>1, <1>1, <1>v DEF LogLeadsToPointer
<1>2. CASE active # target[o]
  <2>1. log' = Append(log, entry) /\ previous' = active /\ active' = target[o]
    BY <1>2 DEF Activate, Switches
  <2>2. /\ log' \in Seq(LogEntries)
        /\ Len(log') = Len(log) + 1
        /\ \A i \in 1 .. Len(log) : log'[i] = log[i]
        /\ log'[Len(log) + 1] = entry
        /\ Len(log) \in Nat
        /\ log' # <<>>
    <3> HIDE DEF entry
    <3> QED
      BY <2>1, <1>e
  <2>3. active = IF log = <<>> THEN NoVersion ELSE log[Len(log)].to
    BY DEF LogLeadsToPointer
  <2>4. log = <<>> <=> Len(log) = 0
    BY DEF LogLeadsToPointer
  <2>5. ASSUME NEW i \in 1 .. Len(log')
        PROVE  /\ log'[i].from # log'[i].to
               /\ log'[i].from = IF i = 1 THEN NoVersion ELSE log'[i - 1].to
    <3>1. CASE i \in 1 .. Len(log)
      <4>1. log'[i] = log[i]
        BY <3>1, <2>2
      <4>2. i # 1 => log'[i - 1] = log[i - 1]
        BY <3>1, <2>2
      <4>3. /\ log[i].from # log[i].to
            /\ log[i].from = IF i = 1 THEN NoVersion ELSE log[i - 1].to
        BY <3>1 DEF LogLeadsToPointer
      <4> QED
        BY <4>1, <4>2, <4>3
    <3>2. CASE i = Len(log) + 1
      <4>1. log'[i] = entry
        BY <3>2, <2>2
      <4>2. entry.from = active /\ entry.to = target[o]
        OBVIOUS
      <4>3. CASE Len(log) = 0
        BY <4>3, <4>1, <4>2, <3>2, <2>3, <2>4, <1>2
      <4>4. CASE Len(log) # 0
        BY <4>4, <4>1, <4>2, <3>2, <2>2, <2>3, <2>4, <1>2
      <4> QED
        BY <4>3, <4>4
    <3> QED
      BY <3>1, <3>2, <2>2
  <2>6. active' = log'[Len(log')].to /\ previous' = log'[Len(log')].from
    BY <2>1, <2>2
  <2>7. LogLeadsToPointer'
    BY <2>2, <2>5, <2>6 DEF LogLeadsToPointer
  <2> QED
    BY <2>1, <2>2, <2>7, <1>v
<1> QED
  BY <1>1, <1>2

\* Init establishes the invariant.
LEMMA Initially == Init => IInv
BY VersionsAssumption, BoundsAssumption
   DEF Init, IInv, TypeOK, TargetIsChosen, LogLeadsToPointer, NoRow, Records, Status

\* Every step keeps the invariant.
LEMMA Inductive == IInv /\ [Next]_vars => IInv'
<1> SUFFICES ASSUME IInv, [Next]_vars PROVE IInv'
  OBVIOUS
<1>t. TypeOK /\ TargetIsChosen /\ LogLeadsToPointer
  BY DEF IInv
<1>1. ASSUME NEW o \in Operators, BeginEnsure(o) PROVE IInv'
  BY <1>1, <1>t DEF BeginEnsure, IInv, TypeOK, TargetIsChosen, LogLeadsToPointer, table
<1>2. ASSUME NEW o \in Operators, Ensure(o) PROVE IInv'
  <2>1. target[o] \in Versions
    BY <1>2, <1>t DEF Ensure, TargetIsChosen
  <2>2. [status |-> "staged", seq |-> NextSeq, runs |-> 0] \in Records
    BY <1>2, BoundsAssumption DEF Ensure, Records, Status
  <2>3. row' \in [Versions -> Records]
    BY <2>1, <2>2, <1>2, <1>t DEF Ensure, TypeOK
  <2> QED
    BY <2>3, <1>2, <1>t, LeaveKeepsTypes DEF Ensure, IInv, TypeOK, LogLeadsToPointer
<1>3. ASSUME NEW o \in Operators, BeginRecord(o) PROVE IInv'
  BY <1>3, <1>t, GetKeepsTypes DEF BeginRecord, IInv, TypeOK, LogLeadsToPointer, table
<1>4. ASSUME NEW o \in Operators, Record(o) PROVE IInv'
  <2>1. target[o] \in Versions /\ copy[o] \in Records
    BY <1>4, <1>t DEF Record, TargetIsChosen, TypeOK
  <2>2. copy[o].runs < MaxIngests => [copy[o] EXCEPT !.runs = @ + 1] \in Records
    BY <2>1, BoundsAssumption DEF Records
  <2>3. row' \in [Versions -> Records]
    BY <2>1, <2>2, <1>4, <1>t DEF Record, TypeOK
  <2> QED
    BY <2>3, <1>4, <1>t, LeaveKeepsTypes DEF Record, IInv, TypeOK, LogLeadsToPointer
<1>5. ASSUME NEW o \in Operators, BeginActivate(o) PROVE IInv'
  BY <1>5, <1>t, GetKeepsTypes DEF BeginActivate, IInv, TypeOK, LogLeadsToPointer, table
<1>6. ASSUME NEW o \in Operators, Activate(o) PROVE IInv'
  <2>1. target[o] \in Versions /\ copy[o] \in Records
    BY <1>6, <1>t DEF Activate, TargetIsChosen, TypeOK
  <2>2. row' = [Deactivated EXCEPT ![target[o]] = [copy[o] EXCEPT !.status = "active"]]
    BY <1>6 DEF Activate
  <2>3. row' \in [Versions -> Records]
    BY <2>1, <2>2, <1>t, RowsStayTyped DEF Status
  <2>4. epoch' \in 0 .. MaxEpoch
    BY <1>6, <1>t, BoundsAssumption DEF Activate, TypeOK
  <2>5. Leave(o)
    BY <1>6 DEF Activate
  <2> QED
    BY <2>3, <2>4, <2>5, <1>6, <1>t, LeaveKeepsTypes, ActivationExtendsLog DEF IInv, TypeOK
<1>7. ASSUME NEW o \in Operators, BeginArchive(o) PROVE IInv'
  BY <1>7, <1>t DEF BeginArchive, IInv, TypeOK, TargetIsChosen, LogLeadsToPointer, table
<1>8. ASSUME NEW o \in Operators, ReadForArchive(o) PROVE IInv'
  <2>1. target[o] \in Versions
    BY <1>8, <1>t DEF ReadForArchive, TargetIsChosen
  <2> QED
    BY <2>1, <1>8, <1>t, GetKeepsTypes, LeaveKeepsTypes
       DEF ReadForArchive, IInv, TypeOK, LogLeadsToPointer, table
<1>9. ASSUME NEW o \in Operators, Archive(o) PROVE IInv'
  <2>1. target[o] \in Versions /\ copy[o] \in Records
    BY <1>9, <1>t DEF Archive, TargetIsChosen, TypeOK
  <2>2. row' \in [Versions -> Records]
    BY <2>1, <1>9, <1>t, RowsStayTyped DEF Archive, Status
  <2> QED
    BY <2>2, <1>9, <1>t, LeaveKeepsTypes DEF Archive, IInv, TypeOK, LogLeadsToPointer
<1>10. ASSUME NEW o \in Operators, Crash(o) PROVE IInv'
  BY <1>10, <1>t, LeaveKeepsTypes DEF Crash, IInv, TypeOK, LogLeadsToPointer, table
<1>11. CASE UNCHANGED vars
  BY <1>11, <1>t DEF IInv, TypeOK, TargetIsChosen, LogLeadsToPointer, vars, table, locals
<1> QED
  BY <1>1, <1>2, <1>3, <1>4, <1>5, <1>6, <1>7, <1>8, <1>9, <1>10, <1>11 DEF Next

\* The strengthened invariant of the module.
THEOREM Invariance == Spec => []IInv
BY Initially, Inductive, PTL DEF Spec

\* Every record, pointer and log entry keeps its type.
THEOREM TypeCorrect == Spec => []TypeOK
BY Invariance, PTL DEF IInv

\* However many administrators and jobs work on however many versions, the
\* activation log leads, without a gap, to the version the pointer shows.
THEOREM LogIsATrail == Spec => []LogLeadsToPointer
BY Invariance, PTL DEF IInv

-----------------------------------------------------------------------------
(* What holds as long as operators do not get in each other's way.         *)

OneAtATime == \A o, p \in Operators : o = p

\* A set of natural numbers has a smallest.
LEMMA Smallest ==
    ASSUME NEW B \in SUBSET Nat, B # {}
    PROVE  \E m \in B : \A b \in B : m <= b
<1> DEFINE less == OpToRel(<, Nat)
<1>1. IsWellFoundedOn(less, Nat)
  BY NatLessThanWellFounded
<1> HIDE DEF less
<1>2. PICK m \in B : \A b \in B : ~ (<<b, m>> \in less)
  BY <1>1, WFMin
<1>3. \A b \in B : ~ (b < m)
  BY <1>2 DEF less, OpToRel
<1> QED
  BY <1>3

\* A version number that is drawn is above those of all versions.
LEMMA NextSeqIsAbove ==
    ASSUME TypeOK
    PROVE  NextSeq \in Nat /\ \A v \in Versions : row[v].seq < NextSeq
<1> DEFINE Upper(n)  == \A v \in Versions : row[v].seq <= n
           Least(n)  == Upper(n) /\ (n = 0 \/ \E v \in Versions : row[v].seq = n)
           bounds    == {n \in 0 .. MaxSeq : Upper(n)}
<1>0. MaxSeq \in Nat /\ \A v \in Versions : row[v].seq \in 0 .. MaxSeq
  BY BoundsAssumption DEF TypeOK, Records
<1>1. bounds \in SUBSET Nat /\ MaxSeq \in bounds
  BY <1>0
<1>2. PICK m \in bounds : \A b \in bounds : m <= b
  BY <1>1, Smallest
<1>3. m \in 0 .. MaxSeq /\ Upper(m)
  BY <1>2
<1>4. m = 0 \/ \E v \in Versions : row[v].seq = m
  <2> SUFFICES ASSUME m # 0, \A v \in Versions : row[v].seq # m PROVE FALSE
    OBVIOUS
  <2>1. m - 1 \in 0 .. MaxSeq /\ Upper(m - 1)
    BY <1>0, <1>3
  <2>2. m - 1 \in bounds
    BY <2>1
  <2> QED
    BY <1>0, <1>2, <1>3, <2>2
<1>5. \E n \in 0 .. MaxSeq : Least(n)
  BY <1>3, <1>4
<1> DEFINE top == CHOOSE n \in 0 .. MaxSeq : Least(n)
<1>6. top \in 0 .. MaxSeq /\ Least(top)
  BY <1>5
<1>7. NextSeq = 1 + top
  BY DEF NextSeq
<1> HIDE DEF top
<1> QED
  BY <1>0, <1>6, <1>7

\* Nothing changes between what an operator has read and what it writes.
CopyIsFresh ==
    \A o \in Operators :
        /\ pc[o] = "ensuring" => ~Exists(target[o])
        /\ pc[o] \in {"recording", "activating", "archiving"} =>
              Exists(target[o]) /\ copy[o] = row[target[o]]
        /\ pc[o] \in {"checked", "archiving"} => target[o] # Effective

SerialInv ==
    IInv /\ CopyIsFresh /\ OnlyThePointerIsActive /\ EffectiveIsNotArchived /\ SeqsAreUnique

\* The invariant of one operator at a time holds initially.
LEMMA SerialInitially == Init => SerialInv
<1> SUFFICES ASSUME Init PROVE SerialInv
  OBVIOUS
<1>1. IInv
  BY Initially
<1>2. \A v \in Versions : row[v].status = "absent"
  BY DEF Init, NoRow
<1>3. \A o \in Operators : pc[o] = "idle"
  BY DEF Init
<1>4. Effective # NoVersion => Effective \in Versions
  BY VersionsAssumption DEF Effective, Init
<1> QED
  BY <1>1, <1>2, <1>3, <1>4
     DEF SerialInv, CopyIsFresh, OnlyThePointerIsActive, EffectiveIsNotArchived, SeqsAreUnique,
         Exists

\* A step that leaves the table alone.
LEMMA TableUntouched ==
    ASSUME SerialInv, UNCHANGED table
    PROVE  (OnlyThePointerIsActive /\ EffectiveIsNotArchived /\ SeqsAreUnique)'
BY DEF SerialInv, table, OnlyThePointerIsActive, EffectiveIsNotArchived, SeqsAreUnique,
       Effective, Exists

\* The operator that has left.
LEMMA NobodyElse ==
    ASSUME OneAtATime, TypeOK, NEW o \in Operators, Leave(o)
    PROVE  CopyIsFresh'
BY DEF OneAtATime, TypeOK, Leave, CopyIsFresh

\* Every step of an operator that is alone keeps the invariant and the numbers.
LEMMA SerialStep ==
    ASSUME OneAtATime, SerialInv, [Next]_vars
    PROVE  SerialInv' /\ (\A v \in Versions : Exists(v) => row'[v].seq = row[v].seq)
<1> DEFINE Kept == \A v \in Versions : Exists(v) => row'[v].seq = row[v].seq
           Goal == CopyIsFresh' /\ OnlyThePointerIsActive' /\ EffectiveIsNotArchived'
                     /\ SeqsAreUnique' /\ Kept
<1>i. IInv'
  BY Inductive DEF SerialInv
<1>t. /\ TypeOK /\ TargetIsChosen /\ CopyIsFresh /\ OnlyThePointerIsActive
      /\ EffectiveIsNotArchived /\ SeqsAreUnique
  BY DEF SerialInv, IInv
<1>e. Effective \in Versions \union {NoVersion}
  BY <1>t, VersionsAssumption DEF Effective, TypeOK
<1> SUFFICES Goal
  BY <1>i DEF SerialInv
<1>1. ASSUME NEW o \in Operators, BeginEnsure(o) PROVE Goal
  <2>1. UNCHANGED table /\ \A p \in Operators : p = o
    BY <1>1 DEF BeginEnsure, OneAtATime
  <2>2. CopyIsFresh'
    BY <1>1, <2>1, <1>t DEF BeginEnsure, CopyIsFresh, Exists, table, TypeOK
  <2> QED
    BY <2>1, <2>2, TableUntouched DEF table
<1>2. ASSUME NEW o \in Operators, Ensure(o) PROVE Goal
  <2>1. target[o] \in Versions /\ ~Exists(target[o])
    BY <1>2, <1>t DEF Ensure, TargetIsChosen, CopyIsFresh
  <2>2. \A v \in Versions : row'[v] = IF v = target[o]
                                     THEN [status |-> "staged", seq |-> NextSeq, runs |-> 0]
                                     ELSE row[v]
    BY <1>2, <1>t DEF Ensure, TypeOK
  <2>3. /\ row'[target[o]].status = "staged" /\ row'[target[o]].seq = NextSeq
        /\ \A v \in Versions \ {target[o]} : row'[v] = row[v]
        /\ UNCHANGED active
    BY <1>2, <2>1, <2>2 DEF Ensure
  <2>4. NextSeq \in Nat /\ \A v \in Versions : row[v].seq < NextSeq
    BY <1>t, NextSeqIsAbove
  <2>5. \A v \in Versions : row[v].seq \in Nat
    BY <1>t, BoundsAssumption DEF TypeOK, Records
  <2>6. CopyIsFresh'
    BY <1>2, <1>t, NobodyElse DEF Ensure
  <2>7. OnlyThePointerIsActive' /\ EffectiveIsNotArchived' /\ Kept
    BY <2>1, <2>3, <1>t, <1>e
       DEF OnlyThePointerIsActive, EffectiveIsNotArchived, Effective, Exists
  <2>8. SeqsAreUnique'
    <3> SUFFICES ASSUME NEW v \in Versions, NEW w \in Versions, Exists(v)', Exists(w)',
                        row'[v].seq = row'[w].seq, v # w
                 PROVE  FALSE
      BY DEF SeqsAreUnique
    <3>1. CASE v # target[o] /\ w # target[o]
      BY <3>1, <2>3, <1>t DEF SeqsAreUnique, Exists
    <3>2. CASE v = target[o] \/ w = target[o]
      BY <3>2, <2>3, <2>4, <2>5
    <3> QED
      BY <3>1, <3>2
  <2> QED
    BY <2>6, <2>7, <2>8
<1>3. ASSUME NEW o \in Operators, BeginRecord(o) PROVE Goal
  <2>1. UNCHANGED table /\ \A p \in Operators : p = o
    BY <1>3 DEF BeginRecord, OneAtATime
  <2>2. CopyIsFresh'
    BY <1>3, <2>1, <1>t DEF BeginRecord, Get, CopyIsFresh, Exists, table, TypeOK
  <2> QED
    BY <2>1, <2>2, TableUntouched DEF table
<1>4. ASSUME NEW o \in Operators, Record(o) PROVE Goal
  <2>1. target[o] \in Versions /\ copy[o] = row[target[o]] /\ copy[o] \in Records
    BY <1>4, <1>t DEF Record, TargetIsChosen, CopyIsFresh, TypeOK
  <2>2. PICK n \in {copy[o].runs, copy[o].runs + 1} :
           row' = [row EXCEPT ![target[o]] = [copy[o] EXCEPT !.runs = n]]
    <3>1. [copy[o] EXCEPT !.runs = copy[o].runs] = copy[o]
      BY <2>1 DEF Records
    <3> QED
      BY <1>4, <3>1 DEF Record
  <2>3. \A v \in Versions : row'[v].status = row[v].status /\ row'[v].seq = row[v].seq
    BY <2>1, <2>2, <1>t DEF TypeOK, Records
  <2>4. UNCHANGED active /\ CopyIsFresh'
    BY <1>4, <1>t, NobodyElse DEF Record
  <2> QED
    BY <2>3, <2>4, <1>t, <1>e
       DEF OnlyThePointerIsActive, EffectiveIsNotArchived, SeqsAreUnique, Effective, Exists
<1>5. ASSUME NEW o \in Operators, BeginActivate(o) PROVE Goal
  <2>1. UNCHANGED table /\ \A p \in Operators : p = o
    BY <1>5 DEF BeginActivate, OneAtATime
  <2>2. CopyIsFresh'
    BY <1>5, <2>1, <1>t DEF BeginActivate, Get, CopyIsFresh, Exists, table, TypeOK
  <2> QED
    BY <2>1, <2>2, TableUntouched DEF table
<1>6. ASSUME NEW o \in Operators, Activate(o) PROVE Goal
  <2>1. /\ target[o] \in Versions /\ Exists(target[o]) /\ copy[o] = row[target[o]]
        /\ copy[o] \in Records
    BY <1>6, <1>t DEF Activate, TargetIsChosen, CopyIsFresh, TypeOK
  <2>2. row' = [Deactivated EXCEPT ![target[o]] = [copy[o] EXCEPT !.status = "active"]]
    BY <1>6 DEF Activate
  <2>3. \A v \in Versions \ {target[o]} :
           /\ row'[v].seq = row[v].seq
           /\ row'[v].status = IF row[v].status = "active" THEN "staged" ELSE row[v].status
    BY <2>2, <1>t DEF Deactivated, TypeOK, Records
  <2>4. row'[target[o]].seq = row[target[o]].seq /\ row'[target[o]].status = "active"
    BY <2>1, <2>2 DEF Deactivated, Records
  <2>5. active' = target[o] /\ CopyIsFresh'
    BY <1>6, <1>t, NobodyElse DEF Activate
  <2>6. Kept
    BY <2>3, <2>4
  <2>7. \A v \in Versions : Exists(v)' <=> Exists(v)
    BY <2>1, <2>3, <2>4 DEF Exists
  <2>8. OnlyThePointerIsActive'
    BY <2>3, <2>5 DEF OnlyThePointerIsActive
  <2>9. SeqsAreUnique'
    BY <2>6, <2>7, <1>t DEF SeqsAreUnique
  <2>10. EffectiveIsNotArchived'
    <3>1. CASE Configured = NoVersion
      BY <3>1, <2>4, <2>5 DEF EffectiveIsNotArchived, Effective
    <3>2. CASE Configured # NoVersion
      BY <3>2, <2>3, <2>4, <1>t, VersionsAssumption DEF EffectiveIsNotArchived, Effective
    <3> QED
      BY <3>1, <3>2
  <2> QED
    BY <2>5, <2>6, <2>8, <2>9, <2>10
<1>7. ASSUME NEW o \in Operators, BeginArchive(o) PROVE Goal
  <2>1. UNCHANGED table /\ \A p \in Operators : p = o
    BY <1>7 DEF BeginArchive, OneAtATime
  <2>2. CopyIsFresh'
    BY <1>7, <2>1, <1>t DEF BeginArchive, CopyIsFresh, Exists, Effective, table, TypeOK
  <2> QED
    BY <2>1, <2>2, TableUntouched DEF table
<1>8. ASSUME NEW o \in Operators, ReadForArchive(o) PROVE Goal
  <2>1. UNCHANGED table /\ \A p \in Operators : p = o
    BY <1>8 DEF ReadForArchive, OneAtATime
  <2>2. CASE Leave(o)
    BY <2>1, <2>2, <1>t, TableUntouched, NobodyElse DEF table
  <2>3. CASE Get(o, target[o], "archiving")
    <3>1. target[o] # Effective
      BY <1>8, <1>t DEF ReadForArchive, CopyIsFresh
    <3>2. CopyIsFresh'
      BY <2>1, <2>3, <3>1, <1>t DEF Get, CopyIsFresh, Exists, Effective, table, TypeOK
    <3> QED
      BY <2>1, <3>2, TableUntouched DEF table
  <2> QED
    BY <1>8, <2>2, <2>3 DEF ReadForArchive
<1>9. ASSUME NEW o \in Operators, Archive(o) PROVE Goal
  <2>1. /\ target[o] \in Versions /\ Exists(target[o]) /\ copy[o] = row[target[o]]
        /\ copy[o] \in Records /\ target[o] # Effective
    BY <1>9, <1>t DEF Archive, TargetIsChosen, CopyIsFresh, TypeOK
  <2>2. row' = [row EXCEPT ![target[o]] = [copy[o] EXCEPT !.status = "archived"]]
    BY <1>9 DEF Archive
  <2>3. /\ \A v \in Versions \ {target[o]} : row'[v] = row[v]
        /\ row'[target[o]].seq = row[target[o]].seq /\ row'[target[o]].status = "archived"
    BY <2>1, <2>2, <1>t DEF TypeOK, Records
  <2>4. UNCHANGED active /\ CopyIsFresh'
    BY <1>9, <1>t, NobodyElse DEF Archive
  <2> QED
    BY <2>1, <2>3, <2>4, <1>t, <1>e
       DEF OnlyThePointerIsActive, EffectiveIsNotArchived, SeqsAreUnique, Effective, Exists
<1>10. ASSUME NEW o \in Operators, Crash(o) PROVE Goal
  BY <1>10, <1>t, TableUntouched, NobodyElse DEF Crash, table
<1>11. CASE UNCHANGED vars
  <2>1. UNCHANGED table /\ CopyIsFresh'
    BY <1>11, <1>t DEF vars, table, locals, CopyIsFresh, Exists, Effective
  <2> QED
    BY <2>1, TableUntouched DEF table
<1> QED
  BY <1>1, <1>2, <1>3, <1>4, <1>5, <1>6, <1>7, <1>8, <1>9, <1>10, <1>11 DEF Next

\* With one operator at a time, who may die anywhere, the invariant is kept.
THEOREM SerialInvariance ==
    ASSUME OneAtATime
    PROVE  Spec => []SerialInv
<1>1. SerialInv /\ [Next]_vars => SerialInv'
  BY SerialStep
<1> QED
  BY <1>1, SerialInitially, PTL DEF Spec

\* With one operator at a time, only the version the pointer shows is active.
THEOREM OneVersionIsActive ==
    ASSUME OneAtATime
    PROVE  Spec => []OnlyThePointerIsActive
<1>1. SerialInv => OnlyThePointerIsActive
  BY DEF SerialInv
<1> QED
  BY <1>1, SerialInvariance, PTL

\* The version that is served is never archived, be it the active or a configured one.
THEOREM ServedVersionIsKept ==
    ASSUME OneAtATime
    PROVE  Spec => []EffectiveIsNotArchived
<1>1. SerialInv => EffectiveIsNotArchived
  BY DEF SerialInv
<1> QED
  BY <1>1, SerialInvariance, PTL

\* No sequence number is given to two versions ...
THEOREM NumbersAreUnique ==
    ASSUME OneAtATime
    PROVE  Spec => []SeqsAreUnique
<1>1. SerialInv => SeqsAreUnique
  BY DEF SerialInv
<1> QED
  BY <1>1, SerialInvariance, PTL

\* ... and a version that has one keeps it.
THEOREM NumbersAreKept ==
    ASSUME OneAtATime
    PROVE  Spec => SeqIsStable
<1>1. SerialInv /\ [Next]_vars => [\A v \in Versions : Exists(v) => row'[v].seq = row[v].seq]_vars
  BY SerialStep
<1> QED
  BY <1>1, SerialInvariance, PTL DEF Spec, SeqIsStable

\* Together: with one operator at a time, who may die anywhere, status, pointer, numbers and
\* log of any number of versions tell one story.
THEOREM VersionTableAgrees ==
    ASSUME OneAtATime
    PROVE  Spec => []VersionsAgree
<1>1. SerialInv => VersionsAgree
  BY DEF SerialInv, IInv, VersionsAgree
<1> QED
  BY <1>1, SerialInvariance, PTL

-----------------------------------------------------------------------------
(* Releases, for any scenarios and data.                                   *)
(*                                                                         *)
(* The report of a run is believed later: the invariant follows what its   *)
(* signatures are of, scenario by scenario, through the run that will write*)
(* the report and through everything that can happen beside it.            *)

GatedData == [data : DataStates, gated : BOOLEAN]

\* The types of the fields of a job.
LEMMA JobFields ==
    ASSUME NEW j \in Jobs
    PROVE  /\ j.kind \in {"overlay", "batch"} /\ j.todo \subseteq ScenarioIds
           /\ j.results \in Seq(BOOLEAN) /\ j.signatures \in Partial(DataStates)
           /\ j.activate \in BOOLEAN /\ j.gate \in BOOLEAN /\ j.goOn \in BOOLEAN
BY DEF Jobs

\* A job as it begins.
LEMMA NewJobs ==
    ASSUME NEW k \in {"overlay", "batch"}, NEW ids \in SUBSET ScenarioIds,
           NEW g \in Partial(DataStates), NEW a \in BOOLEAN, NEW q \in BOOLEAN, NEW o \in BOOLEAN
    PROVE  /\ [kind |-> k, todo |-> ids, results |-> <<>>, signatures |-> g,
               activate |-> a, gate |-> q, goOn |-> o] \in Jobs
           /\ [kind |-> k, todo |-> ids, results |-> <<>>, signatures |-> g,
               activate |-> a, gate |-> q, goOn |-> o] # None
<1>1. [kind |-> k, todo |-> ids, results |-> <<>>, signatures |-> g,
       activate |-> a, gate |-> q, goOn |-> o] \in Jobs
  BY DEF Jobs
<1> QED
  BY <1>1, ReleaseAssumption

\* The empty function is a partial function.
LEMMA EmptyIsPartial == <<>> \in Partial(DataStates) /\ DOMAIN <<>> = {}
<1>1. <<>> \in [{} -> DataStates]
  OBVIOUS
<1> QED
  BY <1>1 DEF Partial

\* The signatures of some scenarios.
LEMMA SignaturesArePartial ==
    ASSUME data \in [ScenarioIds -> DataStates], NEW ids \in SUBSET ScenarioIds
    PROVE  /\ ActivationSignatures(ids) \in Partial(DataStates)
           /\ DOMAIN ActivationSignatures(ids) = ids
           /\ \A s \in ids : ActivationSignatures(ids)[s] = data[s]
<1>1. ActivationSignatures(ids) \in [ids -> DataStates]
  BY DEF ActivationSignatures
<1> QED
  BY <1>1 DEF Partial, ActivationSignatures

\* A partial function is a function on some scenarios.
LEMMA PartialFunctions ==
    ASSUME NEW f \in Partial(DataStates)
    PROVE  DOMAIN f \subseteq ScenarioIds /\ f # None /\ f \in [DOMAIN f -> DataStates]
BY ReleaseAssumption DEF Partial

-----------------------------------------------------------------------------
\* Types.

\* The initial state is typed.
THEOREM ReleaseTypeInit == ReleaseInit => ReleaseTypeOK
BY DEF ReleaseInit, ReleaseTypeOK

\* What a job is after one of its scenarios.
LEMMA JobGoesOn ==
    ASSUME NEW s \in ScenarioIds, NEW ok \in BOOLEAN, job \in Jobs, Finished(s, ok)
    PROVE  /\ job' \in Jobs /\ job' # None
           /\ job'.kind = job.kind /\ job'.signatures = job.signatures
           /\ job'.goOn = job.goOn /\ job'.activate = job.activate
           /\ job'.results = Append(job.results, ok)
           /\ job'.todo = IF ok \/ job.goOn THEN job.todo \ {s} ELSE {}
<1> USE JobFields
<1>1. job' = [job EXCEPT !.results = Append(job.results, ok),
                         !.todo = IF ok \/ job.goOn THEN job.todo \ {s} ELSE {}]
  BY DEF Finished
<1>2. Append(job.results, ok) \in Seq(BOOLEAN)
  BY AppendProperties
<1> DEFINE rest == IF ok \/ job.goOn THEN job.todo \ {s} ELSE {}
           all  == Append(job.results, ok)
<1>3. rest \in SUBSET ScenarioIds
  OBVIOUS
<1> HIDE DEF rest, all
<1>4. job' = [job EXCEPT !.results = all, !.todo = rest]
  BY <1>1 DEF rest, all
<1>5. job' \in Jobs
  BY <1>2, <1>3, <1>4 DEF Jobs, all
<1>6. /\ job'.kind = job.kind /\ job'.signatures = job.signatures /\ job'.goOn = job.goOn
      /\ job'.activate = job.activate /\ job'.results = all /\ job'.todo = rest
  BY <1>4 DEF Jobs
<1> QED
  BY <1>5, <1>6, ReleaseAssumption DEF rest, all

\* A version that is released is added to those of its scenario.
LEMMA ReleasedGrow ==
    ASSUME ReleaseTypeOK, NEW s \in ScenarioIds, NEW v \in GatedData,
           released' = [released EXCEPT ![s] = Append(@, v)],
           live' = [live EXCEPT ![s] = Len(released'[s])]
    PROVE  /\ released' \in [ScenarioIds -> Seq(GatedData)]
           /\ \A r \in ScenarioIds : /\ live'[r] \in 0..Len(released'[r])
                                     /\ live'[r] = 0 <=> released'[r] = <<>>
           /\ live'[s] # 0 /\ released'[s][live'[s]] = v
           /\ \A r \in ScenarioIds \ {s} : live'[r] = live[r] /\ released'[r] = released[r]
           /\ \A i \in 1..Len(released[s]) : released'[s][i] = released[s][i]
           /\ Len(released'[s]) = Len(released[s]) + 1
           /\ released'[s][Len(released'[s])] = v
<1>1. released \in [ScenarioIds -> Seq(GatedData)]
  BY DEF ReleaseTypeOK, GatedData
<1>2. /\ Append(released[s], v) \in Seq(GatedData)
      /\ Len(Append(released[s], v)) = Len(released[s]) + 1
      /\ \A i \in 1..Len(released[s]) : Append(released[s], v)[i] = released[s][i]
      /\ Append(released[s], v)[Len(released[s]) + 1] = v
      /\ Len(released[s]) \in Nat
  BY <1>1, AppendProperties, LenProperties
<1>3. /\ released'[s] = Append(released[s], v)
      /\ \A r \in ScenarioIds \ {s} : released'[r] = released[r]
  BY <1>1
<1>4. Append(released[s], v) # <<>>
  BY <1>2, EmptySeq
<1>5. \A r \in ScenarioIds : live'[r] = IF r = s THEN Len(released[s]) + 1 ELSE live[r]
  BY <1>2, <1>3 DEF ReleaseTypeOK
<1>6. released' \in [ScenarioIds -> Seq(GatedData)]
  BY <1>1, <1>2
<1> QED
  BY <1>2, <1>3, <1>4, <1>5, <1>6 DEF ReleaseTypeOK

-----------------------------------------------------------------------------
\* One step of a rebuild, taken apart: the version it releases has passed the gate if the
\* rebuild was to activate, whatever the caller has asked for.

\* What a rebuild does, whether it succeeds or fails.
LEMMA RebuildMoves ==
    ASSUME ReleaseTypeOK, NEW s \in ScenarioIds, NEW i \in BOOLEAN, NEW p \in BOOLEAN,
           Rebuild(s, i, p)
    PROVE  \E ok \in BOOLEAN :
              /\ job \in Jobs /\ job # None /\ s \in job.todo
              /\ job' \in Jobs /\ job' # None
              /\ job'.kind = job.kind /\ job'.signatures = job.signatures
              /\ job'.goOn = job.goOn /\ job'.activate = job.activate
              /\ job'.results = Append(job.results, ok)
              /\ job'.todo = IF ok \/ job.goOn THEN job.todo \ {s} ELSE {}
              /\ UNCHANGED <<data, commands, report>>
              /\ \/ UNCHANGED <<released, live, disturbed>> /\ (ok => ~job.activate)
                 \/ \E v \in GatedData :
                       /\ v.data = data[s] /\ v.gated = TRUE
                       /\ released' = [released EXCEPT ![s] = Append(@, v)]
                       /\ live' = [live EXCEPT ![s] = Len(released'[s])]
                       /\ disturbed' = disturbed \cup (IF job.kind = "batch" THEN {s} ELSE {})
<1> DEFINE ok == i /\ (GateRuns => p)
           v  == [data |-> data[s], gated |-> TRUE]
<1>1. job \in Jobs /\ job # None /\ s \in job.todo /\ job.activate \in BOOLEAN
  BY JobFields DEF Rebuild, ReleaseTypeOK, IsNext
<1>2. ok \in BOOLEAN /\ Finished(s, ok) /\ UNCHANGED <<data, commands, report>>
  BY DEF Rebuild
<1>3. v \in GatedData /\ v.data = data[s] /\ v.gated = TRUE
  BY DEF ReleaseTypeOK, GatedData
<1>4. CASE ok /\ job.activate
  <2>1. (GateRuns /\ p) = TRUE
    BY <1>4 DEF GateRuns
  <2>2. /\ released' = [released EXCEPT ![s] = Append(@, v)]
        /\ live' = [live EXCEPT ![s] = Len(released'[s])]
        /\ disturbed' = disturbed \cup (IF job.kind = "batch" THEN {s} ELSE {})
    BY <1>4, <2>1 DEF Rebuild
  <2> HIDE DEF ok, v
  <2> QED
    BY <1>1, <1>2, <1>3, <2>2, JobGoesOn
<1>5. CASE ~(ok /\ job.activate)
  <2>1. UNCHANGED <<released, live, disturbed>> /\ (ok => ~job.activate)
    BY <1>5 DEF Rebuild
  <2> HIDE DEF ok
  <2> QED
    BY <1>1, <1>2, <2>1, JobGoesOn
<1> QED
  BY <1>4, <1>5

-----------------------------------------------------------------------------
\* The invariant.

\* Whatever has been active was gated.
ReleasedWereGated ==
    \A s \in ScenarioIds : \A n \in 1..Len(released[s]) : released[s][n].gated = TRUE

\* A failure is the last result of a job that is not to go on, and leaves it nothing to do.
FailureEndsJob ==
    job # None /\ ~job.goOn =>
        \A n \in 1..Len(job.results) :
            ~job.results[n] => n = Len(job.results) /\ job.todo = {}

\* The scenario is served from these data.
ServedFrom(s, d) == live[s] # 0 /\ released[s][live[s]].data = d

\* The report is right about every scenario that is not disturbed and not being run again.
ReportHolds ==
    report # None =>
        \A s \in DOMAIN report \ disturbed :
            \/ job # None /\ s \in DOMAIN job.signatures
            \/ ServedFrom(s, report[s])

\* The job at work will be right: what it has yet to rebuild has the data of its signature,
\* and what it has rebuilt is served from them, unless something has failed.
JobHolds ==
    job # None =>
        /\ job.kind = "batch" => DOMAIN job.signatures = {}
        /\ job.kind = "overlay" => job.todo \subseteq DOMAIN job.signatures /\ job.activate = TRUE
        /\ \A s \in DOMAIN job.signatures \ disturbed :
              /\ s \in job.todo => data[s] = job.signatures[s]
              /\ s \notin job.todo => \/ ServedFrom(s, job.signatures[s])
                                      \/ \E n \in 1..Len(job.results) : ~job.results[n]

ReleaseInv == ReleaseTypeOK /\ ReleasedWereGated /\ FailureEndsJob /\ ReportHolds /\ JobHolds

\* The invariant holds initially.
THEOREM ReleaseInvInit == ReleaseInit => ReleaseInv
<1> SUFFICES ASSUME ReleaseInit PROVE ReleaseInv
  OBVIOUS
<1>1. ReleaseTypeOK
  BY ReleaseTypeInit
<1>2. ReleasedWereGated /\ FailureEndsJob /\ ReportHolds /\ JobHolds
  BY DEF ReleaseInit, ReleasedWereGated, FailureEndsJob, ReportHolds, JobHolds
<1> QED
  BY <1>1, <1>2 DEF ReleaseInv

\* Building overlays keeps the invariant.
LEMMA OverlayStep ==
    ASSUME ReleaseInv, NEW asked \in SUBSET ScenarioIds, NEW contents \in [asked -> DataStates],
           NEW plan \in {"none", "blocked", "ready"}, BuildOverlay(asked, contents, plan)
    PROVE  ReleaseInv'
<1> USE DEF ReleaseInv
<1>1. data' \in [ScenarioIds -> DataStates]
  BY DEF BuildOverlay, ReleaseTypeOK
<1>2. commands' \subseteq ScenarioIds
  BY DEF BuildOverlay, ReleaseTypeOK
<1>3. disturbed \subseteq disturbed' /\ disturbed' \subseteq ScenarioIds
  BY DEF BuildOverlay, ReleaseTypeOK
<1>4. UNCHANGED <<report, released, live, job>>
  BY DEF BuildOverlay
<1>5. ReleaseTypeOK'
  BY <1>1, <1>2, <1>3, <1>4 DEF ReleaseTypeOK
<1>6. ReleasedWereGated' /\ FailureEndsJob' /\ ReportHolds'
  BY <1>3, <1>4 DEF ReleasedWereGated, FailureEndsJob, ReportHolds, ServedFrom
<1>7. JobHolds'
  <2> SUFFICES ASSUME job # None PROVE JobHolds'
    BY <1>4 DEF JobHolds
  <2>1. job.kind \in {"overlay", "batch"} /\ DOMAIN job.signatures \subseteq ScenarioIds
    BY JobFields, PartialFunctions DEF ReleaseTypeOK
  <2>2. CASE job.kind = "batch"
    BY <2>2, <1>4 DEF JobHolds
  <2>3. CASE job.kind = "overlay"
    <3>1. \A s \in ScenarioIds : s \notin disturbed' => data'[s] = data[s]
      <4>1. \A s \in ScenarioIds \ asked : data'[s] = data[s]
        BY DEF BuildOverlay
      <4>2. disturbed' = disturbed \cup {s \in asked : data'[s] # data[s]}
        BY <2>3 DEF BuildOverlay
      <4> QED
        BY <4>1, <4>2
    <3> QED
      BY <2>1, <3>1, <1>3, <1>4 DEF JobHolds, ServedFrom
  <2> QED
    BY <2>1, <2>2, <2>3
<1> QED
  BY <1>5, <1>6, <1>7

\* Planning a batch keeps the invariant.
LEMMA PlanStep ==
    ASSUME ReleaseInv, NEW selected \in SUBSET ScenarioIds, NEW force \in BOOLEAN,
           RunActivationPlan(selected, force)
    PROVE  ReleaseInv'
<1> USE DEF ReleaseInv
<1> DEFINE ids == SelectedPlanItems(selected)
           sig == ActivationSignatures(ids)
           new == [kind |-> "overlay", todo |-> ids, results |-> <<>>,
                   signatures |-> sig, activate |-> TRUE, gate |-> TRUE, goOn |-> FALSE]
<1>1. ids \in SUBSET ScenarioIds
  BY DEF SelectedPlanItems, ReleaseTypeOK
<1>2. /\ sig \in Partial(DataStates) /\ DOMAIN sig = ids
      /\ \A s \in ids : sig[s] = data[s]
  BY <1>1, SignaturesArePartial DEF ReleaseTypeOK
<1>3. job = None /\ UNCHANGED <<data, commands, released, live>>
  BY DEF RunActivationPlan
<1>4. CASE ~force /\ MatchingPreviousReport(sig)
  <2>1. report' = sig /\ UNCHANGED <<job, disturbed>>
    BY <1>4 DEF RunActivationPlan
  <2>2. report # None /\ \A s \in ids : s \in DOMAIN report /\ report[s] = sig[s]
    BY <1>4, <1>2 DEF MatchingPreviousReport
  <2>3. ReleaseTypeOK'
    BY <1>2, <1>3, <2>1 DEF ReleaseTypeOK
  <2>4. ReleasedWereGated' /\ FailureEndsJob' /\ JobHolds'
    BY <1>3, <2>1 DEF ReleasedWereGated, FailureEndsJob, JobHolds
  <2>5. ReportHolds'
    BY <1>2, <1>3, <2>1, <2>2 DEF ReportHolds, ServedFrom
  <2> QED
    BY <2>3, <2>4, <2>5
<1>5. CASE ~(~force /\ MatchingPreviousReport(sig))
  <2>1. job' = new /\ disturbed' = disturbed \ ids /\ UNCHANGED report
    BY <1>5 DEF RunActivationPlan
  <2> HIDE DEF sig, ids
  <2>2. new \in Jobs /\ new # None
    BY <1>1, <1>2, NewJobs
  <2>3. /\ job'.kind = "overlay" /\ job'.todo = ids /\ job'.results = <<>>
        /\ job'.signatures = sig /\ job'.activate = TRUE
    BY <2>1
  <2>4. ReleaseTypeOK'
    BY <1>3, <2>1, <2>2 DEF ReleaseTypeOK
  <2>5. ReleasedWereGated' /\ FailureEndsJob'
    BY <1>3, <2>3 DEF ReleasedWereGated, FailureEndsJob
  <2>6. ReportHolds'
    BY <1>2, <1>3, <2>1, <2>2, <2>3 DEF ReportHolds, ServedFrom
  <2>7. JobHolds'
    BY <1>2, <1>3, <2>3 DEF JobHolds
  <2> QED
    BY <2>4, <2>5, <2>6, <2>7
<1> QED
  BY <1>4, <1>5

\* A scenario of a batch keeps the invariant.
LEMMA BatchStep ==
    ASSUME ReleaseInv, NEW ids \in SUBSET ScenarioIds, NEW a \in BOOLEAN, NEW q \in BOOLEAN,
           NEW o \in BOOLEAN, job = None,
           job' = [kind |-> "batch", todo |-> ids, results |-> <<>>, signatures |-> <<>>,
                   activate |-> a, gate |-> q, goOn |-> o],
           UNCHANGED <<data, commands, report, released, live, disturbed>>
    PROVE  ReleaseInv'
<1> USE DEF ReleaseInv
<1>1. job' \in Jobs /\ job' # None
  BY NewJobs, EmptyIsPartial
<1>2. /\ job'.kind = "batch" /\ job'.results = <<>> /\ DOMAIN job'.signatures = {}
  BY EmptyIsPartial
<1>3. ReleaseTypeOK'
  BY <1>1 DEF ReleaseTypeOK
<1>4. ReleasedWereGated' /\ FailureEndsJob'
  BY <1>2 DEF ReleasedWereGated, FailureEndsJob
<1>5. ReportHolds' /\ JobHolds'
  BY <1>2 DEF ReportHolds, ServedFrom, JobHolds
<1> QED
  BY <1>3, <1>4, <1>5

\* What is one longer and what it had before.
LEMMA OneMoreResult ==
    ASSUME NEW q \in Seq(BOOLEAN), NEW ok \in BOOLEAN
    PROVE  /\ Len(Append(q, ok)) = Len(q) + 1 /\ Len(q) \in Nat
           /\ \A n \in 1..Len(q) : Append(q, ok)[n] = q[n]
           /\ Append(q, ok)[Len(q) + 1] = ok
BY AppendProperties, LenProperties

\* A rebuild keeps the invariant.
LEMMA RebuildStep ==
    ASSUME ReleaseInv, NEW s \in ScenarioIds, NEW i \in BOOLEAN, NEW p \in BOOLEAN,
           Rebuild(s, i, p)
    PROVE  ReleaseInv'
<1> USE DEF ReleaseInv
<1>1. PICK ok \in BOOLEAN :
              /\ job \in Jobs /\ job # None /\ s \in job.todo
              /\ job' \in Jobs /\ job' # None
              /\ job'.kind = job.kind /\ job'.signatures = job.signatures
              /\ job'.goOn = job.goOn /\ job'.activate = job.activate
              /\ job'.results = Append(job.results, ok)
              /\ job'.todo = IF ok \/ job.goOn THEN job.todo \ {s} ELSE {}
              /\ UNCHANGED <<data, commands, report>>
              /\ \/ UNCHANGED <<released, live, disturbed>> /\ (ok => ~job.activate)
                 \/ \E v \in GatedData :
                       /\ v.data = data[s] /\ v.gated = TRUE
                       /\ released' = [released EXCEPT ![s] = Append(@, v)]
                       /\ live' = [live EXCEPT ![s] = Len(released'[s])]
                       /\ disturbed' = disturbed \cup (IF job.kind = "batch" THEN {s} ELSE {})
  BY RebuildMoves
<1>2. /\ job.kind \in {"overlay", "batch"} /\ DOMAIN job.signatures \subseteq ScenarioIds
      /\ job.results \in Seq(BOOLEAN) /\ job.goOn \in BOOLEAN
      /\ job.todo \subseteq ScenarioIds
  BY <1>1, JobFields, PartialFunctions
<1>3. /\ Len(job'.results) = Len(job.results) + 1 /\ Len(job.results) \in Nat
      /\ \A n \in 1..Len(job.results) : job'.results[n] = job.results[n]
      /\ job'.results[Len(job.results) + 1] = ok
  BY <1>1, <1>2, OneMoreResult
<1>4. /\ s \notin job'.todo /\ job'.todo \subseteq job.todo
      /\ \A r \in job.todo \ {s} : r \notin job'.todo => ~ok
      /\ ~job.goOn /\ ~ok => job'.todo = {}
  BY <1>1, <1>2
<1>5. FailureEndsJob'
  BY <1>1, <1>2, <1>3, <1>4 DEF FailureEndsJob
<1>6. \/ UNCHANGED <<released, live, disturbed>> /\ (ok => ~job.activate)
      \/ /\ released' \in [ScenarioIds -> Seq(GatedData)]
         /\ \A r \in ScenarioIds : /\ live'[r] \in 0..Len(released'[r])
                                   /\ live'[r] = 0 <=> released'[r] = <<>>
         /\ live'[s] # 0 /\ released'[s][live'[s]].data = data[s]
         /\ \A r \in ScenarioIds \ {s} : live'[r] = live[r] /\ released'[r] = released[r]
         /\ \A n \in 1..Len(released'[s]) : released'[s][n].gated = TRUE
         /\ live' \in [ScenarioIds -> Nat]
         /\ disturbed' = disturbed \cup (IF job.kind = "batch" THEN {s} ELSE {})
  <2> SUFFICES ASSUME NEW v \in GatedData, v.data = data[s], v.gated = TRUE,
                      released' = [released EXCEPT ![s] = Append(@, v)],
                      live' = [live EXCEPT ![s] = Len(released'[s])],
                      disturbed' = disturbed \cup (IF job.kind = "batch" THEN {s} ELSE {})
               PROVE  <1>6
    BY <1>1
  <2>1. /\ released' \in [ScenarioIds -> Seq(GatedData)]
        /\ \A r \in ScenarioIds : /\ live'[r] \in 0..Len(released'[r])
                                  /\ live'[r] = 0 <=> released'[r] = <<>>
        /\ live'[s] # 0 /\ released'[s][live'[s]] = v
        /\ \A r \in ScenarioIds \ {s} : live'[r] = live[r] /\ released'[r] = released[r]
        /\ \A n \in 1..Len(released[s]) : released'[s][n] = released[s][n]
        /\ Len(released'[s]) = Len(released[s]) + 1
        /\ released'[s][Len(released'[s])] = v
    BY ReleasedGrow
  <2>2. Len(released[s]) \in Nat
    BY LenProperties DEF ReleaseTypeOK
  <2>3. \A n \in 1..Len(released'[s]) : released'[s][n].gated = TRUE
    <3> SUFFICES ASSUME NEW n \in 1..Len(released'[s]) PROVE released'[s][n].gated = TRUE
      OBVIOUS
    <3>1. CASE n \in 1..Len(released[s])
      BY <3>1, <2>1 DEF ReleasedWereGated
    <3>2. CASE n = Len(released'[s])
      BY <3>2, <2>1
    <3>3. n \in 1..Len(released[s]) \/ n = Len(released'[s])
      <4>1. Len(released'[s]) = Len(released[s]) + 1
        BY <2>1
      <4> QED
        BY <4>1, <2>2
    <3> QED
      BY <3>1, <3>2, <3>3
  <2>4. live' \in [ScenarioIds -> Nat]
    BY <2>1, <2>2 DEF ReleaseTypeOK
  <2> QED
    BY <2>1, <2>3, <2>4
<1>7. ReleaseTypeOK'
  BY <1>1, <1>2, <1>6 DEF ReleaseTypeOK, GatedData
<1>8. ReleasedWereGated'
  BY <1>6 DEF ReleasedWereGated
<1>9. ReportHolds'
  <2> SUFFICES ASSUME report # None, NEW r \in DOMAIN report \ disturbed',
                      r \notin DOMAIN job.signatures
               PROVE  ServedFrom(r, report[r])'
    BY <1>1 DEF ReportHolds, ServedFrom
  <2>1. r \in ScenarioIds /\ r \notin disturbed
    BY <1>6, PartialFunctions DEF ReleaseTypeOK
  <2>2. ServedFrom(r, report[r])
    BY <2>1 DEF ReportHolds
  <2>3. live'[r] = live[r] /\ released'[r] = released[r]
    BY <2>1, <1>1, <1>2, <1>6 DEF JobHolds
  <2> QED
    BY <2>2, <2>3, <1>1 DEF ServedFrom
<1>10. JobHolds'
  <2>1. CASE job.kind = "batch"
    BY <2>1, <1>1 DEF JobHolds
  <2>2. CASE job.kind = "overlay"
    <3>1. disturbed' = disturbed /\ job.activate = TRUE
      BY <2>2, <1>1, <1>6 DEF JobHolds
    <3> SUFFICES ASSUME NEW r \in DOMAIN job.signatures \ disturbed
                 PROVE  /\ r \in job'.todo => data[r] = job.signatures[r]
                        /\ r \notin job'.todo =>
                              \/ ServedFrom(r, job.signatures[r])'
                              \/ \E n \in 1..Len(job'.results) : ~job'.results[n]
      BY <2>2, <3>1, <1>1, <1>4 DEF JobHolds, ServedFrom
    <3>2. r \in job'.todo => data[r] = job.signatures[r]
      BY <1>1, <1>4 DEF JobHolds
    <3>3. CASE r = s
      BY <3>1, <3>3, <1>1, <1>3, <1>4, <1>6 DEF JobHolds, ServedFrom
    <3>4. CASE r # s /\ r \in job.todo
      BY <3>2, <3>4, <1>3, <1>4
    <3>5. CASE r # s /\ r \notin job.todo
      <4>1. \/ ServedFrom(r, job.signatures[r])
            \/ \E n \in 1..Len(job.results) : ~job.results[n]
        BY <3>5, <1>1 DEF JobHolds
      <4>2. live'[r] = live[r] /\ released'[r] = released[r]
        BY <3>5, <1>2, <1>6
      <4> QED
        BY <3>2, <4>1, <4>2, <1>1, <1>3 DEF ServedFrom
    <3> QED
      BY <3>3, <3>4, <3>5
  <2> QED
    BY <1>2, <2>1, <2>2
<1> QED
  BY <1>5, <1>7, <1>8, <1>9, <1>10

\* The end of a job: an overlay run that was right to the end writes what it was started with.
LEMMA EndStep ==
    ASSUME ReleaseInv, EndOfJob
    PROVE  ReleaseInv'
<1> USE DEF ReleaseInv
<1>1. /\ job \in Jobs /\ job # None /\ job.todo = {} /\ job' = None
      /\ UNCHANGED <<data, commands, released, live, disturbed>>
  BY DEF EndOfJob, ReleaseTypeOK
<1>2. /\ job.kind \in {"overlay", "batch"} /\ job.signatures \in Partial(DataStates)
      /\ job.results \in Seq(BOOLEAN)
  BY <1>1, JobFields
<1>3. report' = IF job.kind = "batch" THEN report
                ELSE IF job.results # <<>> /\ \A n \in DOMAIN job.results : job.results[n]
                  THEN job.signatures ELSE None
  BY DEF EndOfJob
<1>4. ReleaseTypeOK'
  BY <1>1, <1>2, <1>3 DEF ReleaseTypeOK
<1>5. ReleasedWereGated' /\ FailureEndsJob' /\ JobHolds'
  BY <1>1 DEF ReleasedWereGated, FailureEndsJob, JobHolds
<1>6. ReportHolds'
  <2>1. CASE job.kind = "batch"
    BY <2>1, <1>1, <1>3 DEF ReportHolds, JobHolds, ServedFrom
  <2>2. CASE job.kind = "overlay" /\ \A n \in DOMAIN job.results : job.results[n]
    <3>1. \A s \in DOMAIN job.signatures \ disturbed : ServedFrom(s, job.signatures[s])
      BY <2>2, <1>1, <1>2, LenProperties DEF JobHolds
    <3> QED
      BY <2>2, <3>1, <1>1, <1>3 DEF ReportHolds, ServedFrom
  <2>3. CASE job.kind = "overlay" /\ ~(\A n \in DOMAIN job.results : job.results[n])
    BY <2>3, <1>3 DEF ReportHolds
  <2> QED
    BY <1>2, <2>1, <2>2, <2>3
<1> QED
  BY <1>4, <1>5, <1>6

\* A job that dies takes what it was to report on out of the report's word.
LEMMA DeathStep ==
    ASSUME ReleaseInv, JobDies
    PROVE  ReleaseInv'
<1> USE DEF ReleaseInv
<1>1. /\ job \in Jobs /\ job' = None /\ disturbed' = disturbed \cup DOMAIN job.signatures
      /\ UNCHANGED <<data, commands, report, released, live>>
  BY DEF JobDies, ReleaseTypeOK
<1>2. DOMAIN job.signatures \subseteq ScenarioIds
  BY <1>1, JobFields, PartialFunctions
<1>3. ReleaseTypeOK'
  BY <1>1, <1>2 DEF ReleaseTypeOK
<1>4. ReleasedWereGated' /\ FailureEndsJob' /\ ReportHolds' /\ JobHolds'
  BY <1>1 DEF ReleasedWereGated, FailureEndsJob, ReportHolds, JobHolds, ServedFrom
<1> QED
  BY <1>3, <1>4

\* A rollback keeps the invariant.
LEMMA RollbackStep ==
    ASSUME ReleaseInv, NEW s \in ScenarioIds, NEW n \in 1..MaxReleases, Rollback(s, n)
    PROVE  ReleaseInv'
<1> USE DEF ReleaseInv
<1>1. /\ n \in DOMAIN released[s] /\ live' = [live EXCEPT ![s] = n]
      /\ disturbed' = disturbed \cup {s}
      /\ UNCHANGED <<data, commands, report, released, job>>
  BY DEF Rollback
<1>2. n \in 1..Len(released[s]) /\ released[s] # <<>>
  <2>1. released[s] \in Seq([data : DataStates, gated : BOOLEAN])
    BY DEF ReleaseTypeOK
  <2>2. DOMAIN released[s] = 1..Len(released[s])
    BY <2>1, LenProperties
  <2>3. released[s] = <<>> => DOMAIN released[s] = {}
    OBVIOUS
  <2>4. n \in DOMAIN released[s]
    BY <1>1
  <2>5. released[s] # <<>>
    BY <2>3, <2>4, Zenon
  <2> QED
    BY <2>2, <2>4, <2>5
<1>3. ReleaseTypeOK'
  <2>1. n \in Nat /\ n # 0
    BY ReleaseAssumption
  <2>2. live' \in [ScenarioIds -> Nat]
    BY <2>1, <1>1 DEF ReleaseTypeOK
  <2>3. \A r \in ScenarioIds : live'[r] = IF r = s THEN n ELSE live[r]
    BY <1>1 DEF ReleaseTypeOK
  <2>4. live'[s] \in 0..Len(released'[s]) /\ (live'[s] = 0 <=> released'[s] = <<>>)
    BY <2>1, <2>3, <1>1, <1>2
  <2>5. \A r \in ScenarioIds : /\ live'[r] \in 0..Len(released'[r])
                               /\ live'[r] = 0 <=> released'[r] = <<>>
    BY <2>3, <2>4, <1>1 DEF ReleaseTypeOK
  <2> QED
    BY <2>2, <2>5, <1>1 DEF ReleaseTypeOK
<1>4. ReleasedWereGated' /\ FailureEndsJob'
  BY <1>1 DEF ReleasedWereGated, FailureEndsJob
<1>5. \A r \in ScenarioIds \ disturbed' : live'[r] = live[r]
  BY <1>1 DEF ReleaseTypeOK
<1>6. ReportHolds'
  <2>1. report # None => DOMAIN report \subseteq ScenarioIds
    BY PartialFunctions DEF ReleaseTypeOK
  <2> QED
    BY <2>1, <1>1, <1>5 DEF ReportHolds, ServedFrom
<1>7. JobHolds'
  <2>1. job # None => DOMAIN job.signatures \subseteq ScenarioIds
    BY JobFields, PartialFunctions DEF ReleaseTypeOK
  <2> QED
    BY <2>1, <1>1, <1>5 DEF JobHolds, ServedFrom
<1> QED
  BY <1>3, <1>4, <1>6, <1>7

\* Every step of operators and jobs keeps the invariant.
THEOREM ReleaseInvStep == ReleaseInv /\ [ReleaseNext]_releaseVars => ReleaseInv'
<1> SUFFICES ASSUME ReleaseInv, [ReleaseNext]_releaseVars PROVE ReleaseInv'
  OBVIOUS
<1>1. ASSUME NEW a \in (SUBSET ScenarioIds) \ {{}}, NEW p \in {"none", "blocked", "ready"},
             NEW c \in [a -> DataStates], BuildOverlay(a, c, p)
      PROVE  ReleaseInv'
  BY <1>1, OverlayStep
<1>2. ASSUME NEW s \in {{}} \cup {{i} : i \in ScenarioIds}, NEW f \in BOOLEAN,
             RunActivationPlan(s, f)
      PROVE  ReleaseInv'
  <2>1. s \in SUBSET ScenarioIds
    OBVIOUS
  <2> QED
    BY <1>2, <2>1, PlanStep
<1>3. ASSUME NEW s \in ScenarioIds, NEW i \in BOOLEAN, NEW p \in BOOLEAN, Rebuild(s, i, p)
      PROVE  ReleaseInv'
  BY <1>3, RebuildStep
<1>4. CASE EndOfJob
  BY <1>4, EndStep
<1>5. CASE JobDies
  BY <1>5, DeathStep
<1>6. ASSUME NEW c \in BOOLEAN, RebuildScenarios(ScenarioIds, c)
      PROVE  ReleaseInv'
  BY <1>6, BatchStep DEF RebuildScenarios
<1>7. ASSUME NEW s \in ScenarioIds, NEW a \in BOOLEAN, RebuildOne(s, a)
      PROVE  ReleaseInv'
  BY <1>7, BatchStep DEF RebuildOne
<1>8. ASSUME NEW s \in ScenarioIds, NEW n \in 1..MaxReleases, Rollback(s, n)
      PROVE  ReleaseInv'
  BY <1>8, RollbackStep
<1>9. CASE UNCHANGED releaseVars
  BY <1>9 DEF releaseVars, ReleaseInv, ReleaseTypeOK, ReleasedWereGated, FailureEndsJob,
              ReportHolds, JobHolds, ServedFrom
<1> QED
  BY <1>1, <1>2, <1>3, <1>4, <1>5, <1>6, <1>7, <1>8, <1>9 DEF ReleaseNext

-----------------------------------------------------------------------------
\* What follows.

\* The state of every release is of its type.
THEOREM ReleaseIsTyped == ReleaseSpec => []ReleaseTypeOK
<1>1. ReleaseInv => ReleaseTypeOK
  BY DEF ReleaseInv
<1> QED
  BY <1>1, ReleaseInvInit, ReleaseInvStep, PTL DEF ReleaseSpec

\* Only versions that have passed the quality gate are ever active, in any number of
\* scenarios and whoever rebuilds and rolls back what.
THEOREM ActiveVersionsWereGated == ReleaseSpec => []ActiveWasGated
<1>1. ReleaseInv => ActiveWasGated
  BY DEF ReleaseInv, ReleaseTypeOK, ReleasedWereGated, ActiveWasGated
<1> QED
  BY <1>1, ReleaseInvInit, ReleaseInvStep, PTL DEF ReleaseSpec

\* A job that is not to go on stops at its first failure.
THEOREM JobsStopAtFailure == ReleaseSpec => []OnlyTheLastFails
<1>1. ReleaseInv => OnlyTheLastFails
  <2> SUFFICES ASSUME ReleaseInv, job # None, ~job.goOn,
                      NEW n \in 1..(Len(job.results) - 1)
               PROVE  job.results[n]
    BY DEF OnlyTheLastFails
  <2>1. Len(job.results) \in Nat
    BY JobFields, LenProperties DEF ReleaseInv, ReleaseTypeOK
  <2>2. n \in 1..Len(job.results) /\ n # Len(job.results)
    BY <2>1
  <2> QED
    BY <2>2 DEF ReleaseInv, FailureEndsJob
<1> QED
  BY <1>1, ReleaseInvInit, ReleaseInvStep, PTL DEF ReleaseSpec

\* What a run would skip is served from the data it would have rebuilt it from.
THEOREM SkippingIsSound == ReleaseSpec => []SkipIsJustified
<1>1. ReleaseInv => SkipIsJustified
  <2> SUFFICES ASSUME ReleaseInv, job = None, NEW selected \in SUBSET ScenarioIds,
                      MatchingPreviousReport(ActivationSignatures(SelectedPlanItems(selected))),
                      NEW s \in DOMAIN ActivationSignatures(SelectedPlanItems(selected))
                                 \ disturbed
               PROVE  /\ live[s] # 0
                      /\ released[s][live[s]].data
                           = ActivationSignatures(SelectedPlanItems(selected))[s]
    BY DEF SkipIsJustified
  <2>1. report # None /\ s \in DOMAIN report
    BY DEF MatchingPreviousReport
  <2>2. report[s] = ActivationSignatures(SelectedPlanItems(selected))[s]
    BY DEF MatchingPreviousReport
  <2> QED
    BY <2>1, <2>2 DEF ReleaseInv, ReportHolds, ServedFrom
<1> QED
  BY <1>1, ReleaseInvInit, ReleaseInvStep, PTL DEF ReleaseSpec

\* Together: releases are gated, stop at their first failure and skip only what is served.
THEOREM ReleasesAreSound == ReleaseSpec => []ReleasesAreGated
<1>1. ReleaseTypeOK /\ ActiveWasGated /\ OnlyTheLastFails /\ SkipIsJustified => ReleasesAreGated
  BY DEF ReleasesAreGated
<1> QED
  BY <1>1, ReleaseIsTyped, ActiveVersionsWereGated, JobsStopAtFailure, SkippingIsSound, PTL

-----------------------------------------------------------------------------
(* The quality cycle, for any set of scheduled processes and any age from  *)
(* which a lock counts as stale.                                           *)
(*                                                                         *)
(* While nobody has taken a lock for stale, whoever is at work owns the    *)
(* file: only its owner removes it.  And a cycle that is alone finds at    *)
(* every path it reads what one of its own earlier steps has left there.   *)

\* Whoever is at work holds the lock, and nobody is about to remove it.
OwnerHolds ==
    ~distrusted =>
        /\ \A p \in Cycles : cyclePhase[p] # "stale"
        /\ \A p \in Cycles : Working(p) => lock # None /\ lock.by = p
        /\ together = {}

LockInv == CycleTypeOK /\ OwnerHolds

-----------------------------------------------------------------------------

\* What the steps write and read, step by step.
LEMMA StepsAre ==
    /\ Len(Steps) = 7
    /\ \A i \in 1..7 : /\ Steps[i].writes \subseteq ReportFiles
                       /\ Steps[i].reads \subseteq ReportFiles
    /\ \A i \in 1..7 : \A f \in Steps[i].reads :
          \E j \in 1..7 : j < i /\ f \in Steps[j].writes
    /\ Steps[1].reads = {} /\ Steps[2].reads # {}
<1>1. /\ Len(Steps) = 7 /\ DOMAIN Steps = 1..7
      /\ Steps[1].writes = {"evaluation"} /\ Steps[1].reads = {}
      /\ Steps[2].writes = {} /\ Steps[2].reads = {"evaluation"}
      /\ Steps[3].writes = {"intent"} /\ Steps[3].reads = {}
      /\ Steps[4].writes = {"thresholds"} /\ Steps[4].reads = {}
      /\ Steps[5].writes = {} /\ Steps[5].reads = {"evaluation", "intent", "thresholds"}
      /\ Steps[6].writes = {} /\ Steps[6].reads = {"evaluation"}
      /\ Steps[7].writes = {} /\ Steps[7].reads = {}
  BY DEF Steps
<1>2. ReportFiles = {"evaluation", "intent", "thresholds"}
  <2>1. \A f : f \in ReportFiles <=> \E i \in 1..7 : f \in Steps[i].writes
    BY <1>1 DEF ReportFiles
  <2>2. \A i \in 1..7 : i = 1 \/ i = 2 \/ i = 3 \/ i = 4 \/ i = 5 \/ i = 6 \/ i = 7
    OBVIOUS
  <2> QED
    BY <1>1, <2>1, <2>2
<1>3. \A i \in 1..7 : i = 1 \/ i = 2 \/ i = 3 \/ i = 4 \/ i = 5 \/ i = 6 \/ i = 7
  OBVIOUS
<1>4. \A i \in 1..7 : Steps[i].writes \subseteq ReportFiles /\ Steps[i].reads \subseteq ReportFiles
  BY <1>1, <1>2, <1>3
<1>5. \A i \in 1..7 : \A f \in Steps[i].reads : \E j \in 1..7 : j < i /\ f \in Steps[j].writes
  BY <1>1, <1>3
<1> QED
  BY <1>1, <1>4, <1>5

\* The invariant of the lock holds initially ...
THEOREM LockInvInit == CycleInit => LockInv
<1> SUFFICES ASSUME CycleInit PROVE LockInv
  OBVIOUS
<1>1. CycleTypeOK
  <2> USE CycleAssumption DEF CycleInit
  <2>1. clock \in 0..MaxClock /\ lock = None /\ cyclePhase \in [Cycles -> Phases]
    BY DEF Phases
  <2>2. position \in [Cycles -> 1..(Len(Steps) + 1)]
    BY StepsAre
  <2>3. \A p \in Cycles : cyclePhase[p] = "out"
    OBVIOUS
  <2>4. passed \in [Cycles -> BOOLEAN] /\ distrusted \in BOOLEAN
    OBVIOUS
  <2>5. reportsBy \in [ReportFiles -> Cycles \cup {None}]
    OBVIOUS
  <2>6. used \in [Cycles -> SUBSET Cycles] /\ together \subseteq Cycles
    OBVIOUS
  <2> QED
    BY <2>1, <2>2, <2>3, <2>4, <2>5, <2>6 DEF CycleTypeOK
<1>2. OwnerHolds
  BY DEF CycleInit, OwnerHolds, Working
<1> QED
  BY <1>1, <1>2 DEF LockInv

\* ... and is kept by every step of starters and cycles.
THEOREM LockInvStep == LockInv /\ [CycleNext]_cycleVars => LockInv'
<1> SUFFICES ASSUME LockInv, [CycleNext]_cycleVars PROVE LockInv'
  OBVIOUS
<1> USE StepsAre, CycleAssumption DEF LockInv, CycleTypeOK, Phases
<1>1. ASSUME NEW p \in Cycles, Look(p) PROVE LockInv'
  BY <1>1 DEF Look, Goes, OwnerHolds, Working
<1>2. ASSUME NEW p \in Cycles, Age(p) PROVE LockInv'
  <2> DEFINE old  == lock # None /\ clock - lock.at >= LockStale
             next == IF lock = None THEN "died"
                     ELSE IF clock - lock.at < LockStale THEN "refused" ELSE "stale"
  <2>1. /\ cyclePhase[p] = "exists" /\ cyclePhase' = [cyclePhase EXCEPT ![p] = next]
        /\ UNCHANGED <<clock, lock, position, passed, reportsBy, used, together>>
    BY <1>2 DEF Age, Goes
  <2>2. distrusted' = (distrusted \/ old)
    BY <1>2 DEF Age
  <2>3. next \in {"died", "refused", "stale"}
    OBVIOUS
  <2>4. next = "stale" => old
    <3>1. lock # None => lock.at \in Int /\ clock \in Int
      OBVIOUS
    <3> QED
      BY <3>1
  <2> HIDE DEF old, next
  <2>5. distrusted' \in BOOLEAN
    BY <2>2
  <2>6. CycleTypeOK'
    BY <2>1, <2>3, <2>5
  <2>7. OwnerHolds'
    BY <2>1, <2>2, <2>3, <2>4 DEF OwnerHolds, Working
  <2> QED
    BY <2>6, <2>7
<1>3. ASSUME NEW p \in Cycles, Unlink(p) PROVE LockInv'
  BY <1>3 DEF Unlink, Goes, OwnerHolds, Working
<1>4. ASSUME NEW p \in Cycles, Create(p) PROVE LockInv'
  <2>1. CASE lock # None
    BY <1>4, <2>1 DEF Create, Goes, OwnerHolds, Working
  <2>2. CASE lock = None
    <3>1. /\ cyclePhase' = [cyclePhase EXCEPT ![p] = "work"]
          /\ lock' = [at |-> clock, by |-> p] /\ lock' # None
          /\ UNCHANGED <<clock, position, passed, reportsBy, used, distrusted>>
      BY <1>4, <2>2 DEF Create, Begin, Goes
    <3>2. together' \subseteq Cycles /\ (~distrusted => together' = {})
      BY <1>4, <2>2 DEF Create, Begin, OwnerHolds
    <3>3. CycleTypeOK'
      BY <3>1, <3>2, <1>4 DEF Create
    <3>4. OwnerHolds'
      BY <3>1, <3>2, <2>2 DEF OwnerHolds, Working
    <3> QED
      BY <3>3, <3>4
  <2> QED
    BY <2>1, <2>2
<1>5. ASSUME NEW p \in Cycles, Exit(p) PROVE LockInv'
  BY <1>5 DEF Exit, Goes, OwnerHolds, Working
<1>6. ASSUME NEW p \in Cycles, Report(p) PROVE LockInv'
  BY <1>6 DEF Report, Goes, OwnerHolds, Working
<1>7. ASSUME NEW p \in Cycles, Killed(p) PROVE LockInv'
  BY <1>7 DEF Killed, Goes, OwnerHolds, Working
<1>8. ASSUME NEW p \in Cycles, NEW g \in BOOLEAN, NEW w \in BOOLEAN, RunStep(p, g, w)
      PROVE  LockInv'
  <2>1. position[p] \in 1..7 /\ Steps[position[p]].reads \subseteq ReportFiles
    BY <1>8 DEF RunStep
  <2>2. used' \in [Cycles -> SUBSET Cycles]
    BY <1>8, <2>1 DEF RunStep
  <2>3. reportsBy' \in [ReportFiles -> Cycles \cup {None}]
    BY <1>8 DEF RunStep
  <2>4. passed' \in [Cycles -> BOOLEAN] /\ position' \in [Cycles -> 1..(Len(Steps) + 1)]
    BY <1>8, <2>1 DEF RunStep
  <2>5. \A q \in Cycles : cyclePhase'[q] \in {"exit", "ok", "failed"}
                             => position'[q] = Len(Steps) + 1
    BY <1>8 DEF RunStep
  <2>6. OwnerHolds'
    BY <1>8 DEF RunStep, OwnerHolds, Working
  <2> QED
    BY <1>8, <2>2, <2>3, <2>4, <2>5, <2>6 DEF RunStep
<1>9. CASE Passes
  BY <1>9 DEF Passes, OwnerHolds, Working
<1>10. CASE UNCHANGED cycleVars
  BY <1>10 DEF cycleVars, OwnerHolds, Working
<1> QED
  BY <1>1, <1>2, <1>3, <1>4, <1>5, <1>6, <1>7, <1>8, <1>9, <1>10 DEF CycleNext

\* The lock of scheduled cycles excludes unless it has expired.
THEOREM LockExcludes == CycleSpec => []TogetherOnlyAfterStale
<1>1. LockInv => TogetherOnlyAfterStale
  BY DEF LockInv, OwnerHolds, TogetherOnlyAfterStale
<1> QED
  BY <1>1, LockInvInit, LockInvStep, PTL DEF CycleSpec

-----------------------------------------------------------------------------
\* What a cycle that is alone, and has not failed so far, finds and has read.
OwnSoFar(p) ==
    /\ \A i \in 1..7 : i < position[p] => \A f \in Steps[i].writes : reportsBy[f] = p
    /\ used[p] \subseteq {p}
    /\ position[p] > 2 => p \in used[p]

OwnReports ==
    \A p \in Cycles :
        /\ cyclePhase[p] \in {"out", "exists", "stale", "create"} =>
              position[p] = 1 /\ used[p] = {}
        /\ Working(p) /\ passed[p] /\ p \notin together => OwnSoFar(p)
        /\ cyclePhase[p] = "ok" /\ passed[p] /\ p \notin together => used[p] = {p}

\* Two at work are together.
TogetherIsSeen ==
    \A p, q \in Cycles : Working(p) /\ Working(q) /\ p # q => p \in together

OwnInv == LockInv /\ TogetherIsSeen /\ OwnReports

\* The invariant of the reports holds initially ...
THEOREM OwnInvInit == CycleInit => OwnInv
<1> SUFFICES ASSUME CycleInit PROVE OwnInv
  OBVIOUS
<1>1. LockInv
  BY LockInvInit
<1>2. TogetherIsSeen /\ OwnReports
  BY DEF CycleInit, TogetherIsSeen, OwnReports, Working
<1> QED
  BY <1>1, <1>2 DEF OwnInv

\* A step that succeeds leaves its report and has read what the cycle itself has left.
LEMMA OwnOfRun ==
    ASSUME OwnInv, NEW p \in Cycles, NEW g \in BOOLEAN, NEW w \in BOOLEAN, RunStep(p, g, w)
    PROVE  OwnReports'
<1> DEFINE i == position[p]
           here == {f \in Steps[i].reads : reportsBy[f] # None}
<1>t. CycleTypeOK
  BY DEF OwnInv, LockInv
<1>1. /\ cyclePhase[p] = "work" /\ i \in 1..7
      /\ g => w
      /\ g => here = Steps[i].reads \/ Steps[i].name \in Optional
      /\ used' = [used EXCEPT ![p] = @ \cup {reportsBy[f] : f \in here}]
      /\ reportsBy' = [f \in ReportFiles |->
                          IF w /\ f \in Steps[i].writes THEN p ELSE reportsBy[f]]
      /\ UNCHANGED <<cyclePhase, together>>
  BY <1>t, StepsAre DEF RunStep, CycleTypeOK
<1>2. /\ position'[p] = i + 1 /\ used'[p] = used[p] \cup {reportsBy[f] : f \in here}
      /\ \A q \in Cycles \ {p} : /\ position'[q] = position[q] /\ used'[q] = used[q]
                                 /\ passed'[q] = passed[q]
  BY <1>1, <1>t DEF RunStep, CycleTypeOK
<1>3. passed'[p] => passed[p] /\ g
  BY <1>t DEF RunStep, CycleTypeOK
<1>4. ASSUME passed'[p], p \notin together PROVE OwnSoFar(p)'
  <2>1. OwnSoFar(p) /\ w
    BY <1>1, <1>3, <1>4 DEF OwnInv, OwnReports, Working
  <2>2. \A j \in 1..7 : j < i + 1 => \A f \in Steps[j].writes : reportsBy'[f] = p
    BY <2>1, <1>1, StepsAre DEF OwnSoFar
  <2>3. \A f \in Steps[i].reads : reportsBy[f] = p
    BY <2>1, <1>1, StepsAre DEF OwnSoFar
  <2>4. used'[p] \subseteq {p}
    BY <2>1, <2>3, <1>2 DEF OwnSoFar
  <2>5. i + 1 > 2 => p \in used'[p]
    <3>1. CASE i > 2
      BY <3>1, <2>1, <1>2 DEF OwnSoFar
    <3>2. CASE i = 2
      <4>1. PICK f \in Steps[2].reads : TRUE
        BY StepsAre
      <4>2. f \in here /\ reportsBy[f] = p
        BY <4>1, <2>3, <3>2, CycleAssumption
      <4> QED
        BY <4>2, <1>2
    <3> QED
      BY <3>1, <3>2, <1>1
  <2> QED
    BY <2>2, <2>4, <2>5, <1>1, <1>2 DEF OwnSoFar
<1>5. ASSUME NEW q \in Cycles, q # p, Working(q), passed[q], q \notin together
      PROVE  OwnSoFar(q)'
  BY <1>1, <1>5 DEF OwnInv, TogetherIsSeen, Working
<1>6. ASSUME NEW q \in Cycles
      PROVE  /\ cyclePhase'[q] \in {"out", "exists", "stale", "create"} =>
                   position'[q] = 1 /\ used'[q] = {}
             /\ Working(q)' /\ passed'[q] /\ q \notin together' => OwnSoFar(q)'
             /\ cyclePhase'[q] = "ok" /\ passed'[q] /\ q \notin together' => used'[q] = {q}
  <2>1. CASE q = p
    BY <2>1, <1>1, <1>4 DEF Working
  <2>2. CASE q # p
    BY <2>2, <1>1, <1>2, <1>5 DEF OwnInv, OwnReports, Working
  <2> QED
    BY <2>1, <2>2
<1> QED
  BY <1>6 DEF OwnReports

\* ... and is kept by every step.
THEOREM OwnInvStep == OwnInv /\ [CycleNext]_cycleVars => OwnInv'
<1> SUFFICES ASSUME OwnInv, [CycleNext]_cycleVars PROVE OwnInv'
  OBVIOUS
<1>0. LockInv' /\ CycleTypeOK
  BY LockInvStep DEF OwnInv, LockInv
<1> USE DEF Working
<1>1. ASSUME NEW p \in Cycles, NEW next \in {"died", "refused", "stale", "create", "exists"},
             cyclePhase' = [cyclePhase EXCEPT ![p] = next],
             next \in {"died", "refused"} \/ cyclePhase[p] \in {"out", "exists", "stale"},
             UNCHANGED <<position, passed, reportsBy, used, together>>
      PROVE  TogetherIsSeen' /\ OwnReports'
  <2>1. \A q \in Cycles : cyclePhase'[q] = IF q = p THEN next ELSE cyclePhase[q]
    BY <1>0, <1>1 DEF CycleTypeOK
  <2> QED
    BY <2>1, <1>1 DEF OwnInv, TogetherIsSeen, OwnReports, OwnSoFar
<1>2. ASSUME NEW p \in Cycles, Create(p), lock = None PROVE TogetherIsSeen' /\ OwnReports'
  <2> DEFINE others == {q \in Cycles : Working(q)}
  <2>1. /\ cyclePhase[p] = "create"
        /\ together' = together \cup (IF others = {} THEN {} ELSE others \cup {p})
        /\ UNCHANGED <<position, passed, reportsBy, used>>
        /\ \A q \in Cycles : cyclePhase'[q] = IF q = p THEN "work" ELSE cyclePhase[q]
    BY <1>0, <1>2 DEF CycleTypeOK, Create, Begin, Goes
  <2>2. TogetherIsSeen'
    BY <2>1 DEF OwnInv, TogetherIsSeen
  <2>3. position[p] = 1 /\ used[p] = {}
    BY <2>1 DEF OwnInv, OwnReports
  <2>4. OwnSoFar(p)'
    BY <2>1, <2>3 DEF OwnSoFar
  <2>5. OwnReports'
    BY <2>1, <2>3, <2>4 DEF OwnInv, OwnReports, OwnSoFar
  <2> QED
    BY <2>2, <2>5
<1>3. ASSUME NEW p \in Cycles, Exit(p) PROVE TogetherIsSeen' /\ OwnReports'
  <2>1. /\ cyclePhase[p] = "exit" /\ position[p] = 8
        /\ UNCHANGED <<position, passed, reportsBy, used, together>>
        /\ \A q \in Cycles : cyclePhase'[q] = IF q = p THEN IF passed[p] THEN "ok" ELSE "failed"
                                              ELSE cyclePhase[q]
    BY <1>0, <1>3, StepsAre DEF CycleTypeOK, Exit, Goes
  <2>2. TogetherIsSeen'
    BY <2>1 DEF OwnInv, TogetherIsSeen
  <2>3. passed[p] /\ p \notin together => used[p] = {p}
    BY <2>1 DEF OwnInv, OwnReports, OwnSoFar
  <2>4. OwnReports'
    BY <2>1, <2>3 DEF OwnInv, OwnReports, OwnSoFar
  <2> QED
    BY <2>2, <2>4
<1>4. ASSUME NEW p \in Cycles, Report(p) PROVE TogetherIsSeen' /\ OwnReports'
  <2>1. /\ cyclePhase[p] = "work" /\ UNCHANGED <<position, passed, reportsBy, used, together>>
        /\ \A q \in Cycles : cyclePhase'[q] = IF q = p THEN "exit" ELSE cyclePhase[q]
    BY <1>0, <1>4 DEF CycleTypeOK, Report, Goes
  <2> QED
    BY <2>1 DEF OwnInv, TogetherIsSeen, OwnReports, OwnSoFar
<1>5. ASSUME NEW p \in Cycles, NEW g \in BOOLEAN, NEW w \in BOOLEAN, RunStep(p, g, w)
      PROVE  TogetherIsSeen' /\ OwnReports'
  <2>1. TogetherIsSeen'
    BY <1>5 DEF RunStep, OwnInv, TogetherIsSeen
  <2> QED
    BY <2>1, <1>5, OwnOfRun
<1>6. CASE Passes \/ UNCHANGED cycleVars
  <2>1. UNCHANGED <<cyclePhase, position, passed, reportsBy, used, together>>
    BY <1>6 DEF Passes, cycleVars
  <2>2. TogetherIsSeen' /\ OwnReports'
    BY <2>1 DEF OwnInv, TogetherIsSeen, OwnReports, OwnSoFar
  <2> QED
    BY <2>2, <1>0 DEF OwnInv
<1>7. ASSUME NEW p \in Cycles, Look(p) PROVE TogetherIsSeen' /\ OwnReports'
  BY <1>1, <1>7 DEF Look, Goes
<1>8. ASSUME NEW p \in Cycles, Age(p) PROVE TogetherIsSeen' /\ OwnReports'
  <2> DEFINE next == IF lock = None THEN "died"
                     ELSE IF clock - lock.at < LockStale THEN "refused" ELSE "stale"
  <2>1. next \in {"died", "refused", "stale", "create", "exists"}
    OBVIOUS
  <2>2. /\ cyclePhase[p] = "exists" /\ cyclePhase' = [cyclePhase EXCEPT ![p] = next]
        /\ UNCHANGED <<position, passed, reportsBy, used, together>>
    BY <1>8 DEF Age, Goes
  <2> HIDE DEF next
  <2> QED
    BY <2>1, <2>2, <1>1
<1>9. ASSUME NEW p \in Cycles, Unlink(p) PROVE TogetherIsSeen' /\ OwnReports'
  BY <1>1, <1>9 DEF Unlink, Goes
<1>10. ASSUME NEW p \in Cycles, Create(p), lock # None PROVE TogetherIsSeen' /\ OwnReports'
  BY <1>1, <1>10 DEF Create, Goes
<1>11. ASSUME NEW p \in Cycles, Killed(p) PROVE TogetherIsSeen' /\ OwnReports'
  BY <1>1, <1>11 DEF Killed, Goes
<1> QED
  BY <1>0, <1>2, <1>3, <1>4, <1>5, <1>6, <1>7, <1>8, <1>9, <1>10, <1>11 DEF CycleNext, OwnInv

\* A cycle that reports ok and had no other beside it has used its own reports only, although
\* the files of earlier cycles lie where it reads.
THEOREM OkCycleUsedItsOwn == CycleSpec => []OkMeansOwnReports
<1>1. OwnInv => OkMeansOwnReports
  <2> SUFFICES ASSUME OwnInv, NEW p \in Cycles, cyclePhase[p] \in {"exit", "ok"}, passed[p],
                      p \notin together
               PROVE  used[p] = {p}
    BY DEF OkMeansOwnReports
  <2>1. CASE cyclePhase[p] = "ok"
    BY <2>1 DEF OwnInv, OwnReports
  <2>2. CASE cyclePhase[p] = "exit"
    BY <2>2, StepsAre DEF OwnInv, OwnReports, OwnSoFar, Working, LockInv, CycleTypeOK
  <2> QED
    BY <2>1, <2>2
<1> QED
  BY <1>1, OwnInvInit, OwnInvStep, PTL DEF CycleSpec

\* Together: cycles keep apart, however many are started and whichever of them die.
THEOREM CyclesAreKeptApart == CycleSpec => []CyclesKeepApart
<1>1. LockInv => CycleTypeOK
  BY DEF LockInv
<1>2. CycleTypeOK /\ TogetherOnlyAfterStale /\ OkMeansOwnReports => CyclesKeepApart
  BY DEF CyclesKeepApart
<1> QED
  BY <1>1, <1>2, LockExcludes, OkCycleUsedItsOwn, LockInvInit, LockInvStep, PTL DEF CycleSpec

-----------------------------------------------------------------------------
(* The contract page, for any contracts and any number of calls.           *)
(*                                                                         *)
(* As long as no call has been made while another was under way, there is  *)
(* one call at most, it is about the selected contract, and only the call  *)
(* that loads a contract can find another one on the screen.               *)

SomeContract == Contracts \cup {None}

Kinds   == {"list", "detail", "status", "event", "analyze", "upload"}
Asks    == [kind : Kinds, on : SomeContract, after : {"none", "upload", "reanalyze"}]
Calls   == [id : Nat, kind : Kinds, on : SomeContract, after : {"none", "upload", "reanalyze"},
            shown : SomeContract, result : {"none", "ok", "error"}, rows : SUBSET Contracts]
Pages   == [items : SUBSET Contracts, selected : SomeContract, detail : SomeContract,
            session : SomeContract, send : BOOLEAN, upload : BOOLEAN, reanalyze : BOOLEAN]
Sockets == [on : Contracts, sent : SomeContract, with : SomeContract,
            phase : {"connecting", "open", "closing", "closed"}, finished : BOOLEAN]

PageTyped ==
    /\ page \in Pages /\ stored \subseteq Contracts
    /\ calls \subseteq Calls /\ made \in Nat
    /\ sockets \in Seq(Sockets) /\ overlapped \in BOOLEAN

\* What the server writes for has a contract.
WritesHaveAContract ==
    \A c \in calls : c.kind \in {"status", "event", "analyze"} => c.on # None

\* The user waits: one call at most, about what is selected.
OneCallAtATime ==
    ~overlapped =>
        /\ \A c, d \in calls : c = d
        /\ \A c \in calls : c.kind \notin {"list", "upload"} => c.on = page.selected
        /\ page.detail \in {page.selected, None} \/ \E c \in calls : c.kind = "detail"

CallsInv   == WritesHaveAContract /\ DecisionHitsWhatWasShown /\ OneCallAtATime
SocketsInv == SessionOfContract /\ QuestionsEnd
PageInv    == PageTyped /\ CallsInv /\ SocketsInv

\* What calls are and bring.
LEMMA CallFields ==
    ASSUME NEW c \in Calls
    PROVE  /\ c.kind \in Kinds /\ c.on \in SomeContract /\ c.shown \in SomeContract
           /\ c.rows \subseteq Contracts /\ c.after \in {"none", "upload", "reanalyze"}
BY DEF Calls

\* What the page has.
LEMMA PageFields ==
    ASSUME NEW p \in Pages
    PROVE  /\ p.selected \in SomeContract /\ p.detail \in SomeContract /\ p.session \in SomeContract
           /\ p.send \in BOOLEAN /\ p.items \subseteq Contracts
BY DEF Pages

\* What an asynchronous call leaves under way.
LEMMA RequestsAre ==
    ASSUME PageTyped, NEW new \in Seq(Asks), NEW others \in SUBSET Calls, Requests(new, others)
    PROVE  /\ calls' \subseteq Calls /\ made' \in Nat /\ overlapped' \in BOOLEAN
           /\ \A c \in calls' : \/ c \in others
                                \/ \E i \in 1 .. Len(new) : c.kind = new[i].kind /\ c.on = new[i].on
           /\ ~overlapped' => ~overlapped /\ others = {} /\ Len(new) <= 1
           /\ ~overlapped' => \A c, d \in calls' : c = d
           /\ others = {} /\ Len(new) = 1 => \E c \in calls' : c.kind = new[1].kind
<1> DEFINE Made(i) == NewCall(made + i, new[i].kind, new[i].on, new[i].after, page.detail)
<1>1. /\ calls' = others \cup {Made(i) : i \in 1 .. Len(new)}
      /\ made' = made + Len(new)
      /\ overlapped' = (overlapped \/ others # {} \/ Len(new) > 1)
      /\ Len(new) \in Nat /\ made \in Nat /\ page.detail \in SomeContract
  BY DEF Requests, PageTyped, Pages
<1>2. \A i \in 1 .. Len(new) : Made(i) \in Calls /\ Made(i).kind = new[i].kind
                               /\ Made(i).on = new[i].on
  <2> SUFFICES ASSUME NEW i \in 1 .. Len(new)
               PROVE  Made(i) \in Calls /\ Made(i).kind = new[i].kind /\ Made(i).on = new[i].on
    OBVIOUS
  <2>1. new[i] \in Asks /\ made + i \in Nat
    BY <1>1
  <2> QED
    BY <1>1, <2>1 DEF NewCall, Asks, Calls, Kinds
<1>0. \A c \in calls' : c \in others \/ \E i \in 1 .. Len(new) : c = Made(i)
  BY <1>1
<1>6. \A c \in calls' : \/ c \in others
                      \/ \E i \in 1 .. Len(new) : c.kind = new[i].kind /\ c.on = new[i].on
  BY <1>0, <1>2
<1>7. calls' \subseteq Calls /\ made' \in Nat /\ overlapped' \in BOOLEAN
  BY <1>0, <1>1, <1>2 DEF PageTyped
<1>8. ~overlapped' => ~overlapped /\ others = {} /\ Len(new) <= 1
  <2>1. overlapped' = (overlapped \/ others # {} \/ Len(new) > 1)
    BY <1>1
  <2>2. ~overlapped' => ~(overlapped \/ others # {} \/ Len(new) > 1)
    BY <2>1, Zenon
  <2> QED
    BY <1>1, <2>2
<1>3. ~overlapped' => \A c, d \in calls' : c = d
  <2> SUFFICES ASSUME ~overlapped', NEW c \in calls', NEW d \in calls' PROVE c = d
    OBVIOUS
  <2>1. others = {} /\ Len(new) <= 1
    BY <1>8
  <2>2. PICK i \in 1 .. Len(new), j \in 1 .. Len(new) : c = Made(i) /\ d = Made(j)
    <3> HIDE DEF Made
    <3> QED
      BY <1>0, <2>1
  <2>3. i = j
    BY <1>1, <2>1
  <2> QED
    BY <2>2, <2>3
<1>4. others = {} /\ Len(new) = 1 => \E c \in calls' : c.kind = new[1].kind
  <2> SUFFICES ASSUME others = {}, Len(new) = 1 PROVE \E c \in calls' : c.kind = new[1].kind
    OBVIOUS
  <2>1. 1 \in 1 .. Len(new)
    OBVIOUS
  <2>2. Made(1) \in calls' /\ Made(1).kind = new[1].kind
    BY <1>1, <1>2, <2>1
  <2> QED
    BY <2>2
<1> QED
  BY <1>3, <1>4, <1>6, <1>7, <1>8

\* One call is made.
LEMMA RequestIs ==
    ASSUME PageTyped, NEW kind \in Kinds, NEW on \in SomeContract,
           NEW after \in {"none", "upload", "reanalyze"}, NEW others \in SUBSET Calls,
           Requests(<<Asked(kind, on, after)>>, others)
    PROVE  /\ calls' \subseteq Calls /\ made' \in Nat /\ overlapped' \in BOOLEAN
           /\ \A c \in calls' : c \in others \/ (c.kind = kind /\ c.on = on)
           /\ ~overlapped' => /\ ~overlapped /\ others = {}
                              /\ \A c, d \in calls' : c = d
                              /\ \E c \in calls' : c.kind = kind /\ c.on = on
<1> DEFINE a == Asked(kind, on, after)
           new == <<a>>
<1>1. a \in Asks /\ a.kind = kind /\ a.on = on
  BY DEF Asked, Asks
<1> HIDE DEF a
<1>2. new \in Seq(Asks) /\ Len(new) = 1 /\ new[1] = a
  BY <1>1
<1>3. Requests(new, others)
  BY DEF a
<1> HIDE DEF new
<1>4. \A i \in 1 .. Len(new) : new[i] = a
  BY <1>2
<1> QED
  BY <1>1, <1>2, <1>3, <1>4, RequestsAre

\* The questions are left alone.
LEMMA SocketsKept ==
    ASSUME SocketsInv, UNCHANGED sockets, page'.send = page.send
    PROVE  SocketsInv'
BY DEF SocketsInv, SessionOfContract, QuestionsEnd

LEMMA PageInitInv == PageInit => PageInv
<1> SUFFICES ASSUME PageInit PROVE PageInv
  OBVIOUS
<1>1. NewCall(1, "list", None, "none", None) \in Calls
      /\ NewCall(1, "list", None, "none", None).kind = "list"
  BY DEF NewCall, Calls, Kinds, SomeContract
<1>2. PageTyped
  <2>1. page \in Pages
    BY DEF PageInit, Pages, SomeContract
  <2>2. calls \subseteq Calls /\ made \in Nat /\ overlapped \in BOOLEAN /\ stored \subseteq Contracts
    BY <1>1 DEF PageInit
  <2>3. sockets \in Seq(Sockets)
    BY DEF PageInit
  <2> QED
    BY <2>1, <2>2, <2>3 DEF PageTyped
<1>3. CallsInv
  BY <1>1 DEF PageInit, CallsInv, WritesHaveAContract, DecisionHitsWhatWasShown, OneCallAtATime
<1>4. SocketsInv
  BY DEF PageInit, SocketsInv, SessionOfContract, QuestionsEnd
<1> QED
  BY <1>2, <1>3, <1>4 DEF PageInv

\* The user does something that calls the server.
LEMMA UserStep ==
    ASSUME PageInv,
           \/ \E c \in Contracts : SelectContract(c)
           \/ LoadContracts \/ ChangeStatus \/ SubmitEvent \/ Reanalyze \/ SubmitUpload
    PROVE  PageInv'
<1>1. PICK kind \in Kinds, on \in SomeContract :
        /\ Requests(<<Asked(kind, on, "none")>>, calls)
        /\ UNCHANGED <<stored, sockets, landed>>
        /\ page' \in Pages /\ page'.send = page.send /\ page'.detail = page.detail
        /\ kind # "list" /\ kind # "upload" => on # None /\ on = page'.selected
        /\ kind = "detail" \/ page'.selected = page.selected
  <2>1. page \in Pages
    BY DEF PageInv, PageTyped
  <2>2. CASE \E c \in Contracts : SelectContract(c)
    <3>1. PICK c \in Contracts : SelectContract(c)
      BY <2>2
    <3>2. /\ Requests(<<Asked("detail", c, "none")>>, calls) /\ c # None
          /\ page' = [page EXCEPT !.selected = c] /\ UNCHANGED <<stored, sockets, landed>>
      BY <3>1, PageAssumption DEF SelectContract, ShowSelection, Request
    <3>3. /\ page' \in Pages /\ page'.send = page.send /\ page'.detail = page.detail
          /\ page'.selected = c
      BY <2>1, <3>2 DEF Pages, SomeContract
    <3> QED
      BY <3>2, <3>3 DEF Kinds, SomeContract
  <2>3. CASE LoadContracts
    <3>1. Requests(<<Asked("list", None, "none")>>, calls)
          /\ UNCHANGED <<page, stored, sockets, landed>>
      BY <2>3 DEF LoadContracts, Request
    <3> QED
      BY <2>1, <3>1 DEF Kinds, SomeContract
  <2>4. CASE ChangeStatus
    <3>1. Requests(<<Asked("status", page.selected, "none")>>, calls)
          /\ page.selected # None /\ UNCHANGED <<page, stored, sockets, landed>>
      BY <2>4 DEF ChangeStatus, Request
    <3> QED
      BY <2>1, <3>1, PageFields DEF Kinds
  <2>5. CASE SubmitEvent
    <3>1. Requests(<<Asked("event", page.selected, "none")>>, calls)
          /\ page.selected # None /\ UNCHANGED <<page, stored, sockets, landed>>
      BY <2>5 DEF SubmitEvent, Request
    <3> QED
      BY <2>1, <3>1, PageFields DEF Kinds
  <2>6. CASE Reanalyze
    <3>1. Requests(<<Asked("analyze", page.selected, "none")>>, calls)
          /\ page.selected # None /\ UNCHANGED <<stored, sockets, landed>>
          /\ page' = [page EXCEPT !.reanalyze = FALSE]
      BY <2>6 DEF Reanalyze, Request
    <3>2. /\ page' \in Pages /\ page'.send = page.send /\ page'.detail = page.detail
          /\ page'.selected = page.selected
      BY <2>1, <3>1 DEF Pages
    <3> QED
      BY <2>1, <3>1, <3>2, PageFields DEF Kinds
  <2>7. CASE SubmitUpload
    <3>1. Requests(<<Asked("upload", None, "none")>>, calls) /\ UNCHANGED <<stored, sockets, landed>>
          /\ page' = [page EXCEPT !.upload = FALSE]
      BY <2>7 DEF SubmitUpload, Request
    <3>2. /\ page' \in Pages /\ page'.send = page.send /\ page'.detail = page.detail
          /\ page'.selected = page.selected
      BY <2>1, <3>1 DEF Pages
    <3> QED
      BY <3>1, <3>2 DEF Kinds, SomeContract
  <2> QED
    BY <2>2, <2>3, <2>4, <2>5, <2>6, <2>7
<1>2. PageTyped /\ calls \in SUBSET Calls
  BY DEF PageInv, PageTyped
<1>3. /\ calls' \subseteq Calls /\ made' \in Nat /\ overlapped' \in BOOLEAN
      /\ \A c \in calls' : c \in calls \/ (c.kind = kind /\ c.on = on)
      /\ ~overlapped' => /\ ~overlapped /\ calls = {}
                         /\ \A c, d \in calls' : c = d
                         /\ \E c \in calls' : c.kind = kind /\ c.on = on
  BY <1>1, <1>2, RequestIs
<1>4. PageTyped'
  BY <1>1, <1>2, <1>3 DEF PageTyped
<1>5. WritesHaveAContract' /\ DecisionHitsWhatWasShown'
  BY <1>1, <1>3 DEF PageInv, CallsInv, WritesHaveAContract, DecisionHitsWhatWasShown
<1>6. OneCallAtATime'
  BY <1>1, <1>3 DEF PageInv, CallsInv, OneCallAtATime
<1> QED
  BY <1>1, <1>4, <1>5, <1>6, SocketsKept DEF PageInv, CallsInv

\* The server answers, or does not.
LEMMA ServeStep ==
    ASSUME PageInv, NEW call \in calls, NEW fails \in BOOLEAN, NEW new \in SomeContract,
           Serve(call, fails, new)
    PROVE  PageInv'
<1> DEFINE writes  == call.kind \in {"status", "event", "analyze"}
           ok      == ~fails /\ (call.on # None => ServerAccepts(call))
           creates == call.kind = "upload" /\ ok
           served  == [call EXCEPT !.result = IF ok THEN "ok" ELSE "error",
                                   !.on = IF creates THEN new ELSE @,
                                   !.rows = IF call.kind = "list" /\ ok THEN stored ELSE {}]
           record  == [kind |-> call.kind, on |-> call.on, shown |-> call.shown]
<1>1. /\ IF creates THEN new \in Contracts \ stored ELSE new = None
      /\ stored' = IF creates THEN stored \cup {new} ELSE stored
      /\ calls' = (calls \ {call}) \cup {served}
      /\ landed' = IF ok /\ writes THEN landed \cup {record} ELSE landed
      /\ UNCHANGED <<page, made, sockets, overlapped>>
  BY DEF Serve
<1>2. PageTyped /\ CallsInv /\ SocketsInv /\ call \in Calls /\ stored \subseteq Contracts
  BY DEF PageInv, PageTyped
<1>3. served \in Calls /\ served.kind = call.kind /\ (call.kind # "upload" => served.on = call.on)
  <2>1. (IF creates THEN new ELSE call.on) \in SomeContract
    BY <1>2, CallFields
  <2>2. (IF call.kind = "list" /\ ok THEN stored ELSE {}) \in SUBSET Contracts
    BY <1>2
  <2> HIDE DEF ok
  <2>3. (IF ok THEN "ok" ELSE "error") \in {"none", "ok", "error"}
    OBVIOUS
  <2> QED
    BY <1>2, <2>1, <2>2, <2>3 DEF Calls
<1>4. ok /\ call.kind = "status" => call.on = call.shown
  BY <1>2 DEF CallsInv, WritesHaveAContract, ServerAccepts
<1> HIDE DEF served, creates
<1>5. PageTyped'
  <2>1. calls' \subseteq Calls /\ stored' \subseteq Contracts
    BY <1>1, <1>2, <1>3 DEF PageTyped
  <2> QED
    BY <1>1, <1>2, <2>1 DEF PageTyped
<1>6. WritesHaveAContract'
  BY <1>1, <1>2, <1>3 DEF CallsInv, WritesHaveAContract
<1>7. DecisionHitsWhatWasShown'
  <2>1. record.kind = call.kind /\ record.on = call.on /\ record.shown = call.shown
    OBVIOUS
  <2> HIDE DEF record, ok
  <2> QED
    BY <1>1, <1>2, <1>4, <2>1 DEF CallsInv, DecisionHitsWhatWasShown
<1>8. OneCallAtATime'
  BY <1>1, <1>2, <1>3 DEF CallsInv, OneCallAtATime
<1>9. SocketsInv'
  BY <1>1, <1>2, SocketsKept
<1> QED
  BY <1>5, <1>6, <1>7, <1>8, <1>9 DEF PageInv, CallsInv

\* The answer is there, and the page makes no further call.
LEMMA LastStep ==
    ASSUME PageInv, NEW call \in calls, calls' = Rest(call),
           page' \in Pages, page'.send \in {page.send}, page'.selected = page.selected,
           \/ page'.detail \in {call.on, None} /\ call.kind \notin {"list", "upload"}
           \/ page'.detail = page.detail /\ call.kind # "detail",
           UNCHANGED <<stored, made, sockets, landed, overlapped>>
    PROVE  PageInv'
<1>1. PageTyped /\ CallsInv /\ SocketsInv
  BY DEF PageInv
<1>2. PageTyped'
  BY <1>1 DEF PageTyped, Rest
<1>3. WritesHaveAContract' /\ DecisionHitsWhatWasShown'
  BY <1>1 DEF CallsInv, WritesHaveAContract, DecisionHitsWhatWasShown, Rest
<1>4. OneCallAtATime'
  BY <1>1 DEF CallsInv, OneCallAtATime, Rest
<1> QED
  BY <1>1, <1>2, <1>3, <1>4, SocketsKept DEF PageInv, CallsInv

\* The answer is there, and the page asks for the list.
LEMMA ThenListStep ==
    ASSUME PageInv, NEW call \in calls, NEW on \in SomeContract, NEW after \in {"upload", "reanalyze"},
           Requests(<<Asked("list", on, after)>>, Rest(call)),
           page' \in Pages, page'.send \in {page.send}, page'.selected = page.selected,
           \/ page'.detail = call.on /\ call.kind = "analyze"
           \/ page'.detail = page.detail /\ call.kind = "upload",
           UNCHANGED <<stored, sockets, landed>>
    PROVE  PageInv'
<1>1. PageTyped /\ CallsInv /\ SocketsInv
  BY DEF PageInv
<1>2. /\ calls' \subseteq Calls /\ made' \in Nat /\ overlapped' \in BOOLEAN
      /\ \A c \in calls' : c \in Rest(call) \/ (c.kind = "list" /\ c.on = on)
      /\ ~overlapped' => /\ ~overlapped /\ Rest(call) = {}
                         /\ \A c, d \in calls' : c = d
                         /\ \E c \in calls' : c.kind = "list" /\ c.on = on
  <2>1. Rest(call) \in SUBSET Calls /\ "list" \in Kinds /\ after \in {"none", "upload", "reanalyze"}
    BY <1>1 DEF PageTyped, Rest, Kinds
  <2> QED
    BY <1>1, <2>1, RequestIs
<1>3. PageTyped'
  BY <1>1, <1>2 DEF PageTyped
<1>4. WritesHaveAContract' /\ DecisionHitsWhatWasShown'
  BY <1>1, <1>2 DEF CallsInv, WritesHaveAContract, DecisionHitsWhatWasShown, Rest
<1>5. OneCallAtATime'
  BY <1>1, <1>2 DEF CallsInv, OneCallAtATime, Rest
<1> QED
  BY <1>1, <1>3, <1>4, <1>5, SocketsKept DEF PageInv, CallsInv

\* The list is there: what is selected next is loaded.
LEMMA ListArrivesStep ==
    ASSUME PageInv, NEW call \in calls, NEW first \in SomeContract, ListArrives(call, first)
    PROVE  PageInv'
<1> DEFINE initial  == IF first # None /\ page.selected = None
                         THEN <<Asked("detail", first, "none")>> ELSE <<>>
           uploaded == IF call.after = "upload"
                         THEN <<Asked("detail", call.on, "upload")>> ELSE <<>>
           chosen   == IF uploaded # <<>> THEN call.on
                       ELSE IF initial # <<>> THEN first ELSE page.selected
           new      == initial \o uploaded
<1>1. /\ call.kind = "list" /\ Requests(new, Rest(call))
      /\ page' = [page EXCEPT !.items = call.rows, !.selected = chosen,
                              !.reanalyze = @ \/ call.after = "reanalyze"]
      /\ UNCHANGED <<stored, sockets, landed>>
  BY DEF ListArrives
<1>2. PageTyped /\ CallsInv /\ SocketsInv /\ call \in Calls /\ page \in Pages
      /\ Rest(call) \in SUBSET Calls
  BY DEF PageInv, PageTyped, Rest
<1>3. /\ new \in Seq(Asks)
      /\ \A i \in 1 .. Len(new) : new[i].kind = "detail"
      /\ Len(new) = 1 => new[1].on = chosen
      /\ Len(new) = 0 => chosen = page.selected
      /\ Len(new) \in Nat
  <2> DEFINE a == Asked("detail", first, "none")
             b == Asked("detail", call.on, "upload")
  <2>1. a \in Asks /\ b \in Asks /\ a.kind = "detail" /\ b.kind = "detail"
        /\ a.on = first /\ b.on = call.on
    BY <1>2, CallFields DEF Asked, Asks, Kinds
  <2> HIDE DEF a, b
  <2>2. initial \in {<<>>, <<a>>} /\ uploaded \in {<<>>, <<b>>}
        /\ chosen = IF uploaded # <<>> THEN b.on ELSE IF initial # <<>> THEN a.on ELSE page.selected
    BY <2>1 DEF a, b
  <2> HIDE DEF initial, uploaded, chosen
  <2>3. CASE initial = <<>> /\ uploaded = <<>>
    <3>1. new = <<>>
      BY <2>3
    <3> QED
      BY <2>2, <2>3, <3>1
  <2>4. CASE initial = <<a>> /\ uploaded = <<>>
    <3>1. new = <<a>>
      BY <2>1, <2>4
    <3>2. Len(new) = 1 /\ new[1] = a /\ new \in Seq(Asks)
      BY <2>1, <3>1
    <3> QED
      BY <2>1, <2>2, <2>4, <3>2
  <2>5. CASE initial = <<>> /\ uploaded = <<b>>
    <3>1. new = <<b>>
      BY <2>1, <2>5
    <3>2. Len(new) = 1 /\ new[1] = b /\ new \in Seq(Asks)
      BY <2>1, <3>1
    <3> QED
      BY <2>1, <2>2, <2>5, <3>2
  <2>6. CASE initial = <<a>> /\ uploaded = <<b>>
    <3>1. <<a>> \in Seq(Asks) /\ <<b>> \in Seq(Asks) /\ Len(<<a>>) = 1 /\ Len(<<b>>) = 1
      BY <2>1
    <3>2. Len(new) = 2 /\ new \in Seq(Asks)
      BY <2>6, <3>1, ConcatProperties
    <3>3. new[1] = a /\ new[2] = b
      BY <2>6, <3>1, ConcatProperties
    <3> QED
      BY <2>1, <3>2, <3>3
  <2> QED
    BY <2>2, <2>3, <2>4, <2>5, <2>6
<1>4. chosen \in SomeContract
  BY <1>2, CallFields, PageFields
<1> HIDE DEF initial, uploaded, new, chosen
<1>5. /\ page' \in Pages /\ page'.selected = chosen /\ page'.detail = page.detail
      /\ page'.send = page.send
  <2>1. (page.reanalyze \/ call.after = "reanalyze") \in BOOLEAN /\ call.rows \in SUBSET Contracts
    BY <1>2, CallFields
  <2> QED
    BY <1>1, <1>2, <1>4, <2>1 DEF Pages
<1>6. /\ calls' \subseteq Calls /\ made' \in Nat /\ overlapped' \in BOOLEAN
      /\ \A c \in calls' : \/ c \in Rest(call)
                           \/ \E i \in 1 .. Len(new) : c.kind = new[i].kind /\ c.on = new[i].on
      /\ ~overlapped' => ~overlapped /\ Rest(call) = {} /\ Len(new) <= 1
      /\ ~overlapped' => \A c, d \in calls' : c = d
      /\ Rest(call) = {} /\ Len(new) = 1 => \E c \in calls' : c.kind = new[1].kind
  BY <1>1, <1>2, <1>3, RequestsAre
<1>7. PageTyped'
  BY <1>1, <1>2, <1>5, <1>6 DEF PageTyped
<1>8. WritesHaveAContract' /\ DecisionHitsWhatWasShown'
  BY <1>1, <1>2, <1>3, <1>6 DEF CallsInv, WritesHaveAContract, DecisionHitsWhatWasShown, Rest
<1>9. OneCallAtATime'
  <2> SUFFICES ASSUME ~overlapped'
               PROVE  /\ \A c \in calls' : c.on = page'.selected
                      /\ page'.detail \in {page'.selected, None} \/ \E c \in calls' : c.kind = "detail"
    BY <1>6 DEF OneCallAtATime
  <2>1. /\ ~overlapped /\ Rest(call) = {} /\ Len(new) <= 1
        /\ \A c \in calls' : \E i \in 1 .. Len(new) : c.kind = new[i].kind /\ c.on = new[i].on
    BY <1>6
  <2>2. CASE Len(new) = 0
    <3>1. page.detail \in {page.selected, None}
      BY <1>1, <1>2, <2>1 DEF CallsInv, OneCallAtATime, Rest
    <3> QED
      BY <1>3, <1>5, <2>1, <2>2, <3>1
  <2>3. CASE Len(new) = 1
    <3>1. new[1].kind = "detail" /\ new[1].on = chosen
      BY <1>3, <2>3
    <3>2. \A c \in calls' : c.on = chosen
      BY <2>1, <2>3, <3>1
    <3>3. \E c \in calls' : c.kind = "detail"
      BY <1>6, <2>1, <2>3, <3>1
    <3> QED
      BY <1>5, <3>2, <3>3
  <2>4. Len(new) = 0 \/ Len(new) = 1
    <3>1. Len(new) \in Nat
      BY <1>3
    <3>2. Len(new) <= 1
      BY <2>1
    <3>3. \A n \in Nat : n <= 1 => n = 0 \/ n = 1
      OBVIOUS
    <3> QED
      BY <3>1, <3>2, <3>3
  <2> QED
    BY <2>2, <2>3, <2>4
<1> QED
  BY <1>1, <1>2, <1>5, <1>7, <1>8, <1>9, SocketsKept DEF PageInv, CallsInv

\* The other answers.
LEMMA ArrivesStep ==
    ASSUME PageInv, NEW call \in calls,
           DetailArrives(call) \/ WriteArrives(call) \/ AnalyzeArrives(call) \/ UploadArrives(call)
    PROVE  PageInv'
<1>1. page \in Pages /\ call \in Calls
  BY DEF PageInv, PageTyped
<1>2. call.on \in SomeContract
  BY <1>1, CallFields
<1>3. CASE DetailArrives(call)
  <2> DEFINE done == [page EXCEPT !.upload = @ \/ call.after = "upload"]
  <2>1. done \in Pages /\ done.send = page.send /\ done.selected = page.selected
    BY <1>1 DEF Pages
  <2>2. /\ page' = IF call.result = "ok" THEN [done EXCEPT !.detail = call.on, !.session = call.on]
                   ELSE [done EXCEPT !.detail = None]
        /\ call.kind = "detail" /\ calls' = Rest(call)
        /\ UNCHANGED <<stored, made, sockets, landed, overlapped>>
    BY <1>3 DEF DetailArrives
  <2> HIDE DEF done
  <2>3. /\ page' \in Pages /\ page'.send = page.send /\ page'.selected = page.selected
        /\ page'.detail \in {call.on, None}
    <3>1. CASE call.result = "ok"
      BY <1>2, <2>1, <2>2, <3>1 DEF Pages
    <3>2. CASE call.result # "ok"
      BY <2>1, <2>2, <3>2 DEF Pages, SomeContract
    <3> QED
      BY <3>1, <3>2
  <2> QED
    BY <2>2, <2>3, LastStep
<1>4. CASE WriteArrives(call)
  <2>1. /\ page' = IF call.result = "ok" THEN [page EXCEPT !.detail = call.on] ELSE page
        /\ call.kind \in {"status", "event"} /\ calls' = Rest(call)
        /\ UNCHANGED <<stored, made, sockets, landed, overlapped>>
    BY <1>4 DEF WriteArrives
  <2>2. /\ page' \in Pages /\ page'.send = page.send /\ page'.selected = page.selected
        /\ page'.detail = call.on \/ page'.detail = page.detail
    BY <1>1, <1>2, <2>1 DEF Pages
  <2> QED
    BY <2>1, <2>2, LastStep
<1>5. CASE AnalyzeArrives(call)
  <2>1. call.kind = "analyze" /\ UNCHANGED <<stored, sockets, landed>>
    BY <1>5 DEF AnalyzeArrives
  <2>2. CASE call.result = "ok"
    <3>1. /\ page' = [page EXCEPT !.detail = call.on]
          /\ Requests(<<Asked("list", None, "reanalyze")>>, Rest(call))
      BY <1>5, <2>2 DEF AnalyzeArrives
    <3>2. /\ page' \in Pages /\ page'.send = page.send /\ page'.selected = page.selected
          /\ page'.detail = call.on /\ None \in SomeContract
      BY <1>1, <1>2, <3>1 DEF Pages, SomeContract
    <3> QED
      BY <2>1, <3>1, <3>2, ThenListStep
  <2>3. CASE call.result # "ok"
    <3>1. /\ page' = [page EXCEPT !.reanalyze = TRUE]
          /\ calls' = Rest(call) /\ UNCHANGED <<made, overlapped>>
      BY <1>5, <2>3 DEF AnalyzeArrives
    <3>2. /\ page' \in Pages /\ page'.send = page.send /\ page'.selected = page.selected
          /\ page'.detail = page.detail
      BY <1>1, <3>1 DEF Pages
    <3> QED
      BY <2>1, <3>1, <3>2, LastStep
  <2> QED
    BY <2>2, <2>3
<1>6. CASE UploadArrives(call)
  <2>1. call.kind = "upload" /\ UNCHANGED <<stored, sockets, landed>>
    BY <1>6 DEF UploadArrives
  <2>2. CASE call.result = "ok"
    <3>1. page' = page /\ Requests(<<Asked("list", call.on, "upload")>>, Rest(call))
      BY <1>6, <2>2 DEF UploadArrives
    <3> QED
      BY <1>1, <1>2, <2>1, <3>1, ThenListStep
  <2>3. CASE call.result # "ok"
    <3>1. /\ page' = [page EXCEPT !.upload = TRUE]
          /\ calls' = Rest(call) /\ UNCHANGED <<made, overlapped>>
      BY <1>6, <2>3 DEF UploadArrives
    <3>2. /\ page' \in Pages /\ page'.send = page.send /\ page'.selected = page.selected
          /\ page'.detail = page.detail
      BY <1>1, <3>1 DEF Pages
    <3> QED
      BY <2>1, <3>1, <3>2, LastStep
  <2> QED
    BY <2>2, <2>3
<1> QED
  BY <1>3, <1>4, <1>5, <1>6

\* A question is asked, or its socket has an event.
LEMMA QuestionStep ==
    ASSUME PageInv,
           \/ SendContractQuestion
           \/ \E i \in DOMAIN sockets : Opens(i) \/ Token(i) \/ End(i) \/ ErrorMessage(i)
                                         \/ ConnectionFails(i) \/ Closes(i)
    PROVE  PageInv'
<1>1. PageTyped /\ CallsInv /\ SocketsInv /\ page \in Pages /\ sockets \in Seq(Sockets)
  BY DEF PageInv, PageTyped
<1>2. UNCHANGED <<stored, calls, made, landed, overlapped>>
  BY DEF SendContractQuestion, Opens, Token, End, ErrorMessage, ConnectionFails, Closes
<1>3. ASSUME page' \in Pages, page'.selected = page.selected, page'.detail = page.detail,
             sockets' \in Seq(Sockets)
      PROVE  PageTyped' /\ CallsInv'
  BY <1>1, <1>2, <1>3 DEF PageTyped, CallsInv, WritesHaveAContract, DecisionHitsWhatWasShown,
       OneCallAtATime
<1>4. CASE SendContractQuestion
  <2> DEFINE s == [on |-> page.selected, sent |-> None, with |-> None,
                   phase |-> "connecting", finished |-> FALSE]
  <2>1. /\ page.selected # None /\ page' = [page EXCEPT !.send = FALSE]
        /\ sockets' = Append(sockets, s)
    BY <1>4 DEF SendContractQuestion
  <2>2. s \in Sockets /\ s.with = None /\ s.phase = "connecting"
    BY <1>1, <2>1, PageFields DEF Sockets, SomeContract
  <2> HIDE DEF s
  <2>3. /\ sockets' \in Seq(Sockets) /\ DOMAIN sockets = 1 .. Len(sockets) /\ Len(sockets) \in Nat
        /\ DOMAIN sockets' = 1 .. Len(sockets) + 1
        /\ sockets'[Len(sockets) + 1] = s
        /\ \A i \in 1 .. Len(sockets) : sockets'[i] = sockets[i]
    BY <1>1, <2>1, <2>2
  <2>4. page' \in Pages /\ page'.selected = page.selected /\ page'.detail = page.detail
    BY <1>1, <2>1 DEF Pages
  <2>5. SessionOfContract' /\ QuestionsEnd'
    <3>1. \A i \in DOMAIN sockets' : i \in DOMAIN sockets \/ i = Len(sockets) + 1
      BY <2>3
    <3>2. Len(sockets) + 1 \in DOMAIN sockets'
      BY <2>3
    <3> QED
      BY <1>1, <2>2, <2>3, <3>1, <3>2 DEF SocketsInv, SessionOfContract, QuestionsEnd
  <2> QED
    BY <1>3, <2>3, <2>4, <2>5 DEF PageInv, SocketsInv
<1>5. ASSUME NEW i \in DOMAIN sockets,
             Opens(i) \/ Token(i) \/ End(i) \/ ErrorMessage(i) \/ ConnectionFails(i) \/ Closes(i)
      PROVE  PageInv'
  <2>1. sockets[i] \in Sockets /\ page.session \in SomeContract
    BY <1>1, PageFields
  <2>2. PICK s \in Sockets :
          /\ sockets' = [sockets EXCEPT ![i] = s]
          /\ s.with = sockets[i].with \/ s.with = s.on
          /\ s.on = sockets[i].on
          /\ s.phase = "closed" => s.finished /\ page'.send
          /\ page'.send = page.send \/ page'.send = TRUE
          /\ page' \in Pages /\ page'.selected = page.selected /\ page'.detail = page.detail
    <3>1. CASE Opens(i)
      <4>1. /\ page' = page
            /\ sockets' = [sockets EXCEPT ![i] = [sockets[i] EXCEPT !.phase = "open",
                                                                    !.sent = page.session]]
        BY <3>1 DEF Opens, Set
      <4>2. [sockets[i] EXCEPT !.phase = "open", !.sent = page.session] \in Sockets
        BY <2>1 DEF Sockets
      <4> QED
        BY <1>1, <2>1, <4>1, <4>2 DEF Sockets
    <3>2. CASE Token(i) \/ End(i)
      <4> DEFINE session == SessionFor(sockets[i].sent, sockets[i].on)
      <4>1. session = sockets[i].on /\ session \in Contracts
        BY <2>1 DEF SessionFor, Sockets
      <4>2. /\ page' = [page EXCEPT !.session = IF session = None THEN @ ELSE session]
            /\ \/ sockets' = [sockets EXCEPT ![i] = [sockets[i] EXCEPT !.with = session]]
               \/ sockets' = [sockets EXCEPT ![i] = [sockets[i] EXCEPT !.finished = TRUE,
                                                          !.phase = "closing", !.with = session]]
        BY <3>2 DEF Token, End, Set
      <4> HIDE DEF session
      <4>3. page' \in Pages /\ page'.selected = page.selected /\ page'.detail = page.detail
            /\ page'.send = page.send
        <5>1. (IF session = None THEN page.session ELSE session) \in SomeContract
          BY <2>1, <4>1 DEF SomeContract
        <5> QED
          BY <1>1, <4>2, <5>1 DEF Pages
      <4>4. CASE sockets' = [sockets EXCEPT ![i] = [sockets[i] EXCEPT !.with = session]]
        <5>1. sockets[i].phase = "open"
          BY <3>2 DEF Token, End
        <5>2. [sockets[i] EXCEPT !.with = session] \in Sockets
          BY <2>1, <4>1 DEF Sockets, SomeContract
        <5> QED
          BY <2>1, <4>1, <4>3, <4>4, <5>1, <5>2 DEF Sockets
      <4>5. CASE sockets' = [sockets EXCEPT ![i] = [sockets[i] EXCEPT !.finished = TRUE,
                                                          !.phase = "closing", !.with = session]]
        <5>1. [sockets[i] EXCEPT !.finished = TRUE, !.phase = "closing", !.with = session] \in Sockets
          BY <2>1, <4>1 DEF Sockets, SomeContract
        <5> QED
          BY <2>1, <4>1, <4>3, <4>5, <5>1 DEF Sockets
      <4> QED
        BY <4>2, <4>4, <4>5
    <3>3. CASE ErrorMessage(i) \/ ConnectionFails(i)
      <4>1. /\ page' = [page EXCEPT !.send = TRUE]
            /\ sockets' = [sockets EXCEPT ![i] = [sockets[i] EXCEPT !.finished = TRUE,
                                                                    !.phase = "closing"]]
        BY <3>3 DEF ErrorMessage, ConnectionFails, Set
      <4>2. [sockets[i] EXCEPT !.finished = TRUE, !.phase = "closing"] \in Sockets
        BY <2>1 DEF Sockets
      <4>3. page' \in Pages /\ page'.selected = page.selected /\ page'.detail = page.detail
            /\ page'.send = TRUE
        BY <1>1, <4>1 DEF Pages
      <4> QED
        BY <2>1, <4>1, <4>2, <4>3 DEF Sockets
    <3>4. CASE Closes(i)
      <4>1. /\ page' = [page EXCEPT !.send = TRUE]
            /\ sockets' = [sockets EXCEPT ![i] = [sockets[i] EXCEPT !.phase = "closed",
                                                                    !.finished = TRUE]]
        BY <3>4 DEF Closes, Set
      <4>2. [sockets[i] EXCEPT !.phase = "closed", !.finished = TRUE] \in Sockets
        BY <2>1 DEF Sockets
      <4>3. page' \in Pages /\ page'.selected = page.selected /\ page'.detail = page.detail
            /\ page'.send = TRUE
        BY <1>1, <4>1 DEF Pages
      <4> QED
        BY <2>1, <4>1, <4>2, <4>3 DEF Sockets
    <3> QED
      BY <1>5, <3>1, <3>2, <3>3, <3>4
  <2>3. /\ sockets' \in Seq(Sockets) /\ DOMAIN sockets' = DOMAIN sockets /\ sockets'[i] = s
        /\ \A j \in DOMAIN sockets : j # i => sockets'[j] = sockets[j]
    BY <1>1, <2>2
  <2>4. SessionOfContract' /\ QuestionsEnd'
    BY <1>1, <2>2, <2>3 DEF SocketsInv, SessionOfContract, QuestionsEnd
  <2> QED
    BY <1>3, <2>2, <2>3, <2>4 DEF PageInv, SocketsInv
<1> QED
  BY <1>4, <1>5

LEMMA PageInvStep == PageInv /\ [PageNext]_pageVars => PageInv'
<1> SUFFICES ASSUME PageInv, [PageNext]_pageVars PROVE PageInv'
  OBVIOUS
<1>1. CASE UNCHANGED pageVars
  BY <1>1 DEF pageVars, PageInv, PageTyped, CallsInv, SocketsInv, WritesHaveAContract,
       DecisionHitsWhatWasShown, OneCallAtATime, SessionOfContract, QuestionsEnd
<1>2. ASSUME NEW call \in calls, NEW fails \in BOOLEAN, NEW new \in Contracts \cup {None},
             Serve(call, fails, new)
      PROVE  PageInv'
  BY <1>2, ServeStep DEF SomeContract
<1>3. ASSUME NEW call \in calls, NEW first \in Contracts \cup {None}, ListArrives(call, first)
      PROVE  PageInv'
  BY <1>3, ListArrivesStep DEF SomeContract
<1> QED
  BY <1>1, <1>2, <1>3, UserStep, ArrivesStep, QuestionStep DEF PageNext

\* In whatever order answers, clicks and messages come, the page acts on its
\* contract: contractState may be overwritten by a late answer of requestJson,
\* but no question, decision or pending button suffers from it.
THEOREM PageStaysOnItsContract == PageSpec => []PageActsOnItsContract
<1>1. PageInv => PageActsOnItsContract
  BY DEF PageInv, CallsInv, SocketsInv, OneCallAtATime, PageActsOnItsContract,
         PatientUserSeesSelected
<1> QED
  BY <1>1, PageInitInv, PageInvStep, PTL DEF PageSpec

-----------------------------------------------------------------------------
(* Reviewed scans, for any files, directories and number of calls.         *)
(*                                                                         *)
(* Between the judgement and the copy nobody else writes the material, so  *)
(* a name that was free is free; the candidate itself may have changed,    *)
(* which the material remembers.                                           *)

\* Mind the shape: a promotion at work has these fields.
PromotionShaped ==
    promotion # None =>
        promotion = [apply |-> promotion.apply, force |-> promotion.force,
                     todo |-> promotion.todo, rows |-> promotion.rows,
                     copying |-> promotion.copying]

Reasons == {"target exists", "error", "dry run", "promoted"}

\* What one row of a call says when the material has these names.
RowIsTrue(entry, apply, names) ==
    /\ entry.reviewed => entry.reason \in Reasons
    /\ apply => entry.reason # "dry run"
    /\ entry.reason = "promoted" => entry.candidate[2] \in names

SameTarget(a, b) ==
    a.reason = "promoted" /\ b.reason = "promoted" /\ a.candidate[2] = b.candidate[2]

\* Without --force no two candidates of a call were copied to one name.
RowsAreTrue(rows, apply, force, names) ==
    /\ \E S : rows \in Seq(S)
    /\ \A i \in DOMAIN rows : RowIsTrue(rows[i], apply, names)
    /\ ~force => \A i, j \in DOMAIN rows : SameTarget(rows[i], rows[j]) => i = j

\* The file about to be copied was reviewed when it was read, and its name is free.
CopyIsAllowed ==
    promotion # None /\ promotion.copying # None =>
        /\ IsReviewed(promotion.copying)
        /\ ~promotion.force => Head(promotion.todo)[2] \notin DOMAIN material

ReportIsTrue ==
    promotionReport # None =>
        /\ promotionReport.ok => ReportOk(promotionReport.rows)
        /\ RowsAreTrue(promotionReport.rows, promotionReport.apply, promotionReport.force,
                       DOMAIN material)

PromotionIsTrue ==
    promotion # None =>
        RowsAreTrue(promotion.rows, promotion.apply, promotion.force, DOMAIN material)

OcrInv == PromotionShaped /\ CopyIsAllowed /\ WhatIsInWasReviewed /\ ReportIsTrue
          /\ PromotionIsTrue

\* An entry is added: if its file was copied, to a name that was free unless the call has --force.
LEMMA RowsGrow ==
    ASSUME NEW rows, NEW apply, NEW force, NEW names, NEW more, NEW entry,
           RowsAreTrue(rows, apply, force, names), names \subseteq more,
           RowIsTrue(entry, apply, more),
           ~force /\ entry.reason = "promoted" => entry.candidate[2] \notin names
    PROVE  RowsAreTrue(Append(rows, entry), apply, force, more)
<1>1. PICK S : rows \in Seq(S)
  BY DEF RowsAreTrue
<1> DEFINE new == Append(rows, entry)
           n   == Len(rows) + 1
<1>2. /\ new \in Seq(S \cup {entry}) /\ DOMAIN rows = 1 .. Len(rows) /\ Len(rows) \in Nat
      /\ DOMAIN new = 1 .. n /\ new[n] = entry
      /\ \A i \in DOMAIN rows : new[i] = rows[i]
  <2>1. rows \in Seq(S \cup {entry}) /\ entry \in S \cup {entry}
    BY <1>1, SeqMonotonic
  <2> QED
    BY <2>1, AppendProperties
<1>3. \A i \in DOMAIN new : (i \in DOMAIN rows /\ new[i] = rows[i]) \/ (i = n /\ new[i] = entry)
  BY <1>2
<1>4. \E T : new \in Seq(T)
  BY <1>2
<1> HIDE DEF new, n
<1>5. \A i \in DOMAIN rows : RowIsTrue(rows[i], apply, more)
  BY DEF RowsAreTrue, RowIsTrue
<1>6. \A i \in DOMAIN new : RowIsTrue(new[i], apply, more)
  BY <1>3, <1>5
<1>7. ~force => \A i \in DOMAIN rows : ~SameTarget(rows[i], entry) /\ ~SameTarget(entry, rows[i])
  BY DEF RowsAreTrue, RowIsTrue, SameTarget
<1>8. ~force => \A i, j \in DOMAIN new : SameTarget(new[i], new[j]) => i = j
  <2> SUFFICES ASSUME ~force, NEW i \in DOMAIN new, NEW j \in DOMAIN new,
                      SameTarget(new[i], new[j])
               PROVE  i = j
    OBVIOUS
  <2>1. CASE i \in DOMAIN rows /\ new[i] = rows[i] /\ j \in DOMAIN rows /\ new[j] = rows[j]
    BY <2>1 DEF RowsAreTrue
  <2>2. CASE i \in DOMAIN rows /\ new[i] = rows[i] /\ j = n /\ new[j] = entry
    BY <2>2, <1>7
  <2>3. CASE j \in DOMAIN rows /\ new[j] = rows[j] /\ i = n /\ new[i] = entry
    BY <2>3, <1>7
  <2> QED
    BY <2>1, <2>2, <2>3, <1>3
<1>9. RowsAreTrue(new, apply, force, more)
  BY <1>4, <1>6, <1>8 DEF RowsAreTrue
<1> QED
  BY <1>9 DEF new

\* Nothing leaves the material.
LEMMA RowsStayTrue ==
    ASSUME NEW rows, NEW apply, NEW force, NEW names, NEW more,
           RowsAreTrue(rows, apply, force, names), names \subseteq more
    PROVE  RowsAreTrue(rows, apply, force, more)
BY DEF RowsAreTrue, RowIsTrue

\* Only candidates or the OCR change.
LEMMA OcrBesides ==
    ASSUME OcrInv, UNCHANGED <<material, promotion, promotionReport>>
    PROVE  OcrInv'
BY DEF OcrInv, PromotionShaped, CopyIsAllowed, WhatIsInWasReviewed, ReportIsTrue, PromotionIsTrue

LEMMA RowFields ==
    ASSUME NEW p, NEW q, NEW todo, NEW rows, p.copying = None,
           p = [apply |-> p.apply, force |-> p.force, todo |-> p.todo, rows |-> p.rows,
                copying |-> p.copying],
           q = [p EXCEPT !.todo = todo, !.rows = rows]
    PROVE  q = [apply |-> p.apply, force |-> p.force, todo |-> todo, rows |-> rows,
                copying |-> None]
OBVIOUS

\* The next file of the promotion gets its entry.
LEMMA RowStep ==
    ASSUME OcrInv, promotion # None, NEW entry,
           promotion' = [apply |-> promotion.apply, force |-> promotion.force,
                         todo |-> Tail(promotion.todo),
                         rows |-> Append(promotion.rows, entry), copying |-> None],
           DOMAIN material \subseteq DOMAIN material', WhatIsInWasReviewed',
           UNCHANGED promotionReport,
           RowIsTrue(entry, promotion.apply, DOMAIN material'),
           ~promotion.force /\ entry.reason = "promoted" => entry.candidate[2] \notin DOMAIN material
    PROVE  OcrInv'
<1>2. PromotionShaped' /\ CopyIsAllowed'
  BY DEF PromotionShaped, CopyIsAllowed
<1>3. RowsAreTrue(promotion.rows, promotion.apply, promotion.force, DOMAIN material)
  BY DEF OcrInv, PromotionIsTrue
<1>4. RowsAreTrue(Append(promotion.rows, entry), promotion.apply, promotion.force,
                  DOMAIN material')
  BY <1>3, RowsGrow
<1>5. PromotionIsTrue'
  BY <1>4 DEF PromotionIsTrue
<1>6. ReportIsTrue'
  BY RowsStayTrue DEF OcrInv, ReportIsTrue
<1> QED
  BY <1>2, <1>5, <1>6 DEF OcrInv

LEMMA JudgeStep ==
    ASSUME OcrInv, JudgeFile
    PROVE  OcrInv' /\ UNCHANGED material
<1> DEFINE c == Head(promotion.todo)
<1>1. /\ promotion # None /\ promotion.copying = None
      /\ UNCHANGED <<material, promotionReport>> /\ WhatIsInWasReviewed'
  BY DEF JudgeFile, OcrInv, WhatIsInWasReviewed
<1>2. promotion = [apply |-> promotion.apply, force |-> promotion.force,
                   todo |-> promotion.todo, rows |-> promotion.rows,
                   copying |-> promotion.copying]
  BY <1>1 DEF OcrInv, PromotionShaped
<1>3. ASSUME NEW entry, RowIsTrue(entry, promotion.apply, DOMAIN material),
             entry.reason # "promoted",
             promotion' = [apply |-> promotion.apply, force |-> promotion.force,
                          todo |-> Tail(promotion.todo),
                          rows |-> Append(promotion.rows, entry), copying |-> None]
      PROVE  OcrInv'
  <2>2. RowIsTrue(entry, promotion.apply, DOMAIN material')
    BY <1>1, <1>3
  <2> QED
    BY <1>1, <1>3, <2>2, RowStep
<1>4. CASE Judged(Row(c, FALSE, "not reviewed"))
  <2> DEFINE entry == Row(c, FALSE, "not reviewed")
  <2>1. RowIsTrue(entry, promotion.apply, DOMAIN material) /\ entry.reason # "promoted"
    BY <1>4 DEF RowIsTrue, Row, Reasons
  <2>2. promotion' = [promotion EXCEPT !.todo = Tail(@), !.rows = Append(@, entry)]
    BY <1>4 DEF Judged
  <2> HIDE DEF entry
  <2>3. promotion' = [apply |-> promotion.apply, force |-> promotion.force,
                         todo |-> Tail(promotion.todo),
                         rows |-> Append(promotion.rows, entry), copying |-> None]
    BY <1>1, <1>2, <2>2, RowFields
  <2> QED
    BY <1>1, <1>3, <2>1, <2>3
<1>5. CASE Judged(Row(c, TRUE, "target exists"))
  <2> DEFINE entry == Row(c, TRUE, "target exists")
  <2>1. RowIsTrue(entry, promotion.apply, DOMAIN material) /\ entry.reason # "promoted"
    BY <1>5 DEF RowIsTrue, Row, Reasons
  <2>2. promotion' = [promotion EXCEPT !.todo = Tail(@), !.rows = Append(@, entry)]
    BY <1>5 DEF Judged
  <2> HIDE DEF entry
  <2>3. promotion' = [apply |-> promotion.apply, force |-> promotion.force,
                         todo |-> Tail(promotion.todo),
                         rows |-> Append(promotion.rows, entry), copying |-> None]
    BY <1>1, <1>2, <2>2, RowFields
  <2> QED
    BY <1>1, <1>3, <2>1, <2>3
<1>6. CASE ~promotion.apply /\ Judged(Row(c, TRUE, "dry run"))
  <2> DEFINE entry == Row(c, TRUE, "dry run")
  <2>1. RowIsTrue(entry, promotion.apply, DOMAIN material) /\ entry.reason # "promoted"
    BY <1>6 DEF RowIsTrue, Row, Reasons
  <2>2. promotion' = [promotion EXCEPT !.todo = Tail(@), !.rows = Append(@, entry)]
    BY <1>6 DEF Judged
  <2> HIDE DEF entry
  <2>3. promotion' = [apply |-> promotion.apply, force |-> promotion.force,
                         todo |-> Tail(promotion.todo),
                         rows |-> Append(promotion.rows, entry), copying |-> None]
    BY <1>1, <1>2, <2>2, RowFields
  <2> QED
    BY <1>1, <1>3, <2>1, <2>3
<1>7. CASE /\ IsReviewed(candidates[c]) /\ TargetFree(c)
           /\ promotion' = [promotion EXCEPT !.copying = candidates[c]]
  <2>1. promotion' = [apply |-> promotion.apply, force |-> promotion.force,
                      todo |-> promotion.todo, rows |-> promotion.rows,
                      copying |-> candidates[c]]
    BY <1>2, <1>7
  <2>2. PromotionShaped'
    BY <2>1 DEF PromotionShaped
  <2>3. CopyIsAllowed'
    BY <2>1, <1>1, <1>7 DEF CopyIsAllowed, TargetFree
  <2>4. PromotionIsTrue' /\ ReportIsTrue'
    BY <2>1, <1>1 DEF PromotionIsTrue, ReportIsTrue, OcrInv
  <2> QED
    BY <2>2, <2>3, <2>4, <1>1 DEF OcrInv
<1> QED
  BY <1>1, <1>4, <1>5, <1>6, <1>7 DEF JudgeFile

LEMMA CopyStep ==
    ASSUME OcrInv, CopyFile
    PROVE  /\ OcrInv'
           /\ DOMAIN material \subseteq DOMAIN material'
           /\ \A n \in DOMAIN material : material'[n] # material[n] => promotion.force
<1> DEFINE c   == Head(promotion.todo)
           entry == Row(c, TRUE, "promoted")
<1>1. /\ promotion # None /\ promotion.copying # None /\ UNCHANGED promotionReport
      /\ material' = Put(material, c[2], [is |-> candidates[c], judged |-> promotion.copying])
      /\ promotion' = [apply |-> promotion.apply, force |-> promotion.force,
                         todo |-> Tail(promotion.todo),
                         rows |-> Append(promotion.rows, entry), copying |-> None]
  <2>1. /\ promotion # None /\ promotion.copying # None /\ UNCHANGED promotionReport
        /\ material' = Put(material, c[2], [is |-> candidates[c], judged |-> promotion.copying])
        /\ promotion' = [promotion EXCEPT !.todo = Tail(@), !.copying = None,
                                          !.rows = Append(@, entry)]
    BY DEF CopyFile
  <2> HIDE DEF entry
  <2> QED
    BY <2>1 DEF OcrInv, PromotionShaped
<1>2. /\ IsReviewed(promotion.copying)
      /\ ~promotion.force => c[2] \notin DOMAIN material
  BY <1>1 DEF OcrInv, CopyIsAllowed
<1>3. /\ DOMAIN material' = DOMAIN material \cup {c[2]}
      /\ \A n \in DOMAIN material : n # c[2] => material'[n] = material[n]
      /\ material'[c[2]] = [is |-> candidates[c], judged |-> promotion.copying]
  BY <1>1 DEF Put
<1>4. entry.reason = "promoted" /\ entry.candidate = c
  BY DEF Row
<1>5. RowIsTrue(entry, promotion.apply, DOMAIN material')
  BY <1>3, <1>4 DEF RowIsTrue, Reasons
<1>6. WhatIsInWasReviewed'
  <2>1. \A n \in DOMAIN material : n # c[2] => 
           \/ material'[n].is.reviewed
           \/ material'[n].is.scan.quotes
           \/ /\ material'[n].is # material'[n].judged
              /\ material'[n].judged.reviewed \/ material'[n].judged.scan.quotes
    BY <1>3 DEF OcrInv, WhatIsInWasReviewed
  <2>2. material'[c[2]].is = candidates[c] /\ material'[c[2]].judged = promotion.copying
    BY <1>3
  <2> QED
    BY <1>2, <1>3, <2>1, <2>2 DEF WhatIsInWasReviewed, IsReviewed
<1> HIDE DEF entry
<1>7. OcrInv'
  BY <1>1, <1>2, <1>3, <1>4, <1>5, <1>6, RowStep
<1> QED
  BY <1>2, <1>3, <1>7

LEMMA CopyFailsStep ==
    ASSUME OcrInv, CopyFails
    PROVE  OcrInv' /\ UNCHANGED material
<1> DEFINE entry == Row(Head(promotion.todo), TRUE, "error")
<1>1. /\ promotion # None /\ UNCHANGED <<material, promotionReport>>
      /\ promotion' = [apply |-> promotion.apply, force |-> promotion.force,
                         todo |-> Tail(promotion.todo),
                         rows |-> Append(promotion.rows, entry), copying |-> None]
      /\ WhatIsInWasReviewed'
  BY DEF CopyFails, OcrInv, PromotionShaped, WhatIsInWasReviewed
<1>2. RowIsTrue(entry, promotion.apply, DOMAIN material') /\ entry.reason # "promoted"
  BY DEF RowIsTrue, Row, Reasons
<1> HIDE DEF entry
<1> QED
  BY <1>1, <1>2, RowStep

LEMMA StartPromotionStep ==
    ASSUME OcrInv, NEW apply, NEW force, StartPromotion(apply, force)
    PROVE  OcrInv' /\ UNCHANGED material
<1>1. /\ promotion' = [apply |-> apply, force |-> force, todo |-> CollectMarkdown,
                       rows |-> <<>>, copying |-> None]
      /\ promotionReport' = None /\ material' = material
  BY DEF StartPromotion
<1>2. PromotionShaped' /\ CopyIsAllowed' /\ ReportIsTrue' /\ WhatIsInWasReviewed'
  BY <1>1 DEF PromotionShaped, CopyIsAllowed, ReportIsTrue, WhatIsInWasReviewed, OcrInv
<1>3. RowsAreTrue(<<>>, apply, force, DOMAIN material)
  <2>1. <<>> \in Seq({}) /\ DOMAIN <<>> = {}
    OBVIOUS
  <2> QED
    BY <2>1 DEF RowsAreTrue
<1>4. PromotionIsTrue'
  BY <1>1, <1>3 DEF PromotionIsTrue
<1> QED
  BY <1>1, <1>2, <1>4 DEF OcrInv

LEMMA PromotionEndsStep ==
    ASSUME OcrInv, PromotionEnds
    PROVE  OcrInv' /\ UNCHANGED material
<1>1. /\ promotion # None /\ promotion' = None /\ material' = material
      /\ promotionReport' = [ok |-> ReportOk(promotion.rows), apply |-> promotion.apply,
                             force |-> promotion.force, rows |-> promotion.rows]
  BY DEF PromotionEnds
<1>2. ReportIsTrue'
  BY <1>1 DEF OcrInv, PromotionIsTrue, ReportIsTrue
<1> QED
  BY <1>1, <1>2 DEF OcrInv, PromotionShaped, CopyIsAllowed, PromotionIsTrue, WhatIsInWasReviewed

\* A report that says ok has nothing but promoted rows.
LEMMA OkFromRows ==
    ASSUME ReportIsTrue
    PROVE  OkMeansAllIn
<1> SUFFICES ASSUME promotionReport # None, promotionReport.ok, promotionReport.apply
             PROVE  LET rows    == promotionReport.rows
                        Name(i) == rows[i].candidate[2]
                    IN  \A i \in DOMAIN rows :
                          /\ rows[i].reason = "promoted" /\ Name(i) \in DOMAIN material
                          /\ ~promotionReport.force =>
                               \A j \in DOMAIN rows : Name(i) = Name(j) => i = j
  BY DEF OkMeansAllIn
<1> DEFINE rows == promotionReport.rows
<1>1. /\ Blocked(rows) = {} /\ Failed(rows) = {}
      /\ \A i \in DOMAIN rows : RowIsTrue(rows[i], TRUE, DOMAIN material)
      /\ ~promotionReport.force =>
           \A i, j \in DOMAIN rows : SameTarget(rows[i], rows[j]) => i = j
  BY DEF ReportIsTrue, RowsAreTrue, ReportOk, RowIsTrue
<1> HIDE DEF rows
<1>2. \A i \in DOMAIN rows : rows[i].reason = "promoted"
  BY <1>1 DEF RowIsTrue, Reasons, Blocked, Failed
<1>3. \A i \in DOMAIN rows : rows[i].candidate[2] \in DOMAIN material
  BY <1>1, <1>2 DEF RowIsTrue
<1>4. ~promotionReport.force =>
        \A i, j \in DOMAIN rows : rows[i].candidate[2] = rows[j].candidate[2] => i = j
  BY <1>1, <1>2 DEF SameTarget
<1> QED
  BY <1>2, <1>3, <1>4 DEF rows

\* For any scans, output directories and numbers of calls, whatever is recognized, reviewed,
\* judged, copied, replaced and forced in whatever order: what is in the material was
\* reviewed when it was judged, an ok report of an applied call means that all it found is
\* in, and nothing is replaced without --force (promote_ocr_candidates.py).
THEOREM PromotionStaysReviewed == OcrSpec => PromotionIsReviewed
<1>1. OcrInit => OcrInv
  BY DEF OcrInit, OcrInv, PromotionShaped, CopyIsAllowed, WhatIsInWasReviewed, ReportIsTrue,
         PromotionIsTrue
<1>2. OcrInv /\ [OcrNext]_ocrVars =>
        /\ OcrInv'
        /\ \A n \in DOMAIN material : n \in DOMAIN material'
             /\ (material'[n] # material[n] => promotion.force)
  <2> SUFFICES ASSUME OcrInv, [OcrNext]_ocrVars
               PROVE  /\ OcrInv'
                      /\ DOMAIN material \subseteq DOMAIN material'
                      /\ \A n \in DOMAIN material : material'[n] # material[n] => promotion.force
    OBVIOUS
  <2>1. ASSUME NEW dir, NEW inputs, StartOcr(dir, inputs)
        PROVE  UNCHANGED <<material, promotion, promotionReport>>
    BY <2>1 DEF StartOcr
  <2>2. CASE RecognizeFile \/ RecognitionFails \/ OcrEnds
    BY <2>2, OcrBesides DEF RecognizeFile, RecognitionFails, OcrEnds
  <2>3. ASSUME NEW c, ReviewCandidate(c)
        PROVE  UNCHANGED <<material, promotion, promotionReport>>
    BY <2>3 DEF ReviewCandidate
  <2>4. ASSUME NEW apply \in BOOLEAN, NEW force \in BOOLEAN, StartPromotion(apply, force)
        PROVE  OcrInv' /\ UNCHANGED material
    BY <2>4, StartPromotionStep
  <2>5. CASE JudgeFile
    BY <2>5, JudgeStep
  <2>6. CASE CopyFile
    BY <2>6, CopyStep
  <2>7. CASE CopyFails
    BY <2>7, CopyFailsStep
  <2>8. CASE PromotionEnds
    BY <2>8, PromotionEndsStep
  <2>9. CASE UNCHANGED ocrVars
    BY <2>9, OcrBesides DEF ocrVars
  <2> QED
    BY <2>1, <2>2, <2>3, <2>4, <2>5, <2>6, <2>7, <2>8, <2>9, OcrBesides DEF OcrNext
<1>3. OcrInv => WhatIsInWasReviewed /\ OkMeansAllIn
  BY OkFromRows DEF OcrInv
<1> QED
  BY <1>1, <1>2, <1>3, PTL DEF OcrSpec, PromotionIsReviewed, NothingIsReplacedUnasked

-----------------------------------------------------------------------------
(* The intent model, for any datasets, labels and number of trainings.     *)
(*                                                                         *)
(* Whatever training wrote a file, its datasets were disjoint; the labels  *)
(* are written last, so that where they are everything else is.            *)

Trained(v) ==
    /\ v # None /\ v = [train |-> v.train, eval |-> v.eval]
    /\ SplitIsClean(v.train, v.eval)

\* The file of every training that is at work or was.
FilesInv ==
    /\ artefact = [f \in ModelFiles |-> artefact[f]]
    /\ \A f \in ModelFiles : artefact[f] # None => Trained(artefact[f])
    /\ artefact["labels"] # None => \A f \in ModelFiles : artefact[f] # None

\* A training has written the files before the next one.
TrainingInv ==
    training # None =>
        /\ training = [train |-> training.train, eval |-> training.eval,
                       next |-> training.next]
        /\ training.train \in DatasetContents /\ training.eval \in DatasetContents
        /\ SplitIsClean(training.train, training.eval)
        /\ training.next \in Nat \ {0}
        /\ \A i \in 1 .. 4 : i < training.next => artefact[SaveOrder[i]] # None

ReportInv ==
    modelReport # None /\ modelReport.ok => Trained(modelReport.of)

ModelInv == FilesInv /\ TrainingInv /\ ServedIsComplete /\ ReportInv

LEMMA SaveStep ==
    ASSUME ModelInv, SaveFile
    PROVE  ModelInv'
<1> DEFINE n == training.next
           v == [train |-> training.train, eval |-> training.eval]
<1>1. /\ training # None /\ n \in 1 .. 4 /\ n \in Nat
      /\ artefact' = [artefact EXCEPT ![SaveOrder[n]] = v]
      /\ training' = [training EXCEPT !.next = n + 1]
      /\ UNCHANGED <<service, modelReport>>
  BY DEF SaveFile, SaveOrder, ModelInv, TrainingInv
<1>2. Trained(v)
  <2>1. v # None
    BY <1>1, NoneIsNoTraining DEF ModelInv, TrainingInv
  <2> QED
    BY <1>1, <2>1 DEF Trained, ModelInv, TrainingInv
<1>3. \A i \in 1 .. 4 : SaveOrder[i] \in ModelFiles
  BY DEF SaveOrder, ModelFiles
<1> HIDE DEF v
<1>4. /\ artefact' = [f \in ModelFiles |-> artefact'[f]]
      /\ artefact'[SaveOrder[n]] = v
      /\ \A f \in ModelFiles : f # SaveOrder[n] => artefact'[f] = artefact[f]
  BY <1>1, <1>3 DEF ModelInv, FilesInv
<1>5. \A f \in ModelFiles : artefact'[f] # None => Trained(artefact'[f])
  BY <1>2, <1>4 DEF ModelInv, FilesInv
<1>6. /\ training' = [train |-> training.train, eval |-> training.eval, next |-> n + 1]
      /\ training' = [train |-> training'.train, eval |-> training'.eval,
                      next |-> training'.next]
      /\ training'.train = training.train /\ training'.eval = training.eval
      /\ training'.next = n + 1
  <2>1. training = [train |-> training.train, eval |-> training.eval, next |-> training.next]
    BY <1>1 DEF ModelInv, TrainingInv
  <2>2. training' = [train |-> training.train, eval |-> training.eval, next |-> n + 1]
    BY <1>1, <2>1
  <2> QED
    BY <2>2
<1>7. \A i \in 1 .. 4 : i < n + 1 => artefact'[SaveOrder[i]] # None
  <2> SUFFICES ASSUME NEW i \in 1 .. 4, i < n + 1
               PROVE  artefact'[SaveOrder[i]] # None
    OBVIOUS
  <2>1. CASE SaveOrder[i] = SaveOrder[n]
    BY <2>1, <1>2, <1>4 DEF Trained
  <2>2. CASE SaveOrder[i] # SaveOrder[n]
    <3>1. i < n
      BY <2>2, <1>1
    <3>2. artefact[SaveOrder[i]] # None
      BY <3>1, <1>1 DEF ModelInv, TrainingInv
    <3> QED
      BY <3>2, <2>2, <1>3, <1>4
  <2> QED
    BY <2>1, <2>2
<1>8. artefact'["labels"] # None => \A f \in ModelFiles : artefact'[f] # None
  <2>1. CASE n = 4
    <3>1. \A i \in 1 .. 4 : artefact'[SaveOrder[i]] # None
      BY <2>1, <1>7
    <3>2. \A f \in ModelFiles : \E i \in 1 .. 4 : f = SaveOrder[i]
      <4>1. /\ SaveOrder[1] = "config" /\ SaveOrder[2] = "weights"
            /\ SaveOrder[3] = "tokenizer" /\ SaveOrder[4] = "labels"
        BY DEF SaveOrder
      <4> QED
        BY <4>1 DEF ModelFiles
    <3> QED
      BY <3>1, <3>2
  <2>2. CASE n # 4
    <3>1. SaveOrder[n] # "labels" /\ "labels" \in ModelFiles
      BY <1>1, <2>2 DEF SaveOrder, ModelFiles
    <3> QED
      BY <3>1, <1>2, <1>4 DEF ModelInv, FilesInv, Trained
  <2> QED
    BY <2>1, <2>2
<1>9. TrainingInv'
  BY <1>1, <1>6, <1>7 DEF ModelInv, TrainingInv
<1>10. ServedIsComplete' /\ ReportInv'
  BY <1>1 DEF ModelInv, ServedIsComplete, ReportInv
<1> QED
  BY <1>4, <1>5, <1>8, <1>9, <1>10 DEF ModelInv, FilesInv

\* What a report says ok of has weights.
LEMMA BuildReportIsOfATraining ==
    ASSUME ModelInv, NEW right, BuildReport(right).ok
    PROVE  Trained(BuildReport(right).of)
<1>1. /\ BuildReport(right).ok => \A f \in ModelFiles : artefact[f] # None
      /\ BuildReport(right).of = artefact["weights"]
  BY DEF BuildReport
<1>2. "weights" \in ModelFiles
  BY DEF ModelFiles
<1> QED
  BY <1>1, <1>2 DEF ModelInv, FilesInv

\* For any datasets, labels and numbers of trainings, restarts and changes, wherever a
\* training dies: a model is served with all its files, and an accuracy reported is one on
\* questions the weights were not trained on (train_intent_bert.py, model_classifier.py).
THEOREM ModelStaysAccounted == ModelSpec => []ModelIsAccounted
<1>1. ModelInit => ModelInv
  BY DEF ModelInit, ModelInv, FilesInv, TrainingInv, ServedIsComplete, ReportInv, ModelFiles
<1>2. ModelInv /\ [ModelNext]_modelVars => ModelInv'
  <2> SUFFICES ASSUME ModelInv, [ModelNext]_modelVars PROVE ModelInv'
    OBVIOUS
  <2>1. ASSUME UNCHANGED <<artefact, training, service, modelReport>>
        PROVE  ModelInv'
    BY <2>1 DEF ModelInv, FilesInv, TrainingInv, ServedIsComplete, ReportInv
  <2>2. ASSUME NEW lines \in DatasetContents, EditEvalFile(lines) PROVE ModelInv'
    BY <2>1, <2>2 DEF EditEvalFile
  <2>3. ASSUME NEW train \in DatasetContents, NEW eval \in DatasetContents,
               StartTraining(train, eval)
        PROVE  ModelInv'
    <3>1. /\ training' = [train |-> train, eval |-> eval, next |-> 1]
          /\ SplitIsClean(train, eval) /\ UNCHANGED <<artefact, service, modelReport>>
      BY <2>3 DEF StartTraining
    <3>2. TrainingInv'
      BY <3>1 DEF TrainingInv
    <3> QED
      BY <3>1, <3>2 DEF ModelInv, FilesInv, ServedIsComplete, ReportInv
  <2>4. CASE SaveFile
    BY <2>4, SaveStep
  <2>5. CASE TrainingDies
    BY <2>5 DEF TrainingDies, ModelInv, FilesInv, TrainingInv, ServedIsComplete, ReportInv
  <2>6. CASE LoadModel
    <3>1. ServedIsComplete'
      <4>1. CASE Loadable(artefact)
        <5>1. service' = artefact
          BY <2>6, <4>1 DEF LoadModel
        <5>2. \A f \in ModelFiles : artefact[f] # None
          BY <4>1 DEF Loadable, ModelInv, FilesInv
        <5> QED
          BY <5>1, <5>2 DEF ServedIsComplete
      <4>2. CASE ~Loadable(artefact)
        BY <2>6, <4>2 DEF LoadModel, ModelInv, ServedIsComplete
      <4> QED
        BY <4>1, <4>2
    <3> QED
      BY <2>6, <3>1 DEF LoadModel, ModelInv, FilesInv, TrainingInv, ReportInv
  <2>7. CASE RestartProcess
    BY <2>7 DEF RestartProcess, ModelInv, FilesInv, TrainingInv, ServedIsComplete, ReportInv
  <2>8. ASSUME NEW right, TrainingReports(right) \/ WriteReport(right) PROVE ModelInv'
    <3>1. modelReport' = BuildReport(right) /\ UNCHANGED <<artefact, service>>
      BY <2>8 DEF TrainingReports, WriteReport
    <3>2. training' = training \/ training' = None
      BY <2>8 DEF TrainingReports, WriteReport
    <3>3. ReportInv'
      BY <3>1, BuildReportIsOfATraining DEF ReportInv
    <3>4. TrainingInv'
      BY <3>1, <3>2 DEF ModelInv, TrainingInv
    <3> QED
      BY <3>1, <3>3, <3>4 DEF ModelInv, FilesInv, ServedIsComplete
  <2>9. CASE UNCHANGED modelVars
    BY <2>1, <2>9 DEF modelVars
  <2> QED
    BY <2>2, <2>3, <2>4, <2>5, <2>6, <2>7, <2>8, <2>9 DEF ModelNext
<1>3. ModelInv => ModelIsAccounted
  BY DEF ModelInv, ModelIsAccounted, ReportedIsHeldOut, ReportInv, Trained, SplitIsClean
<1> QED
  BY <1>1, <1>2, <1>3, PTL DEF ModelSpec

-----------------------------------------------------------------------------
(* The gates, for any material, conversations and times.                   *)
(*                                                                         *)
(* Reports are built step by step, by loops over sequences: what a loop    *)
(* computes is a function of the index that follows from the one before,   *)
(* and is what the equation of the recursive function says.                *)

\* Induction, for the numbers up to n with a property.
LEMMA UpTo ==
    ASSUME NEW n \in Nat, NEW S, 0 \in S,
           \A i \in 0..n : i > 0 /\ i - 1 \in S => i \in S
    PROVE  0..n \subseteq S
<1> DEFINE missing == {i \in 0..n : i \notin S}
<1>1. missing \in SUBSET Nat
  OBVIOUS
<1>2. missing = {}
  <2> SUFFICES ASSUME missing # {} PROVE FALSE
    OBVIOUS
  <2> HIDE DEF missing
  <2>1. PICK m \in missing : \A x \in missing : m <= x
    BY <1>1, Smallest
  <2>2. m \in 0..n /\ m \notin S /\ m # 0
    BY DEF missing
  <2>3. m - 1 \in 0..n /\ m - 1 \notin missing
    BY <2>1, <2>2, <1>1
  <2> QED
    BY <2>2, <2>3 DEF missing
<1> QED
  BY <1>2

\* A value computed step by step from the one before is a function.
Follows(g, n, A, a, F) ==
    g \in [0..n -> A] /\ g[0] = a /\ \A i \in 1..n : g[i] = F[<<i, g[i - 1]>>]

LEMMA StepsExist ==
    ASSUME NEW n \in Nat, NEW A, NEW a \in A, NEW F \in [(1..n) \X A -> A]
    PROVE  \E g : Follows(g, n, A, a, F)
<1> DEFINE Q(m) == \E g \in [0..m -> A] : g[0] = a /\ \A i \in 1..m : g[i] = F[<<i, g[i - 1]>>]
           S == {m \in 0..n : Q(m)}
<1>1. Q(0)
  <2> DEFINE g == [i \in 0..0 |-> a]
  <2>1. g \in [0..0 -> A] /\ g[0] = a
    OBVIOUS
  <2>2. \A i \in 1..0 : g[i] = F[<<i, g[i - 1]>>]
    OBVIOUS
  <2> HIDE DEF g
  <2> QED
    BY <2>1, <2>2
<1>2. ASSUME NEW m \in 0..n, m > 0, Q(m - 1) PROVE Q(m)
  <2> PICK g \in [0..(m - 1) -> A] :
             g[0] = a /\ \A i \in 1..(m - 1) : g[i] = F[<<i, g[i - 1]>>]
    BY <1>2
  <2> DEFINE h == [i \in 0..m |-> IF i = m THEN F[<<m, g[m - 1]>>] ELSE g[i]]
  <2>1. h \in [0..m -> A] /\ h[0] = a
    BY <1>2
  <2>2. ASSUME NEW i \in 1..m PROVE h[i] = F[<<i, h[i - 1]>>]
    <3>1. CASE i = m
      <4>1. h[i] = F[<<m, g[m - 1]>>] /\ h[i - 1] = g[m - 1]
        BY <1>2, <3>1
      <4> QED
        BY <4>1, <3>1
    <3>2. CASE i # m
      <4>1. i \in 1..(m - 1)
        BY <3>2, <1>2
      <4>2. h[i] = g[i] /\ h[i - 1] = g[i - 1]
        BY <4>1, <1>2
      <4> QED
        BY <4>1, <4>2
    <3> QED
      BY <3>1, <3>2
  <2> HIDE DEF h
  <2> QED
    BY <2>1, <2>2
<1> HIDE DEF Q
<1>3. 0 \in S
  BY <1>1
<1>4. \A m \in 0..n : m > 0 /\ m - 1 \in S => m \in S
  BY <1>2
<1> HIDE DEF S
<1>5. n \in S
  BY <1>3, <1>4, UpTo
<1> QED
  BY <1>5 DEF S, Q, Follows

\* A sum is computed step by step.
LEMMA SumIsStepwise ==
    ASSUME NEW s \in Seq(Nat)
    PROVE  \E f \in [0..Len(s) -> Nat] :
              /\ f[0] = 0 /\ \A i \in 1..Len(s) : f[i] = f[i - 1] + s[i]
              /\ SumOf(s) = f[Len(s)]
<1> DEFINE n == Len(s)
           F == [p \in (1..n) \X Nat |-> p[2] + s[p[1]]]
<1>1. n \in Nat /\ \A i \in 1..n : s[i] \in Nat
  OBVIOUS
<1> HIDE DEF n
<1>2. F \in [(1..n) \X Nat -> Nat]
  BY <1>1
<1> HIDE DEF F
<1>3. PICK g : Follows(g, n, Nat, 0, F)
  BY <1>1, <1>2, StepsExist
<1>4. g \in [0..n -> Nat] /\ g[0] = 0 /\ \A i \in 1..n : g[i] = F[<<i, g[i - 1]>>]
  BY <1>3 DEF Follows
<1>5. \A i \in 1..n : g[i] = g[i - 1] + s[i]
  <2> TAKE i \in 1..n
  <2>1. g[i] = F[<<i, g[i - 1]>>] /\ g[i - 1] \in Nat
    BY <1>4, <1>1
  <2> QED
    BY <2>1 DEF F
<1> DEFINE sum == CHOOSE f : f = [i \in 0..n |-> IF i = 0 THEN 0 ELSE f[i - 1] + s[i]]
<1>6. g = [i \in 0..n |-> IF i = 0 THEN 0 ELSE g[i - 1] + s[i]]
  BY <1>4, <1>5, <1>1
<1>7. sum = [i \in 0..n |-> IF i = 0 THEN 0 ELSE sum[i - 1] + s[i]]
  BY <1>6
<1>8. SumOf(s) = sum[n]
  BY DEF SumOf, n
<1> HIDE DEF sum
<1>9. sum[0] = 0 /\ \A i \in 1..n : sum[i] = sum[i - 1] + s[i]
  BY <1>7, <1>1
<1> DEFINE S == {i \in 0..n : sum[i] \in Nat}
<1>10. 0 \in S
  BY <1>9, <1>1
<1>11. \A i \in 0..n : i > 0 /\ i - 1 \in S => i \in S
  <2> TAKE i \in 0..n
  <2>1. i > 0 => sum[i] = sum[i - 1] + s[i] /\ s[i] \in Nat
    BY <1>9, <1>1
  <2> QED
    BY <2>1
<1> HIDE DEF S
<1>12. 0..n \subseteq S
  BY <1>10, <1>11, <1>1, UpTo
<1>13. \A i \in 0..n : sum[i] \in Nat
  BY <1>12 DEF S
<1>14. sum \in [0..n -> Nat]
  BY <1>13, <1>7
<1> QED
  BY <1>8, <1>9, <1>14 DEF n

LEMMA SumIsANumber ==
    ASSUME NEW s \in Seq(Nat)
    PROVE  SumOf(s) \in Nat /\ (s = <<>> => SumOf(s) = 0)
<1> PICK f \in [0..Len(s) -> Nat] :
           /\ f[0] = 0 /\ \A i \in 1..Len(s) : f[i] = f[i - 1] + s[i]
           /\ SumOf(s) = f[Len(s)]
  BY SumIsStepwise
<1>1. Len(s) \in Nat /\ Len(s) \in 0..Len(s) /\ (s = <<>> => Len(s) = 0)
  OBVIOUS
<1> QED
  BY <1>1

\* One number more is added.
LEMMA SumOfOneMore ==
    ASSUME NEW s \in Seq(Nat), NEW x \in Nat
    PROVE  SumOf(Append(s, x)) = SumOf(s) + x
<1> DEFINE t == Append(s, x)
           n == Len(s)
<1>1. t \in Seq(Nat) /\ Len(t) = n + 1 /\ n \in Nat /\ t[n + 1] = x /\ \A i \in 1..n : t[i] = s[i]
  OBVIOUS
<1> HIDE DEF t, n
<1>2. PICK f \in [0..n -> Nat] :
           /\ f[0] = 0 /\ \A i \in 1..n : f[i] = f[i - 1] + s[i]
           /\ SumOf(s) = f[n]
  BY SumIsStepwise DEF n
<1>3. PICK g \in [0..Len(t) -> Nat] :
           /\ g[0] = 0 /\ \A i \in 1..Len(t) : g[i] = g[i - 1] + t[i]
           /\ SumOf(t) = g[Len(t)]
  BY <1>1, SumIsStepwise
<1> DEFINE S == {i \in 0..n : f[i] = g[i]}
<1>4. 0 \in S
  BY <1>1, <1>2, <1>3
<1>5. \A i \in 0..n : i > 0 /\ i - 1 \in S => i \in S
  <2> TAKE i \in 0..n
  <2>1. i > 0 => i \in 1..n /\ i \in 1..Len(t)
    BY <1>1
  <2>2. i > 0 => f[i] = f[i - 1] + s[i] /\ g[i] = g[i - 1] + t[i] /\ t[i] = s[i]
    BY <2>1, <1>1, <1>2, <1>3
  <2> QED
    BY <2>2
<1> HIDE DEF S
<1>6. 0..n \subseteq S
  BY <1>1, <1>4, <1>5, UpTo
<1>7. f[n] = g[n]
  BY <1>6, <1>1 DEF S
<1>8. g[n + 1] = g[n] + x
  BY <1>1, <1>3
<1> QED
  BY <1>1, <1>2, <1>3, <1>7, <1>8 DEF t

\* What is kept of a sequence grows from index to index.
Keeps(kept, s, S, A) ==
    /\ kept \in [0..Len(s) -> Seq(A \cap S)] /\ kept[0] = <<>>
    /\ \A i \in 1..Len(s) :
          kept[i] = IF s[i] \in S THEN Append(kept[i - 1], s[i]) ELSE kept[i - 1]
    /\ Keeping(s, S) = kept[Len(s)]

LEMMA KeepingIsStepwise ==
    ASSUME NEW A, NEW S, NEW s \in Seq(A)
    PROVE  \E kept : Keeps(kept, s, S, A)
<1> DEFINE n == Len(s)
           B == Seq(A \cap S)
           F == [p \in (1..n) \X B |-> IF s[p[1]] \in S THEN Append(p[2], s[p[1]]) ELSE p[2]]
<1>1. n \in Nat /\ \A i \in 1..n : s[i] \in A
  OBVIOUS
<1>2. <<>> \in B
  OBVIOUS
<1>3. \A q \in B, x \in A \cap S : Append(q, x) \in B
  OBVIOUS
<1> HIDE DEF n, B
<1>4. F \in [(1..n) \X B -> B]
  BY <1>1, <1>3
<1> HIDE DEF F
<1>5. PICK g : Follows(g, n, B, <<>>, F)
  BY <1>1, <1>2, <1>4, StepsExist
<1>6. g \in [0..n -> B] /\ g[0] = <<>> /\ \A i \in 1..n : g[i] = F[<<i, g[i - 1]>>]
  BY <1>5 DEF Follows
<1>7. \A i \in 1..n : g[i] = IF s[i] \in S THEN Append(g[i - 1], s[i]) ELSE g[i - 1]
  <2> TAKE i \in 1..n
  <2>1. g[i] = F[<<i, g[i - 1]>>] /\ g[i - 1] \in B
    BY <1>6, <1>1
  <2> QED
    BY <2>1 DEF F
<1> DEFINE Rec(f, i) == IF i = 0 THEN <<>>
                         ELSE IF s[i] \in S THEN Append(f[i - 1], s[i]) ELSE f[i - 1]
           kept == CHOOSE f : f = [i \in 0..n |-> Rec(f, i)]
<1>8. g = [i \in 0..n |-> Rec(g, i)]
  <2>1. \A i \in 0..n : g[i] = Rec(g, i)
    <3> TAKE i \in 0..n
    <3>1. i # 0 => i \in 1..n
      BY <1>1
    <3> QED
      BY <3>1, <1>6, <1>7
  <2> HIDE DEF Rec
  <2> QED
    BY <2>1, <1>6
<1>9. Keeping(s, S) = kept[n]
  BY DEF Keeping, n
<1>10. kept = [i \in 0..n |-> Rec(kept, i)]
  <2> HIDE DEF Rec
  <2> QED
    BY <1>8
<1> HIDE DEF kept
<1>11. \A i \in 0..n : kept[i] = Rec(kept, i)
  <2> HIDE DEF Rec
  <2> QED
    BY <1>10
<1>12. kept[0] = <<>>
  BY <1>11, <1>1
<1>13. \A i \in 1..n : kept[i] = IF s[i] \in S THEN Append(kept[i - 1], s[i]) ELSE kept[i - 1]
  <2> TAKE i \in 1..n
  <2>1. i \in 0..n /\ i # 0
    BY <1>1
  <2>2. kept[i] = Rec(kept, i)
    BY <2>1, <1>11
  <2> QED
    BY <2>1, <2>2
<1> DEFINE T == {i \in 0..n : kept[i] \in B}
<1>14. 0 \in T
  BY <1>12, <1>1, <1>2
<1>15. \A i \in 0..n : i > 0 /\ i - 1 \in T => i \in T
  <2> TAKE i \in 0..n
  <2>1. i > 0 => /\ s[i] \in A
                 /\ kept[i] = IF s[i] \in S THEN Append(kept[i - 1], s[i]) ELSE kept[i - 1]
    BY <1>13, <1>1
  <2> QED
    BY <2>1, <1>3
<1> HIDE DEF T
<1>16. 0..n \subseteq T
  BY <1>14, <1>15, <1>1, UpTo
<1>17. kept = [i \in 0..n |-> kept[i]] /\ \A i \in 0..n : kept[i] \in B
  <2> HIDE DEF Rec
  <2> QED
    BY <1>10, <1>16 DEF T
<1>18. kept \in [0..n -> B]
  BY <1>17
<1> QED
  BY <1>9, <1>12, <1>13, <1>18 DEF Keeps, n, B

LEMMA KeepingKeeps ==
    ASSUME NEW A, NEW S, NEW s \in Seq(A)
    PROVE  Keeping(s, S) \in Seq(A \cap S)
<1> PICK kept : Keeps(kept, s, S, A)
  BY KeepingIsStepwise
<1> QED
  BY DEF Keeps

-----------------------------------------------------------------------------
(* The material: what became of a file is said by one list; something is   *)
(* reported as soon as one chunk disagrees, whatever the limit cuts off.   *)

Chunk == [page : PageTexts, source : {file.source : file \in Shapes}, table : BOOLEAN]

Complaints == {"numeric_mismatch", "polarity_mismatch", "no_related_document"}

Lists == [loaded : SUBSET Nat, unsupported : SUBSET Nat, failed : SUBSET Nat, empty : SUBSET Nat,
          ocrRisk : SUBSET Nat, imageReview : SUBSET Nat, imageBlock : SUBSET Nat]

QualityTypes ==
    /\ qualityPhase \in {"scan", "records", "compare", "report", "judged"}
    /\ files \in Seq(Shapes) /\ records \in Seq(Rows) /\ lists \in Lists
    /\ conflicts \in Seq(Complaints) /\ compared \in 0..Len(records)

\* One of the four lists says what became of the file, and so do the others of the report.
OnlyIn(i, in, others) == i \in in /\ \A set \in others : i \notin set

Scanned(i) ==
    \/ /\ OnlyIn(i, lists.loaded, {lists.unsupported, lists.failed, lists.empty})
       /\ HasLoader(files[i]) /\ files[i].known /\ ~files[i].broken /\ LoadFile(files[i]) # <<>>
       /\ i \notin lists.ocrRisk => ~LooksLikeOcrRisk(files[i])
       /\ i \notin lists.imageBlock => ImageRisk(files[i], LoadFile(files[i])) # "block"
    \/ OnlyIn(i, lists.unsupported, {lists.loaded, lists.failed, lists.empty})
    \/ OnlyIn(i, lists.failed, {lists.loaded, lists.unsupported, lists.empty})
    \/ OnlyIn(i, lists.empty, {lists.loaded, lists.unsupported, lists.failed})

ListsAreOf(n) ==
    /\ lists.loaded \subseteq 1..n /\ lists.unsupported \subseteq 1..n /\ lists.failed \subseteq 1..n
    /\ lists.empty \subseteq 1..n /\ lists.imageBlock \subseteq 1..n

AllScanned == ListsAreOf(Len(files)) /\ \A i \in 1..Len(files) : Scanned(i)

\* A record that has a question and an answer is compared.
Whole(rec) == rec.question # None /\ rec.answer

ComparedSoFar ==
    /\ qualityPhase \in {"scan", "records"} => conflicts = <<>> /\ compared = 0
    /\ conflicts = <<>> => \A i \in 1..compared : Whole(records[i]) => Backed(records[i], AllChunks)
    /\ conflicts # <<>> =>
          \E i \in 1..Len(records) : Whole(records[i]) /\ ~Backed(records[i], AllChunks)
    /\ qualityPhase \in {"report", "judged"} => compared = Len(records)

GateJudged ==
    verdict # None =>
        /\ qualityPhase = "judged"
        /\ verdict.ok <=> GatePasses(AllChunks, verdict.maximum, verdict.needsFaq)

MaterialInv == QualityTypes /\ AllScanned /\ ComparedSoFar /\ GateJudged

\* The pages of a file that hold text.
LEMMA LoadedPages ==
    ASSUME NEW file \in Shapes
    PROVE  /\ file.pages \in Seq(PageTexts)
           /\ LoadFile(file) \in Seq(PageTexts \cap Written)
           /\ LoadFile(file) \in Seq(PageTexts)
<1>1. file.pages \in Seq(PageTexts)
  BY QualityAssumption
<1>2. LoadFile(file) \in Seq(PageTexts \cap Written)
  BY <1>1, KeepingKeeps DEF LoadFile
<1>3. \A s \in Seq(PageTexts \cap Written) : s \in Seq(PageTexts)
  OBVIOUS
<1> QED
  BY <1>1, <1>2, <1>3

\* The length of one page more is added.
LEMMA LengthOfOneMore ==
    ASSUME NEW docs \in Seq(PageTexts), NEW p \in PageTexts
    PROVE  /\ TextLength(docs) \in Nat
           /\ docs = <<>> => TextLength(docs) = 0
           /\ TextLength(Append(docs, p)) = TextLength(docs) + p.length
<1> DEFINE s == [i \in DOMAIN docs |-> docs[i].length]
           t == [i \in DOMAIN Append(docs, p) |-> Append(docs, p)[i].length]
<1>0. p.length \in Nat /\ \A d \in PageTexts : d.length \in Nat
  BY QualityAssumption
<1>1. Len(docs) \in Nat /\ DOMAIN docs = 1..Len(docs) /\ \A i \in 1..Len(docs) : docs[i] \in PageTexts
  OBVIOUS
<1>2. s \in Seq(Nat) /\ Len(s) = Len(docs)
  BY <1>0, <1>1
<1>3. t = Append(s, p.length)
  <2>1. DOMAIN t = 1..(Len(docs) + 1) /\ DOMAIN Append(s, p.length) = 1..(Len(docs) + 1)
    BY <1>1, <1>2
  <2>2. ASSUME NEW i \in 1..(Len(docs) + 1) PROVE t[i] = Append(s, p.length)[i]
    <3>1. CASE i \in 1..Len(docs)
      <4>1. t[i] = docs[i].length /\ s[i] = docs[i].length
        BY <3>1, <1>1, <2>1
      <4>2. Append(s, p.length)[i] = s[i]
        BY <3>1, <1>2, <1>0
      <4> QED
        BY <4>1, <4>2
    <3>2. CASE i = Len(docs) + 1
      BY <3>2, <1>1, <1>2, <1>0, <2>1
    <3> QED
      BY <3>1, <3>2, <1>1
  <2>3. t = [i \in 1..(Len(docs) + 1) |-> t[i]]
    BY <2>1
  <2>4. Append(s, p.length) = [i \in 1..(Len(docs) + 1) |-> Append(s, p.length)[i]]
    BY <1>2, <1>0
  <2> HIDE DEF t, s
  <2> QED
    BY <2>2, <2>3, <2>4
<1>4. TextLength(docs) = SumOf(s) /\ TextLength(Append(docs, p)) = SumOf(t)
  BY DEF TextLength
<1>5. docs = <<>> => s = <<>>
  OBVIOUS
<1> HIDE DEF s, t
<1> QED
  BY <1>0, <1>2, <1>3, <1>4, <1>5, SumIsANumber, SumOfOneMore

\* A part of a sequence, from its beginning.
LEMMA FirstPages ==
    ASSUME NEW s \in Seq(PageTexts)
    PROVE  \A i \in 0..Len(s) :
              /\ SubSeq(s, 1, i) \in Seq(PageTexts)
              /\ i > 0 => SubSeq(s, 1, i) = Append(SubSeq(s, 1, i - 1), s[i]) /\ s[i] \in PageTexts
              /\ i = 0 => SubSeq(s, 1, i) = <<>>
              /\ i = Len(s) => SubSeq(s, 1, i) = s
OBVIOUS

\* The pages without text are of no length to speak of.
LEMMA LoadedIsNoLonger ==
    ASSUME NEW s \in Seq(PageTexts)
    PROVE  /\ TextLength(s) \in Nat /\ TextLength(Keeping(s, Written)) \in Nat
           /\ TextLength(Keeping(s, Written)) <= TextLength(s)
<1> DEFINE n == Len(s)
           B == Seq(PageTexts \cap Written)
           First(i) == SubSeq(s, 1, i)
<1>1. n \in Nat /\ \A q \in B : q \in Seq(PageTexts)
  OBVIOUS
<1>2. \A i \in 0..n :
         /\ First(i) \in Seq(PageTexts)
         /\ i > 0 => First(i) = Append(First(i - 1), s[i]) /\ s[i] \in PageTexts
         /\ i = 0 => First(i) = <<>>
         /\ i = n => First(i) = s
  BY FirstPages
<1> PICK kept : Keeps(kept, s, Written, PageTexts)
  BY KeepingIsStepwise
<1>3. /\ kept \in [0..n -> B] /\ kept[0] = <<>>
      /\ \A i \in 1..n :
            kept[i] = IF s[i] \in Written THEN Append(kept[i - 1], s[i]) ELSE kept[i - 1]
      /\ Keeping(s, Written) = kept[n]
  BY DEF Keeps
<1>4. \A i \in 0..n : kept[i] \in Seq(PageTexts)
  BY <1>1, <1>3
<1> HIDE DEF n, B, First
<1> DEFINE T == {i \in 0..n : TextLength(kept[i]) <= TextLength(First(i))}
<1>5. 0 \in T
  <2>1. kept[0] = <<>> /\ First(0) = <<>> /\ 0 \in 0..n
    BY <1>1, <1>2, <1>3
  <2>2. kept[0] \in Seq(PageTexts)
    BY <1>4, <2>1
  <2>3. TextLength(kept[0]) = TextLength(First(0)) /\ TextLength(kept[0]) \in Nat
    <3>1. s \in Seq(PageTexts)
      OBVIOUS
    <3>2. \A p \in PageTexts : TextLength(kept[0]) \in Nat
      BY <2>2, LengthOfOneMore
    <3>3. PageTexts = {} => TextLength(kept[0]) \in Nat
      BY <2>1, SumIsANumber DEF TextLength
    <3> QED
      BY <2>1, <3>2, <3>3
  <2> QED
    BY <2>1, <2>3
<1>6. \A i \in 0..n : i > 0 /\ i - 1 \in T => i \in T
  <2> SUFFICES ASSUME NEW i \in 0..n, i > 0, i - 1 \in T PROVE i \in T
    OBVIOUS
  <2>1. i \in 1..n /\ i - 1 \in 0..n
    BY <1>1
  <2>2. /\ s[i] \in PageTexts /\ First(i) = Append(First(i - 1), s[i])
        /\ First(i - 1) \in Seq(PageTexts) /\ kept[i - 1] \in Seq(PageTexts)
        /\ kept[i] = IF s[i] \in Written THEN Append(kept[i - 1], s[i]) ELSE kept[i - 1]
    BY <2>1, <1>2, <1>3, <1>4
  <2>3. /\ TextLength(First(i)) = TextLength(First(i - 1)) + s[i].length
        /\ TextLength(First(i - 1)) \in Nat
    BY <2>2, LengthOfOneMore
  <2>4. /\ TextLength(Append(kept[i - 1], s[i])) = TextLength(kept[i - 1]) + s[i].length
        /\ TextLength(kept[i - 1]) \in Nat
    BY <2>2, LengthOfOneMore
  <2>5. s[i].length \in Nat
    BY <2>2, QualityAssumption
  <2>6. TextLength(kept[i - 1]) <= TextLength(First(i - 1))
    OBVIOUS
  <2>7. TextLength(kept[i]) <= TextLength(First(i))
    BY <2>2, <2>3, <2>4, <2>5, <2>6
  <2> QED
    BY <2>7
<1> HIDE DEF T
<1>7. 0..n \subseteq T
  BY <1>1, <1>5, <1>6, UpTo
<1>8. TextLength(kept[n]) <= TextLength(First(n)) /\ First(n) = s
  BY <1>1, <1>2, <1>7 DEF T
<1>9. \A q \in Seq(PageTexts) : TextLength(q) \in Nat
  <2> TAKE q \in Seq(PageTexts)
  <2>1. \A d \in PageTexts : d.length \in Nat
    BY QualityAssumption
  <2>2. [i \in DOMAIN q |-> q[i].length] \in Seq(Nat)
    BY <2>1
  <2> QED
    BY <2>2, SumIsANumber DEF TextLength
<1> QED
  BY <1>1, <1>3, <1>4, <1>8, <1>9

LEMMA ChunksAreOfFiles ==
    ASSUME files \in Seq(Shapes), NEW i \in 1..Len(files)
    PROVE  ChunksOf(i) \in Seq(Chunk)
<1>1. files[i] \in Shapes
  OBVIOUS
<1> DEFINE docs == LoadFile(files[i])
           src  == files[i].source
           tab  == (files[i].kind = "table")
<1>2. docs \in Seq(PageTexts) /\ src \in {file.source : file \in Shapes} /\ tab \in BOOLEAN
  BY <1>1, LoadedPages
<1>3. ChunksOf(i) = IF i \notin lists.loaded THEN <<>>
                    ELSE [p \in DOMAIN docs |-> [page |-> docs[p], source |-> src, table |-> tab]]
  BY DEF ChunksOf
<1> HIDE DEF docs, src, tab
<1>4. \A d \in PageTexts : [page |-> d, source |-> src, table |-> tab] \in Chunk
  BY <1>2 DEF Chunk
<1>5. Len(docs) \in Nat /\ DOMAIN docs = 1..Len(docs) /\ \A p \in 1..Len(docs) : docs[p] \in PageTexts
  BY <1>2
<1>6. [p \in DOMAIN docs |-> [page |-> docs[p], source |-> src, table |-> tab]] \in Seq(Chunk)
  <2> DEFINE c(p) == [page |-> docs[p], source |-> src, table |-> tab]
  <2>1. \A p \in 1..Len(docs) : c(p) \in Chunk
    BY <1>4, <1>5
  <2> HIDE DEF c
  <2>2. [p \in 1..Len(docs) |-> c(p)] \in Seq(Chunk)
    BY <1>5, <2>1
  <2> QED
    BY <2>2, <1>5 DEF c
<1>7. <<>> \in Seq(Chunk)
  OBVIOUS
<1> QED
  BY <1>3, <1>6, <1>7

LEMMA ChunksAreASequence ==
    ASSUME files \in Seq(Shapes)
    PROVE  AllChunks \in Seq(Chunk)
<1> DEFINE n == Len(files)
           B == Seq(Chunk)
           F == [p \in (1..n) \X B |-> p[2] \o ChunksOf(p[1])]
<1>1. n \in Nat /\ \A i \in 1..n : ChunksOf(i) \in B
  BY ChunksAreOfFiles
<1>2. <<>> \in B
  OBVIOUS
<1>3. \A q, r \in B : q \o r \in B
  OBVIOUS
<1> HIDE DEF n, B
<1>4. F \in [(1..n) \X B -> B]
  BY <1>1, <1>3
<1> HIDE DEF F
<1>5. PICK g : Follows(g, n, B, <<>>, F)
  BY <1>1, <1>2, <1>4, StepsExist
<1>6. g \in [0..n -> B] /\ g[0] = <<>> /\ \A i \in 1..n : g[i] = F[<<i, g[i - 1]>>]
  BY <1>5 DEF Follows
<1>7. \A i \in 1..n : g[i] = g[i - 1] \o ChunksOf(i)
  <2> TAKE i \in 1..n
  <2>1. g[i] = F[<<i, g[i - 1]>>] /\ g[i - 1] \in B
    BY <1>6, <1>1
  <2> QED
    BY <2>1 DEF F
<1> DEFINE Rec(f, i) == IF i = 0 THEN <<>> ELSE f[i - 1] \o ChunksOf(i)
           upto == CHOOSE f : f = [i \in 0..n |-> Rec(f, i)]
<1>8. g = [i \in 0..n |-> Rec(g, i)]
  <2>1. \A i \in 0..n : g[i] = Rec(g, i)
    <3> TAKE i \in 0..n
    <3>1. i # 0 => i \in 1..n
      BY <1>1
    <3> QED
      BY <3>1, <1>6, <1>7
  <2> HIDE DEF Rec
  <2> QED
    BY <2>1, <1>6
<1>9. AllChunks = upto[n]
  BY DEF AllChunks, n
<1>10. upto = [i \in 0..n |-> Rec(upto, i)]
  <2> HIDE DEF Rec
  <2> QED
    BY <1>8
<1> HIDE DEF upto
<1>11. \A i \in 0..n : upto[i] = Rec(upto, i)
  <2> HIDE DEF Rec
  <2> QED
    BY <1>10
<1>12. upto[0] = <<>> /\ \A i \in 1..n : upto[i] = upto[i - 1] \o ChunksOf(i)
  <2>1. upto[0] = <<>>
    BY <1>11, <1>1
  <2>2. \A i \in 1..n : upto[i] = upto[i - 1] \o ChunksOf(i)
    <3> TAKE i \in 1..n
    <3>1. i \in 0..n /\ i # 0
      BY <1>1
    <3>2. upto[i] = Rec(upto, i)
      BY <3>1, <1>11
    <3> QED
      BY <3>1, <3>2
  <2> QED
    BY <2>1, <2>2
<1> DEFINE T == {i \in 0..n : upto[i] \in B}
<1>13. 0 \in T
  BY <1>12, <1>1, <1>2
<1>14. \A i \in 0..n : i > 0 /\ i - 1 \in T => i \in T
  <2> TAKE i \in 0..n
  <2>1. i > 0 => i \in 1..n
    BY <1>1
  <2>2. i > 0 => ChunksOf(i) \in B /\ upto[i] = upto[i - 1] \o ChunksOf(i)
    BY <2>1, <1>12, <1>1
  <2> QED
    BY <2>2, <1>3
<1> HIDE DEF T
<1>15. 0..n \subseteq T
  BY <1>13, <1>14, <1>1, UpTo
<1> QED
  BY <1>1, <1>9, <1>15 DEF T, B

\* The chunks a record is compared with are counted.
LEMMA TopIsASequence ==
    ASSUME NEW rec, NEW chunks \in Seq(Chunk)
    PROVE  LET top == TopOf(rec, chunks)
           IN  /\ Len(top) \in Nat /\ DOMAIN top = 1..Len(top) /\ (top = <<>> <=> Len(top) = 0)
<1> DEFINE related == {i \in DOMAIN chunks : Related(rec, chunks[i])}
           Rank(i)  == Cardinality({j \in related :
                          LET a == Cardinality(SharedWords(rec, chunks[i]))
                              b == Cardinality(SharedWords(rec, chunks[j]))
                          IN  b > a \/ (b = a /\ j < i)})
           near == {i \in related : Rank(i) < TopRelated}
           n    == Cardinality(near)
           E(k) == chunks[CHOOSE i \in related : Rank(i) = k - 1]
<1>1. Len(chunks) \in Nat /\ DOMAIN chunks = 1..Len(chunks)
  OBVIOUS
<1>2. near \in SUBSET (1..Len(chunks))
  BY <1>1
<1>3. TopOf(rec, chunks) = [k \in 1..n |-> E(k)]
  BY DEF TopOf
<1> HIDE DEF related, Rank, E, near
<1>4. n \in Nat
  <2>1. IsFiniteSet(1..Len(chunks))
    BY <1>1, FS_Interval
  <2>2. IsFiniteSet(near)
    BY <1>2, <2>1, FS_Subset
  <2> QED
    BY <2>2, FS_CardinalityType
<1> HIDE DEF n
<1>5. [k \in 1..n |-> E(k)] \in [1..n -> {E(k) : k \in 1..n}]
  OBVIOUS
<1>6. \A X, f : f \in [1..n -> X] => f \in Seq(X) /\ Len(f) = n
  BY <1>4
<1>7. TopOf(rec, chunks) \in Seq({E(k) : k \in 1..n})
  BY <1>3, <1>5, <1>6
<1> DEFINE top == TopOf(rec, chunks)
           X   == {E(k) : k \in 1..n}
<1>8. \A t \in Seq(X) : Len(t) \in Nat /\ DOMAIN t = 1..Len(t) /\ (t = <<>> <=> Len(t) = 0)
  OBVIOUS
<1> HIDE DEF X
<1> QED
  BY <1>7, <1>8 DEF X

LEMMA MismatchesAreComplaints ==
    ASSUME NEW rec, NEW chunk
    PROVE  Mismatches(rec, chunk) \in Seq(Complaints)
<1> DEFINE a == IF rec.numbers # {} /\ chunk.page.numbers # {} /\ rec.numbers \cap chunk.page.numbers = {}
                  THEN <<"numeric_mismatch">> ELSE <<>>
           b == IF {rec.polarity, chunk.page.polarity} = {"positive", "negative"}
                  THEN <<"polarity_mismatch">> ELSE <<>>
<1>1. <<"numeric_mismatch">> \in Seq(Complaints) /\ <<"polarity_mismatch">> \in Seq(Complaints)
      /\ <<>> \in Seq(Complaints)
  BY DEF Complaints
<1>2. a \in Seq(Complaints) /\ b \in Seq(Complaints)
  BY <1>1
<1>3. Mismatches(rec, chunk) = a \o b
  BY DEF Mismatches
<1> HIDE DEF a, b
<1> QED
  BY <1>2, <1>3

\* Something is found exactly if something was found before or a compared chunk disagrees.
LEMMA ConflictsAreFound ==
    ASSUME NEW rec, NEW chunks \in Seq(Chunk), NEW before \in Seq(Complaints)
    PROVE  /\ Conflicting(rec, chunks, before) \in Seq(Complaints)
           /\ Conflicting(rec, chunks, before) = <<>> <=> before = <<>> /\ Backed(rec, chunks)
<1> DEFINE top  == TopOf(rec, chunks)
           n    == Len(top)
           B    == Seq(Complaints)
           M(k) == Mismatches(rec, top[k])
           Full(q) == Len(q) >= ConflictLimit
           F == [p \in (1..n) \X B |-> IF p[1] > 1 /\ Full(p[2]) THEN p[2] ELSE p[2] \o M(p[1])]
<1>1. n \in Nat /\ DOMAIN top = 1..n /\ (top = <<>> <=> n = 0)
  BY TopIsASequence
<1>2. before \in B /\ \A k \in 1..n : M(k) \in B
  BY MismatchesAreComplaints
<1>3. \A q, r \in B : q \o r \in B /\ (q \o r = <<>> <=> q = <<>> /\ r = <<>>)
  OBVIOUS
<1>4. \A q \in B : Full(q) => q # <<>>
  BY QualityAssumption
<1>5. Append(before, "no_related_document") \in B /\ Append(before, "no_related_document") # <<>>
  BY DEF Complaints
<1> DEFINE Rec(f, k) == IF k = 0 THEN before
                         ELSE IF k > 1 /\ Full(f[k - 1]) THEN f[k - 1]
                         ELSE f[k - 1] \o M(k)
           upto == CHOOSE f : f = [k \in 0..n |-> Rec(f, k)]
<1>6. Conflicting(rec, chunks, before)
        = IF top = <<>> THEN Append(before, "no_related_document") ELSE upto[n]
  BY DEF Conflicting
<1>7. Backed(rec, chunks) <=> top # <<>> /\ \A k \in 1..n : M(k) = <<>>
  BY <1>1 DEF Backed
<1> HIDE DEF top, n, B, M, Full
<1>8. F \in [(1..n) \X B -> B]
  BY <1>1, <1>2, <1>3
<1> HIDE DEF F
<1>9. PICK g : Follows(g, n, B, before, F)
  BY <1>1, <1>2, <1>8, StepsExist
<1>10. g \in [0..n -> B] /\ g[0] = before /\ \A i \in 1..n : g[i] = F[<<i, g[i - 1]>>]
  BY <1>9 DEF Follows
<1>11. \A i \in 1..n : g[i] = IF i > 1 /\ Full(g[i - 1]) THEN g[i - 1] ELSE g[i - 1] \o M(i)
  <2> TAKE i \in 1..n
  <2>1. g[i] = F[<<i, g[i - 1]>>] /\ g[i - 1] \in B
    BY <1>10, <1>1
  <2> QED
    BY <2>1 DEF F
<1>12. g = [i \in 0..n |-> Rec(g, i)]
  <2>1. \A i \in 0..n : g[i] = Rec(g, i)
    <3> TAKE i \in 0..n
    <3>1. i # 0 => i \in 1..n
      BY <1>1
    <3> QED
      BY <3>1, <1>10, <1>11
  <2> HIDE DEF Rec
  <2> QED
    BY <2>1, <1>10
<1>13. upto = [i \in 0..n |-> Rec(upto, i)]
  <2> HIDE DEF Rec
  <2> QED
    BY <1>12
<1> HIDE DEF upto
<1>14. \A i \in 0..n : upto[i] = Rec(upto, i)
  <2> HIDE DEF Rec
  <2> QED
    BY <1>13
<1>15. upto[0] = before
  BY <1>14, <1>1
<1>16. \A i \in 1..n : upto[i] = IF i > 1 /\ Full(upto[i - 1]) THEN upto[i - 1]
                                 ELSE upto[i - 1] \o M(i)
  <2> TAKE i \in 1..n
  <2>1. i \in 0..n /\ i # 0
    BY <1>1
  <2>2. upto[i] = Rec(upto, i)
    BY <2>1, <1>14
  <2> QED
    BY <2>1, <2>2
<1> HIDE DEF Rec
<1> DEFINE T == {i \in 0..n : /\ upto[i] \in B
                              /\ upto[i] = <<>> <=> before = <<>> /\ \A k \in 1..i : M(k) = <<>>}
<1>17. 0 \in T
  BY <1>15, <1>1, <1>2
<1>18. \A i \in 0..n : i > 0 /\ i - 1 \in T => i \in T
  <2> SUFFICES ASSUME NEW i \in 0..n, i > 0, i - 1 \in T PROVE i \in T
    OBVIOUS
  <2>1. i \in 1..n
    BY <1>1
  <2>2. /\ upto[i - 1] \in B
        /\ upto[i - 1] = <<>> <=> before = <<>> /\ \A k \in 1..(i - 1) : M(k) = <<>>
    OBVIOUS
  <2>3. (\A k \in 1..i : M(k) = <<>>) <=> (\A k \in 1..(i - 1) : M(k) = <<>>) /\ M(i) = <<>>
    BY <2>1
  <2>4. M(i) \in B
    BY <2>1, <1>2
  <2>5. CASE i > 1 /\ Full(upto[i - 1])
    <3>1. upto[i] = upto[i - 1] /\ upto[i - 1] # <<>>
      BY <2>1, <2>2, <2>5, <1>4, <1>16
    <3> QED
      BY <3>1, <2>2, <2>3
  <2>6. CASE ~(i > 1 /\ Full(upto[i - 1]))
    <3>1. upto[i] = upto[i - 1] \o M(i)
      BY <2>1, <2>6, <1>16
    <3>2. upto[i] \in B /\ (upto[i] = <<>> <=> upto[i - 1] = <<>> /\ M(i) = <<>>)
      BY <3>1, <2>2, <2>4, <1>3
    <3> QED
      BY <3>2, <2>2, <2>3
  <2> QED
    BY <2>5, <2>6
<1> HIDE DEF T
<1>181. 0..n \subseteq T
  BY <1>17, <1>18, <1>1, UpTo
<1>19. n \in T
  BY <1>181, <1>1
<1>20. /\ upto[n] \in B
       /\ upto[n] = <<>> <=> before = <<>> /\ \A k \in 1..n : M(k) = <<>>
  BY <1>19 DEF T
<1>21. Conflicting(rec, chunks, before) \in B
  BY <1>5, <1>6, <1>20
<1>22. Conflicting(rec, chunks, before) = <<>> <=> before = <<>> /\ Backed(rec, chunks)
  BY <1>5, <1>6, <1>7, <1>20
<1> QED
  BY <1>21, <1>22 DEF B

\* What scanning a file puts into the lists.
PutIn(new, old, i) == new = old \cup {i}

LEMMA FileIsPut ==
    ASSUME lists \in Lists, NEW file \in Shapes, NEW i \in Nat
    PROVE  LET l == ListsFor(file, i)
           IN  /\ l \in Lists
               /\ l.imageBlock = lists.imageBlock \/ PutIn(l.imageBlock, lists.imageBlock, i)
               /\ l.ocrRisk = lists.ocrRisk \/ PutIn(l.ocrRisk, lists.ocrRisk, i)
               /\ \/ /\ PutIn(l.loaded, lists.loaded, i) /\ l.unsupported = lists.unsupported
                     /\ l.failed = lists.failed /\ l.empty = lists.empty
                     /\ HasLoader(file) /\ file.known /\ ~file.broken /\ LoadFile(file) # <<>>
                     /\ i \notin l.ocrRisk => ~LooksLikeOcrRisk(file)
                     /\ i \notin l.imageBlock => ImageRisk(file, LoadFile(file)) # "block"
                  \/ /\ PutIn(l.unsupported, lists.unsupported, i) /\ l.loaded = lists.loaded
                     /\ l.failed = lists.failed /\ l.empty = lists.empty
                  \/ /\ PutIn(l.failed, lists.failed, i) /\ l.loaded = lists.loaded
                     /\ l.unsupported = lists.unsupported /\ l.empty = lists.empty
                  \/ /\ PutIn(l.empty, lists.empty, i) /\ l.loaded = lists.loaded
                     /\ l.unsupported = lists.unsupported /\ l.failed = lists.failed
<1> DEFINE docs  == LoadFile(file)
           risk  == ImageRisk(file, IF HasLoader(file) THEN docs ELSE <<>>)
           rev   == With(lists.imageReview, i, risk = "review")
           block == With(lists.imageBlock, i, risk = "block")
           noisy   == With(lists.ocrRisk, i, LooksLikeOcrRisk(file))
           seen  == [lists EXCEPT !.imageReview = rev, !.imageBlock = block]
           l     == ListsFor(file, i)
<1>1. l = IF ~HasLoader(file) THEN [seen EXCEPT !.unsupported = @ \cup {i}]
          ELSE IF ~file.known THEN [lists EXCEPT !.unsupported = @ \cup {i}]
          ELSE IF file.broken THEN [lists EXCEPT !.failed = @ \cup {i}]
          ELSE IF docs = <<>> THEN [seen EXCEPT !.empty = @ \cup {i}]
          ELSE [seen EXCEPT !.loaded = @ \cup {i}, !.ocrRisk = noisy]
  BY DEF ListsFor
<1>2. /\ lists.imageReview \in SUBSET Nat /\ lists.imageBlock \in SUBSET Nat
      /\ lists.ocrRisk \in SUBSET Nat /\ lists.loaded \in SUBSET Nat /\ lists.empty \in SUBSET Nat
      /\ lists.failed \in SUBSET Nat /\ lists.unsupported \in SUBSET Nat
  BY DEF Lists
<1>3. \A set \in SUBSET Nat, c \in BOOLEAN :
         /\ With(set, i, c) \in SUBSET Nat
         /\ With(set, i, c) = set \/ PutIn(With(set, i, c), set, i)
         /\ c => i \in With(set, i, c)
  BY DEF With, PutIn
<1>4. /\ rev \in SUBSET Nat /\ block \in SUBSET Nat
      /\ block = lists.imageBlock \/ PutIn(block, lists.imageBlock, i)
      /\ risk = "block" => i \in block
  BY <1>2, <1>3
<1>5. LooksLikeOcrRisk(file) \in BOOLEAN
  BY DEF LooksLikeOcrRisk
<1>6. /\ noisy \in SUBSET Nat
      /\ noisy = lists.ocrRisk \/ PutIn(noisy, lists.ocrRisk, i)
      /\ LooksLikeOcrRisk(file) => i \in noisy
  BY <1>2, <1>3, <1>5
<1>7. HasLoader(file) => risk = ImageRisk(file, LoadFile(file))
  OBVIOUS
<1> HIDE DEF rev, block, noisy, risk, l
<1>8. /\ seen \in Lists /\ seen.imageBlock = block /\ seen.ocrRisk = lists.ocrRisk
      /\ seen.loaded = lists.loaded /\ seen.unsupported = lists.unsupported
      /\ seen.failed = lists.failed /\ seen.empty = lists.empty
  BY <1>4 DEF Lists
<1> HIDE DEF seen
<1>9. CASE ~HasLoader(file)
  <2>1. l = [seen EXCEPT !.unsupported = @ \cup {i}]
    BY <1>1, <1>9
  <2>2. /\ l \in Lists /\ l.unsupported = lists.unsupported \cup {i}
        /\ l.imageBlock = block /\ l.ocrRisk = lists.ocrRisk
        /\ l.loaded = lists.loaded /\ l.failed = lists.failed /\ l.empty = lists.empty
    BY <2>1, <1>8 DEF Lists
  <2> QED
    BY <2>2, <1>4 DEF PutIn, l
<1>10. CASE HasLoader(file) /\ ~file.known
  <2>1. l = [lists EXCEPT !.unsupported = @ \cup {i}]
    BY <1>1, <1>10
  <2>2. /\ l \in Lists /\ l.unsupported = lists.unsupported \cup {i}
        /\ l.imageBlock = lists.imageBlock /\ l.ocrRisk = lists.ocrRisk
        /\ l.loaded = lists.loaded /\ l.failed = lists.failed /\ l.empty = lists.empty
    BY <2>1 DEF Lists
  <2> QED
    BY <2>2 DEF PutIn, l
<1>11. CASE HasLoader(file) /\ file.known /\ file.broken
  <2>1. l = [lists EXCEPT !.failed = @ \cup {i}]
    BY <1>1, <1>11
  <2>2. /\ l \in Lists /\ l.failed = lists.failed \cup {i}
        /\ l.imageBlock = lists.imageBlock /\ l.ocrRisk = lists.ocrRisk
        /\ l.loaded = lists.loaded /\ l.unsupported = lists.unsupported /\ l.empty = lists.empty
    BY <2>1 DEF Lists
  <2> QED
    BY <2>2 DEF PutIn, l
<1>12. CASE HasLoader(file) /\ file.known /\ ~file.broken /\ docs = <<>>
  <2>1. l = [seen EXCEPT !.empty = @ \cup {i}]
    BY <1>1, <1>12
  <2>2. /\ l \in Lists /\ l.empty = lists.empty \cup {i}
        /\ l.imageBlock = block /\ l.ocrRisk = lists.ocrRisk
        /\ l.loaded = lists.loaded /\ l.failed = lists.failed /\ l.unsupported = lists.unsupported
    BY <2>1, <1>8 DEF Lists
  <2> QED
    BY <2>2, <1>4 DEF PutIn, l
<1>13. CASE HasLoader(file) /\ file.known /\ ~file.broken /\ docs # <<>>
  <2>1. l = [seen EXCEPT !.loaded = @ \cup {i}, !.ocrRisk = noisy]
    BY <1>1, <1>13
  <2>2. /\ l \in Lists /\ l.loaded = lists.loaded \cup {i}
        /\ l.imageBlock = block /\ l.ocrRisk = noisy
        /\ l.empty = lists.empty /\ l.failed = lists.failed /\ l.unsupported = lists.unsupported
    BY <2>1, <1>6, <1>8 DEF Lists
  <2>3. /\ i \notin l.ocrRisk => ~LooksLikeOcrRisk(file)
        /\ i \notin l.imageBlock => ImageRisk(file, LoadFile(file)) # "block"
    BY <2>2, <1>4, <1>6, <1>7, <1>13
  <2> QED
    BY <2>2, <2>3, <1>4, <1>6, <1>13 DEF PutIn, l
<1> QED
  BY <1>9, <1>10, <1>11, <1>12, <1>13

LEMMA MaterialRests ==
    ASSUME UNCHANGED <<files, lists>>
    PROVE  AllChunks' = AllChunks /\ (AllScanned' <=> AllScanned)
<1>1. AllChunks' = AllChunks
  BY DEF AllChunks, ChunksOf
<1>2. AllScanned' <=> AllScanned
  BY DEF AllScanned, ListsAreOf, Scanned
<1> QED
  BY <1>1, <1>2

LEMMA MaterialInitHolds == QualityInit => MaterialInv
<1> SUFFICES ASSUME QualityInit PROVE MaterialInv
  OBVIOUS
<1>1. /\ qualityPhase = "scan" /\ files = <<>> /\ lists = Empty
      /\ records = <<>> /\ compared = 0 /\ conflicts = <<>> /\ verdict = None
  BY DEF QualityInit
<1>2. /\ lists \in Lists /\ lists.loaded = {} /\ lists.unsupported = {} /\ lists.failed = {}
      /\ lists.empty = {} /\ lists.imageBlock = {}
  BY <1>1 DEF Lists, Empty
<1>3. files \in Seq(Shapes) /\ Len(files) = 0 /\ records \in Seq(Rows) /\ Len(records) = 0
      /\ conflicts \in Seq(Complaints) /\ compared \in 0..0
  BY <1>1
<1>4. QualityTypes
  BY <1>1, <1>2, <1>3 DEF QualityTypes
<1>5. AllScanned
  BY <1>2, <1>3 DEF AllScanned, ListsAreOf
<1>6. ComparedSoFar
  BY <1>1 DEF ComparedSoFar
<1> QED
  BY <1>1, <1>4, <1>5, <1>6 DEF MaterialInv, GateJudged

LEMMA ScanFileKeeps == ASSUME MaterialInv, NEW file \in Shapes, ScanFile(file) PROVE MaterialInv'
<1>0. Len(files) \in Nat
  BY DEF MaterialInv, QualityTypes
<1> PICK n \in Nat : n = Len(files)
  BY <1>0
<1> DEFINE l == ListsFor(file, n + 1)
<1>1. /\ qualityPhase = "scan" /\ files' = Append(files, file) /\ lists' = l
      /\ UNCHANGED <<qualityPhase, records, hasFaq, compared, conflicts, verdict>>
  BY DEF ScanFile
<1>2. /\ files \in Seq(Shapes) /\ lists \in Lists /\ n \in Nat
      /\ ListsAreOf(n) /\ \A k \in 1..n : Scanned(k)
  BY DEF MaterialInv, QualityTypes, AllScanned
<1>3. /\ files' \in Seq(Shapes) /\ Len(files') = n + 1 /\ files'[n + 1] = file
      /\ \A k \in 1..n : files'[k] = files[k]
  BY <1>1, <1>2
<1>4. /\ l \in Lists
      /\ l.imageBlock = lists.imageBlock \/ PutIn(l.imageBlock, lists.imageBlock, n + 1)
      /\ l.ocrRisk = lists.ocrRisk \/ PutIn(l.ocrRisk, lists.ocrRisk, n + 1)
      /\ \/ /\ PutIn(l.loaded, lists.loaded, n + 1) /\ l.unsupported = lists.unsupported
            /\ l.failed = lists.failed /\ l.empty = lists.empty
            /\ HasLoader(file) /\ file.known /\ ~file.broken /\ LoadFile(file) # <<>>
            /\ n + 1 \notin l.ocrRisk => ~LooksLikeOcrRisk(file)
            /\ n + 1 \notin l.imageBlock => ImageRisk(file, LoadFile(file)) # "block"
         \/ /\ PutIn(l.unsupported, lists.unsupported, n + 1) /\ l.loaded = lists.loaded
            /\ l.failed = lists.failed /\ l.empty = lists.empty
         \/ /\ PutIn(l.failed, lists.failed, n + 1) /\ l.loaded = lists.loaded
            /\ l.unsupported = lists.unsupported /\ l.empty = lists.empty
         \/ /\ PutIn(l.empty, lists.empty, n + 1) /\ l.loaded = lists.loaded
            /\ l.unsupported = lists.unsupported /\ l.failed = lists.failed
  BY <1>2, FileIsPut
<1> HIDE DEF l
<1>5. ListsAreOf(n + 1)'
  <2>1. 1..n \subseteq 1..(n + 1) /\ n + 1 \in 1..(n + 1)
    OBVIOUS
  <2> QED
    BY <2>1, <1>1, <1>2, <1>4 DEF ListsAreOf, PutIn
<1>6. ASSUME NEW k \in 1..n PROVE Scanned(k)'
  <2>1. Scanned(k) /\ files'[k] = files[k] /\ k # n + 1
    BY <1>2, <1>3
  <2>2. /\ (k \in l.loaded <=> k \in lists.loaded) /\ (k \in l.unsupported <=> k \in lists.unsupported)
        /\ (k \in l.failed <=> k \in lists.failed) /\ (k \in l.empty <=> k \in lists.empty)
        /\ (k \in l.ocrRisk <=> k \in lists.ocrRisk)
        /\ (k \in l.imageBlock <=> k \in lists.imageBlock)
    BY <2>1, <1>4 DEF PutIn
  <2> QED
    BY <2>1, <2>2, <1>1 DEF Scanned, OnlyIn
<1>7. Scanned(n + 1)'
  <2>1. /\ n + 1 \notin lists.loaded /\ n + 1 \notin lists.unsupported /\ n + 1 \notin lists.failed
        /\ n + 1 \notin lists.empty
    BY <1>2 DEF ListsAreOf
  <2> QED
    BY <2>1, <1>1, <1>3, <1>4 DEF Scanned, OnlyIn, PutIn
<1>8. \A k \in 1..(n + 1) : k \in 1..n \/ k = n + 1
  BY <1>2
<1>9. AllScanned'
  BY <1>3, <1>5, <1>6, <1>7, <1>8 DEF AllScanned
<1>10. conflicts = <<>> /\ compared = 0 /\ verdict = None
  BY <1>1 DEF MaterialInv, ComparedSoFar, GateJudged
<1>11. ComparedSoFar' /\ GateJudged'
  BY <1>1, <1>10 DEF ComparedSoFar, GateJudged
<1>12. QualityTypes'
  BY <1>1, <1>3, <1>4 DEF MaterialInv, QualityTypes
<1> QED
  BY <1>9, <1>11, <1>12 DEF MaterialInv

\* A step that only goes on from the files to the records, and from those to the comparison.
LEMMA ReadRowKeeps == ASSUME MaterialInv, NEW rec \in Rows, ReadRow(rec) PROVE MaterialInv'
<1>1. /\ qualityPhase = "records" /\ records' = Append(records, rec)
      /\ UNCHANGED <<qualityPhase, files, lists, hasFaq, compared, conflicts, verdict>>
  BY DEF ReadRow
<1>2. conflicts = <<>> /\ compared = 0 /\ verdict = None
  BY <1>1 DEF MaterialInv, ComparedSoFar, GateJudged
<1>3. records' \in Seq(Rows) /\ 0 \in 0..Len(records')
  BY <1>1 DEF MaterialInv, QualityTypes
<1>4. QualityTypes'
  BY <1>1, <1>2, <1>3 DEF MaterialInv, QualityTypes
<1>5. AllScanned'
  BY <1>1, MaterialRests DEF MaterialInv
<1>6. ComparedSoFar' /\ GateJudged'
  BY <1>1, <1>2 DEF ComparedSoFar, GateJudged
<1> QED
  BY <1>4, <1>5, <1>6 DEF MaterialInv

LEMMA PhasesKeep == MaterialInv /\ (ScanEnds \/ RowsEnd \/ CompareEnds) => MaterialInv'
<1> SUFFICES ASSUME MaterialInv, ScanEnds \/ RowsEnd \/ CompareEnds PROVE MaterialInv'
  OBVIOUS
<1>1. /\ UNCHANGED <<files, lists, records, hasFaq, compared, conflicts, verdict>>
      /\ \/ qualityPhase = "scan" /\ qualityPhase' = "records"
         \/ qualityPhase = "records" /\ qualityPhase' = "compare"
         \/ qualityPhase = "compare" /\ compared = Len(records) /\ qualityPhase' = "report"
  BY DEF ScanEnds, RowsEnd, CompareEnds
<1>2. QualityTypes'
  BY <1>1 DEF MaterialInv, QualityTypes
<1>3. AllChunks' = AllChunks /\ AllScanned'
  BY <1>1, MaterialRests DEF MaterialInv
<1>4. ComparedSoFar'
  BY <1>1, <1>3 DEF MaterialInv, ComparedSoFar
<1>5. GateJudged'
  BY <1>1 DEF MaterialInv, GateJudged
<1> QED
  BY <1>2, <1>3, <1>4, <1>5 DEF MaterialInv

LEMMA CompareRecordKeeps == MaterialInv /\ CompareRecord => MaterialInv'
<1> SUFFICES ASSUME MaterialInv, CompareRecord PROVE MaterialInv'
  OBVIOUS
<1> DEFINE rec == records[compared + 1]
           now == IF rec.question = None \/ ~rec.answer THEN conflicts
                  ELSE Conflicting(rec, AllChunks, conflicts)
<1>1. /\ qualityPhase = "compare" /\ compared < Len(records) /\ conflicts' = now
      /\ compared' = IF rec.question # None /\ rec.answer /\ Stops(rec, AllChunks, now)
                       THEN Len(records) ELSE compared + 1
      /\ UNCHANGED <<qualityPhase, files, lists, records, hasFaq, verdict>>
  BY DEF CompareRecord
<1>2. /\ files \in Seq(Shapes) /\ records \in Seq(Rows) /\ Len(records) \in Nat
      /\ conflicts \in Seq(Complaints) /\ compared \in 0..Len(records)
  BY DEF MaterialInv, QualityTypes
<1>3. compared + 1 \in 1..Len(records) /\ compared \in Nat
  BY <1>1, <1>2
<1>4. AllChunks \in Seq(Chunk) /\ AllChunks' = AllChunks
  BY <1>1, <1>2, ChunksAreASequence, MaterialRests
<1>5. /\ now \in Seq(Complaints)
      /\ now = <<>> <=> conflicts = <<>> /\ (Whole(rec) => Backed(rec, AllChunks))
  <2>1. CASE Whole(rec)
    <3>1. now = Conflicting(rec, AllChunks, conflicts)
      BY <2>1 DEF Whole
    <3> QED
      BY <2>1, <3>1, <1>2, <1>4, ConflictsAreFound
  <2>2. CASE ~Whole(rec)
    <3>1. now = conflicts
      BY <2>2 DEF Whole
    <3> QED
      BY <2>2, <3>1, <1>2
  <2> QED
    BY <2>1, <2>2
<1>6. compared' = Len(records) \/ compared' = compared + 1
  BY <1>1
<1>7. now = <<>> => compared' = compared + 1
  <2>1. Stops(rec, AllChunks, now) => Len(now) >= ConflictLimit
    BY DEF Stops
  <2>2. now = <<>> => Len(now) = 0
    OBVIOUS
  <2> HIDE DEF rec, now
  <2>3. ConflictLimit \in Nat \ {0}
    BY QualityAssumption
  <2>4. now = <<>> => ~Stops(rec, AllChunks, now)
    BY <2>1, <2>2, <2>3
  <2> QED
    BY <2>4, <1>1
<1> HIDE DEF now
<1>8. compared' \in 0..Len(records)
  BY <1>2, <1>3, <1>6
<1>9. QualityTypes'
  BY <1>1, <1>5, <1>8 DEF MaterialInv, QualityTypes
<1>10. now = <<>> => \A i \in 1..(compared + 1) : Whole(records[i]) => Backed(records[i], AllChunks)
  <2> SUFFICES ASSUME now = <<>>, NEW i \in 1..(compared + 1), Whole(records[i])
               PROVE  Backed(records[i], AllChunks)
    OBVIOUS
  <2>1. CASE i = compared + 1
    BY <2>1, <1>5
  <2>2. CASE i \in 1..compared
    BY <2>2, <1>5 DEF MaterialInv, ComparedSoFar
  <2> QED
    BY <2>1, <2>2, <1>3
<1>11. now # <<>> => \E i \in 1..Len(records) : Whole(records[i]) /\ ~Backed(records[i], AllChunks)
  BY <1>3, <1>5 DEF MaterialInv, ComparedSoFar
<1>12. ComparedSoFar'
  BY <1>1, <1>4, <1>7, <1>10, <1>11 DEF ComparedSoFar
<1>13. AllScanned'
  BY <1>1, MaterialRests DEF MaterialInv
<1>14. GateJudged'
  BY <1>1 DEF MaterialInv, GateJudged
<1> QED
  BY <1>9, <1>12, <1>13, <1>14 DEF MaterialInv

\* A verdict is of what it was given on.
LEMMA GateRests ==
    ASSUME UNCHANGED <<files, lists, records, hasFaq, conflicts>>,
           NEW chunks, NEW maximum, NEW needsFaq
    PROVE  GatePasses(chunks, maximum, needsFaq)' <=> GatePasses(chunks, maximum, needsFaq)
<1>1. Counts(chunks)' = Counts(chunks)
  BY DEF Counts, DuplicateQuestions
<1> QED
  BY <1>1 DEF GatePasses

LEMMA JudgeKeeps ==
    ASSUME MaterialInv, NEW maximum \in Thresholds, NEW needsFaq \in BOOLEAN,
           Judge(maximum, needsFaq)
    PROVE  MaterialInv'
<1> DEFINE v == [ok |-> GatePasses(AllChunks, maximum, needsFaq), maximum |-> maximum,
                 needsFaq |-> needsFaq]
<1>1. /\ qualityPhase = "report" /\ qualityPhase' = "judged" /\ verdict' = v
      /\ UNCHANGED <<files, lists, records, hasFaq, compared, conflicts>>
  BY DEF Judge
<1>2. v.ok = GatePasses(AllChunks, maximum, needsFaq) /\ v.maximum = maximum /\ v.needsFaq = needsFaq
  OBVIOUS
<1> HIDE DEF v
<1>3. AllChunks' = AllChunks /\ AllScanned'
  BY <1>1, MaterialRests DEF MaterialInv
<1>4. QualityTypes'
  BY <1>1 DEF MaterialInv, QualityTypes
<1>5. ComparedSoFar'
  BY <1>1, <1>3 DEF MaterialInv, ComparedSoFar
<1>6. \A c, m, f : GatePasses(c, m, f)' <=> GatePasses(c, m, f)
  BY <1>1, GateRests
<1>7. GateJudged'
  <2>1. (GatePasses(AllChunks, verdict.maximum, verdict.needsFaq))'
          <=> GatePasses(AllChunks, maximum, needsFaq)
    BY <1>1, <1>2, <1>3, <1>6
  <2>2. verdict'.ok <=> GatePasses(AllChunks, maximum, needsFaq)
    BY <1>1, <1>2
  <2> QED
    BY <2>1, <2>2, <1>1 DEF GateJudged
<1> QED
  BY <1>3, <1>4, <1>5, <1>7 DEF MaterialInv

LEMMA MaterialIsKept == MaterialInv /\ [QualityNext]_qualityVars => MaterialInv'
<1> SUFFICES ASSUME MaterialInv, [QualityNext]_qualityVars PROVE MaterialInv'
  OBVIOUS
<1>1. ASSUME NEW file \in Shapes, ScanFile(file) PROVE MaterialInv'
  BY <1>1, ScanFileKeeps
<1>2. ASSUME NEW rec \in Rows, ReadRow(rec) PROVE MaterialInv'
  BY <1>2, ReadRowKeeps
<1>3. CASE ScanEnds \/ RowsEnd \/ CompareEnds
  BY <1>3, PhasesKeep
<1>4. CASE CompareRecord
  BY <1>4, CompareRecordKeeps
<1>5. ASSUME NEW maximum \in Thresholds, NEW needsFaq \in BOOLEAN, Judge(maximum, needsFaq)
      PROVE  MaterialInv'
  BY <1>5, JudgeKeeps
<1>6. CASE UNCHANGED qualityVars
  <2>1. UNCHANGED <<qualityPhase, files, lists, records, hasFaq, compared, conflicts, verdict>>
    BY <1>6 DEF qualityVars
  <2>2. AllChunks' = AllChunks /\ AllScanned'
    BY <2>1, MaterialRests DEF MaterialInv
  <2>3. QualityTypes' /\ ComparedSoFar'
    BY <2>1, <2>2 DEF MaterialInv, QualityTypes, ComparedSoFar
  <2>4. \A c, m, f : GatePasses(c, m, f)' <=> GatePasses(c, m, f)
    BY <2>1, GateRests
  <2>5. (GatePasses(AllChunks, verdict.maximum, verdict.needsFaq))'
          <=> GatePasses(AllChunks, verdict.maximum, verdict.needsFaq)
    BY <2>1, <2>2, <2>4
  <2>6. GateJudged'
    BY <2>1, <2>5 DEF MaterialInv, GateJudged
  <2> QED
    BY <2>2, <2>3, <2>6 DEF MaterialInv
<1> QED
  BY <1>1, <1>2, <1>3, <1>4, <1>5, <1>6 DEF QualityNext

LEMMA MaterialIsListed == MaterialInv => EveryFileIsAccounted
<1> SUFFICES ASSUME MaterialInv PROVE EveryFileIsAccounted
  OBVIOUS
<1> DEFINE all == <<lists.loaded, lists.unsupported, lists.failed, lists.empty>>
           In(i) == {k \in 1..4 : i \in all[k]}
<1>1. DOMAIN files = 1..Len(files)
  BY DEF MaterialInv, QualityTypes
<1>2. ASSUME NEW i \in DOMAIN files PROVE Cardinality(In(i)) = 1
  <2>1. Scanned(i)
    BY <1>1 DEF MaterialInv, AllScanned
  <2>2. \A k \in 1..4 : k \in In(i) <=> \/ k = 1 /\ i \in lists.loaded
                                        \/ k = 2 /\ i \in lists.unsupported
                                        \/ k = 3 /\ i \in lists.failed
                                        \/ k = 4 /\ i \in lists.empty
    OBVIOUS
  <2>3. In(i) \subseteq 1..4
    OBVIOUS
  <2> HIDE DEF In
  <2>4. In(i) = {1} \/ In(i) = {2} \/ In(i) = {3} \/ In(i) = {4}
    <3>1. CASE OnlyIn(i, lists.loaded, {lists.unsupported, lists.failed, lists.empty})
      <4>1. \A k \in 1..4 : k \in In(i) <=> k = 1
        BY <3>1, <2>2 DEF OnlyIn
      <4> QED
        BY <4>1, <2>3
    <3>2. CASE OnlyIn(i, lists.unsupported, {lists.loaded, lists.failed, lists.empty})
      <4>1. \A k \in 1..4 : k \in In(i) <=> k = 2
        BY <3>2, <2>2 DEF OnlyIn
      <4> QED
        BY <4>1, <2>3
    <3>3. CASE OnlyIn(i, lists.failed, {lists.loaded, lists.unsupported, lists.empty})
      <4>1. \A k \in 1..4 : k \in In(i) <=> k = 3
        BY <3>3, <2>2 DEF OnlyIn
      <4> QED
        BY <4>1, <2>3
    <3>4. CASE OnlyIn(i, lists.empty, {lists.loaded, lists.unsupported, lists.failed})
      <4>1. \A k \in 1..4 : k \in In(i) <=> k = 4
        BY <3>4, <2>2 DEF OnlyIn
      <4> QED
        BY <4>1, <2>3
    <3> QED
      BY <2>1, <3>1, <3>2, <3>3, <3>4 DEF Scanned
  <2> QED
    BY <2>4, FS_Singleton
<1> QED
  BY <1>2 DEF EveryFileIsAccounted

\* A file that is in the list of the loaded ones is as the loop left it.
LEMMA LoadedIsScanned ==
    ASSUME MaterialInv, NEW i \in lists.loaded
    PROVE  /\ i \in 1..Len(files)
           /\ HasLoader(files[i]) /\ files[i].known /\ ~files[i].broken /\ LoadFile(files[i]) # <<>>
           /\ i \notin lists.ocrRisk => ~LooksLikeOcrRisk(files[i])
           /\ i \notin lists.imageBlock => ImageRisk(files[i], LoadFile(files[i])) # "block"
<1>1. i \in 1..Len(files)
  BY DEF MaterialInv, AllScanned, ListsAreOf
<1>2. Scanned(i)
  BY <1>1 DEF MaterialInv, AllScanned
<1>3. OnlyIn(i, lists.loaded, {lists.unsupported, lists.failed, lists.empty})
  BY <1>2 DEF Scanned, OnlyIn
<1> QED
  BY <1>1, <1>2, <1>3 DEF Scanned, OnlyIn

LEMMA ScansStay == MaterialInv => ScansNeverPass
<1> SUFFICES ASSUME MaterialInv, verdict # None, verdict.ok, NEW i \in lists.loaded
             PROVE  files[i].noise => files[i].reviewed
  BY DEF ScansNeverPass
<1>1. lists.ocrRisk = {}
  BY DEF MaterialInv, GateJudged, GatePasses
<1> QED
  BY <1>1, LoadedIsScanned DEF LooksLikeOcrRisk

LEMMA StoppingIsHarmless == MaterialInv => StoppingHidesNothing
<1> SUFFICES ASSUME MaterialInv, qualityPhase \in {"report", "judged"}
             PROVE  conflicts = <<>> <=>
                        \A i \in DOMAIN records : Whole(records[i]) => Backed(records[i], AllChunks)
  BY DEF StoppingHidesNothing, Whole
<1>1. DOMAIN records = 1..Len(records) /\ compared = Len(records)
  BY DEF MaterialInv, QualityTypes, ComparedSoFar
<1> QED
  BY <1>1 DEF MaterialInv, ComparedSoFar

\* No more of a finite set than none.
LEMMA NoneOf ==
    ASSUME NEW S, IsFiniteSet(S), Cardinality(S) <= 0
    PROVE  S = {}
<1>1. Cardinality(S) \in Nat
  BY FS_CardinalityType
<1>2. Cardinality(S) = 0
  BY <1>1
<1> QED
  BY <1>2, FS_EmptySet

\* The eleven counts of a pass without allowance.
LEMMA NothingCounted ==
    ASSUME NEW chunks, \A i \in DOMAIN Counts(chunks) : Counts(chunks)[i] <= 0
    PROVE  /\ Cardinality(lists.failed) <= 0 /\ Cardinality(lists.unsupported) <= 0
           /\ Cardinality(lists.empty) <= 0 /\ Cardinality(lists.imageBlock) <= 0
           /\ Cardinality(Duplicated(chunks)) <= 0
           /\ Cardinality({i \in DOMAIN records : records[i].question = None}) <= 0
           /\ Cardinality({i \in DOMAIN records : ~records[i].answer}) <= 0
           /\ Cardinality(DuplicateQuestions) <= 0
           /\ Cardinality({i \in DOMAIN records : ~records[i].known}) <= 0
           /\ Len(conflicts) <= 0
<1> DEFINE c1 == Cardinality(lists.failed)
           c2 == Cardinality(lists.unsupported)
           c3 == Cardinality(lists.empty)
           c4 == Cardinality(lists.imageBlock)
           c5 == LowQuality(chunks)
           c6 == Cardinality(Duplicated(chunks))
           c7 == Cardinality({i \in DOMAIN records : records[i].question = None})
           c8 == Cardinality({i \in DOMAIN records : ~records[i].answer})
           c9 == Cardinality(DuplicateQuestions)
           c10 == Cardinality({i \in DOMAIN records : ~records[i].known})
           c11 == Len(conflicts)
           t == <<c1, c2, c3, c4, c5, c6, c7, c8, c9, c10, c11>>
<1>1. Counts(chunks) = t
  BY DEF Counts
<1> HIDE DEF c1, c2, c3, c4, c5, c6, c7, c8, c9, c10, c11
<1>2. /\ DOMAIN t = 1..11 /\ t[1] = c1 /\ t[2] = c2 /\ t[3] = c3 /\ t[4] = c4 /\ t[6] = c6
      /\ t[7] = c7 /\ t[8] = c8 /\ t[9] = c9 /\ t[10] = c10 /\ t[11] = c11
  OBVIOUS
<1> HIDE DEF t
<1>3. \A i \in 1..11 : t[i] <= 0
  BY <1>1, <1>2
<1>4. /\ c1 <= 0 /\ c2 <= 0 /\ c3 <= 0 /\ c4 <= 0 /\ c6 <= 0 /\ c7 <= 0 /\ c8 <= 0 /\ c9 <= 0
      /\ c10 <= 0 /\ c11 <= 0
  BY <1>2, <1>3
<1> QED
  BY <1>4 DEF c1, c2, c3, c4, c6, c7, c8, c9, c10, c11

\* No question is there twice.
LEMMA QuestionsAreOnce ==
    ASSUME records \in Seq(Rows), Cardinality(DuplicateQuestions) <= 0,
           NEW i \in DOMAIN records, NEW j \in DOMAIN records,
           records[i].question # None, records[i].question = records[j].question
    PROVE  i = j
<1> SUFFICES ASSUME i # j PROVE FALSE
  OBVIOUS
<1> DEFINE q    == records[i].question
           asks == {k \in DOMAIN records : records[k].question = q}
           all  == {records[k].question : k \in DOMAIN records}
           f    == [k \in DOMAIN records |-> records[k].question]
<1>1. Len(records) \in Nat /\ DOMAIN records = 1..Len(records) /\ IsFiniteSet(1..Len(records))
  BY FS_Interval
<1>2. f \in Surjection(DOMAIN records, all)
  <2>1. f \in [DOMAIN records -> all]
    OBVIOUS
  <2>2. \A t \in all : \E s \in DOMAIN records : f[s] = t
    OBVIOUS
  <2> QED
    BY <2>1, <2>2 DEF Surjection
<1>3. IsFiniteSet(all)
  BY <1>1, <1>2, FS_Surjection DEF ExistsSurjection
<1>4. DuplicateQuestions \in SUBSET all
  BY DEF DuplicateQuestions
<1>5. DuplicateQuestions = {}
  BY <1>3, <1>4, FS_Subset, NoneOf
<1>6. IsFiniteSet(asks)
  BY <1>1, FS_Subset
<1>7. {i} \cup {j} \in SUBSET asks
  OBVIOUS
<1>8. Cardinality({i} \cup {j}) = 1 + 1
  <2>1. IsFiniteSet({i}) /\ Cardinality({i}) = 1 /\ j \notin {i}
    BY FS_Singleton
  <2> QED
    BY <2>1, FS_AddElement
<1>9. Cardinality(asks) > 1
  <2>1. Cardinality({i} \cup {j}) <= Cardinality(asks) /\ Cardinality(asks) \in Nat
    <3> DEFINE pair == {i} \cup {j}
    <3>1. pair \in SUBSET asks /\ IsFiniteSet(asks)
      BY <1>6, <1>7
    <3> HIDE DEF pair, asks
    <3>2. Cardinality(pair) <= Cardinality(asks) /\ Cardinality(asks) \in Nat
      BY <3>1, FS_Subset, FS_CardinalityType
    <3> QED
      BY <3>2 DEF pair
  <2> DEFINE pair == {i} \cup {j}
  <2>2. Cardinality(pair) = 2 /\ Cardinality(pair) <= Cardinality(asks)
    BY <2>1, <1>8
  <2> HIDE DEF pair, asks
  <2> QED
    BY <2>1, <2>2
<1>10. q \in DuplicateQuestions
  <2>1. q \in all /\ q # None
    OBVIOUS
  <2> QED
    BY <2>1, <1>9 DEF DuplicateQuestions
<1> QED
  BY <1>5, <1>10

LEMMA PassIsOfTheMaterial == MaterialInv => PassIsAboutTheMaterial
<1> SUFFICES ASSUME MaterialInv, verdict # None, verdict.ok, verdict.maximum = 0
             PROVE  /\ \A i \in DOMAIN files :
                          /\ HasLoader(files[i]) /\ files[i].known /\ ~files[i].broken
                          /\ LoadFile(files[i]) # <<>> /\ (files[i].noise => files[i].reviewed)
                          /\ files[i].images > 0 /\ files[i].kind = "container" =>
                                TextLength(files[i].pages) >= BlockingTextChars
                    /\ \A i, j \in DOMAIN AllChunks :
                          AllChunks[i].page.text = AllChunks[j].page.text => i = j
                    /\ \A i \in DOMAIN records :
                          /\ records[i].question # None /\ records[i].answer /\ records[i].known
                          /\ Backed(records[i], AllChunks)
                          /\ \A j \in DOMAIN records :
                                records[i].question = records[j].question => i = j
  BY DEF PassIsAboutTheMaterial
<1>1. /\ qualityPhase = "judged" /\ lists.ocrRisk = {}
      /\ \A i \in DOMAIN Counts(AllChunks) : Counts(AllChunks)[i] <= 0
  BY DEF MaterialInv, GateJudged, GatePasses
<1>2. /\ Cardinality(lists.failed) <= 0 /\ Cardinality(lists.unsupported) <= 0
      /\ Cardinality(lists.empty) <= 0 /\ Cardinality(lists.imageBlock) <= 0
      /\ Cardinality(Duplicated(AllChunks)) <= 0
      /\ Cardinality({i \in DOMAIN records : records[i].question = None}) <= 0
      /\ Cardinality({i \in DOMAIN records : ~records[i].answer}) <= 0
      /\ Cardinality(DuplicateQuestions) <= 0
      /\ Cardinality({i \in DOMAIN records : ~records[i].known}) <= 0
      /\ Len(conflicts) <= 0
  BY <1>1, NothingCounted
<1>3. /\ files \in Seq(Shapes) /\ records \in Seq(Rows) /\ conflicts \in Seq(Complaints)
      /\ DOMAIN files = 1..Len(files) /\ DOMAIN records = 1..Len(records)
      /\ Len(files) \in Nat /\ Len(records) \in Nat /\ AllChunks \in Seq(Chunk)
  BY ChunksAreASequence DEF MaterialInv, QualityTypes
<1>4. IsFiniteSet(1..Len(files)) /\ IsFiniteSet(1..Len(records)) /\ IsFiniteSet(DOMAIN AllChunks)
  <2>1. Len(AllChunks) \in Nat /\ DOMAIN AllChunks = 1..Len(AllChunks)
    BY <1>3
  <2> QED
    BY <1>3, <2>1, FS_Interval
<1>5. ListsAreOf(Len(files)) /\ \A i \in 1..Len(files) : Scanned(i)
  BY DEF MaterialInv, AllScanned
<1>6. lists.failed = {} /\ lists.unsupported = {} /\ lists.empty = {} /\ lists.imageBlock = {}
  <2>1. \A S \in SUBSET (1..Len(files)) : IsFiniteSet(S)
    BY <1>4, FS_Subset
  <2> QED
    BY <2>1, <1>2, <1>5, NoneOf DEF ListsAreOf
<1>7. \A i \in DOMAIN files : i \in lists.loaded
  BY <1>3, <1>5, <1>6 DEF Scanned, OnlyIn
<1>8. ASSUME NEW i \in DOMAIN files
      PROVE  /\ HasLoader(files[i]) /\ files[i].known /\ ~files[i].broken
             /\ LoadFile(files[i]) # <<>> /\ (files[i].noise => files[i].reviewed)
             /\ files[i].images > 0 /\ files[i].kind = "container" =>
                   TextLength(files[i].pages) >= BlockingTextChars
  <2>1. /\ HasLoader(files[i]) /\ files[i].known /\ ~files[i].broken /\ LoadFile(files[i]) # <<>>
        /\ ~LooksLikeOcrRisk(files[i]) /\ ImageRisk(files[i], LoadFile(files[i])) # "block"
    BY <1>1, <1>6, <1>7, LoadedIsScanned
  <2>2. files[i].images > 0 /\ files[i].kind = "container" =>
           ~(TextLength(LoadFile(files[i])) < BlockingTextChars)
    BY <2>1 DEF ImageRisk
  <2>3. files[i] \in Shapes
    BY <1>3
  <2>4. /\ TextLength(files[i].pages) \in Nat /\ TextLength(LoadFile(files[i])) \in Nat
        /\ TextLength(LoadFile(files[i])) <= TextLength(files[i].pages)
    BY <2>3, LoadedPages, LoadedIsNoLonger DEF LoadFile
  <2>5. files[i].noise => files[i].reviewed
    BY <2>1 DEF LooksLikeOcrRisk
  <2>6. files[i].images > 0 /\ files[i].kind = "container" =>
           TextLength(files[i].pages) >= BlockingTextChars
    BY <2>2, <2>4 DEF BlockingTextChars
  <2> QED
    BY <2>1, <2>5, <2>6
<1>9. \A i, j \in DOMAIN AllChunks : AllChunks[i].page.text = AllChunks[j].page.text => i = j
  <2>1. Duplicated(AllChunks) \in SUBSET DOMAIN AllChunks
    BY DEF Duplicated
  <2>2. Duplicated(AllChunks) = {}
    BY <2>1, <1>2, <1>4, FS_Subset, NoneOf
  <2> QED
    BY <2>2 DEF Duplicated
<1>10. \A i \in DOMAIN records : records[i].question # None /\ records[i].answer /\ records[i].known
  <2>1. \A S \in SUBSET (DOMAIN records) : IsFiniteSet(S)
    BY <1>3, <1>4, FS_Subset
  <2>2. {i \in DOMAIN records : records[i].question = None} = {}
    BY <2>1, <1>2, NoneOf
  <2>3. {i \in DOMAIN records : ~records[i].answer} = {}
    BY <2>1, <1>2, NoneOf
  <2>4. {i \in DOMAIN records : ~records[i].known} = {}
    BY <2>1, <1>2, NoneOf
  <2> QED
    BY <2>2, <2>3, <2>4
<1>11. \A i \in DOMAIN records : Backed(records[i], AllChunks)
  <2>1. conflicts = <<>>
    BY <1>2, <1>3
  <2>2. StoppingHidesNothing
    BY StoppingIsHarmless
  <2> QED
    BY <2>1, <2>2, <1>1, <1>10 DEF StoppingHidesNothing
<1>12. ASSUME NEW i \in DOMAIN records, NEW j \in DOMAIN records,
              records[i].question = records[j].question
       PROVE  i = j
  BY <1>12, <1>2, <1>3, <1>10, QuestionsAreOnce
<1> QED
  BY <1>8, <1>9, <1>10, <1>11, <1>12

\* The gate on the material judges all of it: every file is listed once, a strict pass is a
\* statement about every file, chunk and record, the limit of the comparison hides no
\* contradiction, and unreviewed scans never pass.
THEOREM MaterialStaysJudged == QualitySpec => []MaterialIsJudgedWhole
<1>1. MaterialInv => MaterialIsJudgedWhole
  BY MaterialIsListed, PassIsOfTheMaterial, StoppingIsHarmless, ScansStay DEF MaterialIsJudgedWhole
<1> QED
  BY MaterialInitHolds, MaterialIsKept, <1>1, PTL DEF QualitySpec

-----------------------------------------------------------------------------
(* Conversations replayed: what has been replayed is reported, and as long *)
(* as no turn has failed a session holds the turns before it.              *)

TurnRow == [of : Nat, turn : Nat, asked : Seq(Nat \X Nat), reply : Reply]

\* A rec of the report is in it.
Reported(c, t) == \E i \in DOMAIN turnRows : turnRows[i].of = c /\ turnRows[i].turn = t

\* The history a turn was asked with.
AskedWell(r) ==
    EndsWith(r.asked, r.turn - 1) /\ (~talk[r.of].fixed => Len(r.asked) = r.turn - 1)

\* What has been replayed is reported; and as long as no turn has failed, the history of the
\* session is that of this replay.
ReplayTypes ==
    /\ talk \in Talks /\ replays \in 0..MaxReplays
    /\ at \in {0} \cup Replayed
    /\ at > 0 => turn \in 0..Len(talk[at].turns)
    /\ messages \in [DOMAIN talk -> Seq(Nat \X Nat)]
    /\ turnRows \in Seq(TurnRow)
    /\ \A i \in DOMAIN turnRows : /\ turnRows[i].of \in Replayed
                                  /\ turnRows[i].turn \in DOMAIN talk[turnRows[i].of].turns
    /\ followupGate \in {None, "passed", "failed"}

VerdictIs ==
    followupGate # None => at = 0 /\ replays > 0 /\ (followupGate = "passed" <=> FollowupsPass)

Behind(c, t) == at = 0 \/ c < at \/ (c = at /\ t <= turn)

AllReported ==
    replays > 0 => \A c \in Replayed : \A t \in DOMAIN talk[c].turns : Behind(c, t) => Reported(c, t)

WellAsked == NoTurnFailed => \A i \in DOMAIN turnRows : AskedWell(turnRows[i])

HistoryIs ==
    NoTurnFailed /\ at > 0 =>
        /\ EndsWith(messages[at], turn)
        /\ ~talk[at].fixed => Len(messages[at]) = turn

ReplayInv ==
    /\ ReplayTypes /\ VerdictIs /\ AllReported /\ WellAsked /\ HistoryIs
    /\ at > 0 => replays > 0

LEMMA TalkIs ==
    ASSUME talk \in Talks
    PROVE  /\ Len(talk) \in Nat /\ DOMAIN talk = 1..Len(talk)
           /\ \A c \in DOMAIN talk :
                 /\ talk[c] \in Conversation /\ talk[c].fixed \in BOOLEAN
                 /\ talk[c].turns \in Seq(Turns) /\ Len(talk[c].turns) \in Nat
                 /\ DOMAIN talk[c].turns = 1..Len(talk[c].turns)
           /\ Smaller(TurnLimit, Len(talk)) \in 0..Len(talk)
           /\ Replayed = 1..Smaller(TurnLimit, Len(talk)) /\ Replayed \subseteq DOMAIN talk
<1>1. talk \in Seq(Conversation) /\ TurnLimit \in Nat
  BY FollowupAssumption
<1>2. /\ Len(talk) \in Nat /\ DOMAIN talk = 1..Len(talk)
      /\ \A c \in DOMAIN talk : talk[c] \in Conversation
  BY <1>1
<1>3. \A x \in Conversation : x.fixed \in BOOLEAN /\ x.turns \in Seq(Turns)
  BY DEF Conversation
<1>4. \A s \in Seq(Turns) : Len(s) \in Nat /\ DOMAIN s = 1..Len(s)
  OBVIOUS
<1>5. \A c \in DOMAIN talk :
         /\ talk[c] \in Conversation /\ talk[c].fixed \in BOOLEAN
         /\ talk[c].turns \in Seq(Turns) /\ Len(talk[c].turns) \in Nat
         /\ DOMAIN talk[c].turns = 1..Len(talk[c].turns)
  BY <1>2, <1>3, <1>4
<1>6. Smaller(TurnLimit, Len(talk)) \in 0..Len(talk)
  BY <1>1, <1>2 DEF Smaller
<1>7. Replayed = 1..Smaller(TurnLimit, Len(talk))
  BY DEF Replayed
<1>8. Replayed \subseteq DOMAIN talk
  BY <1>2, <1>6, <1>7
<1> QED
  BY <1>2, <1>5, <1>6, <1>7, <1>8

\* A history is extended by the turn that was asked.
LEMMA HistoryGrows ==
    ASSUME NEW s \in Seq(Nat \X Nat), NEW n \in Nat, EndsWith(s, n), replays \in Nat
    PROVE  /\ EndsWith(Append(s, <<replays, n + 1>>), n + 1)
           /\ Append(s, <<replays, n + 1>>) \in Seq(Nat \X Nat)
           /\ Len(Append(s, <<replays, n + 1>>)) = Len(s) + 1
<1> DEFINE e == <<replays, n + 1>>
           m == Append(s, e)
<1>1. e \in Nat \X Nat
  OBVIOUS
<1> HIDE DEF e
<1>2. /\ m \in Seq(Nat \X Nat) /\ Len(m) = Len(s) + 1 /\ Len(s) \in Nat /\ m[Len(s) + 1] = e
      /\ \A i \in 1..Len(s) : m[i] = s[i]
  BY <1>1
<1> HIDE DEF m
<1>3. Len(s) >= n /\ \A k \in 1..n : s[Len(s) - n + k] = <<replays, k>>
  BY DEF EndsWith
<1>4. Len(m) >= n + 1
  BY <1>2, <1>3
<1>5. \A k \in 1..(n + 1) : m[Len(m) - (n + 1) + k] = <<replays, k>>
  <2> TAKE k \in 1..(n + 1)
  <2>1. Len(m) - (n + 1) + k = Len(s) - n + k
    BY <1>2
  <2>2. CASE k = n + 1
    <3>1. Len(s) - n + k = Len(s) + 1
      BY <1>2, <2>2
    <3> QED
      BY <1>2, <2>1, <2>2, <3>1 DEF e
  <2>3. CASE k \in 1..n
    <3>1. Len(s) - n + k \in 1..Len(s)
      BY <1>2, <1>3, <2>3
    <3> QED
      BY <1>2, <1>3, <2>1, <2>3, <3>1
  <2> QED
    BY <2>2, <2>3
<1> QED
  BY <1>2, <1>4, <1>5 DEF EndsWith, m, e

LEMMA NothingToEndWith == ASSUME NEW s \in Seq(Nat \X Nat) PROVE EndsWith(s, 0)
BY DEF EndsWith

LEMMA ReplayInitHolds == FollowupInit => ReplayInv
<1> SUFFICES ASSUME FollowupInit PROVE ReplayInv
  OBVIOUS
<1>1. /\ talk \in Talks /\ replays = 0 /\ at = 0 /\ turn = 0 /\ turnRows = <<>> /\ followupGate = None
      /\ messages = [c \in DOMAIN talk |-> <<>>]
  BY DEF FollowupInit
<1>2. messages \in [DOMAIN talk -> Seq(Nat \X Nat)] /\ turnRows \in Seq(TurnRow) /\ DOMAIN turnRows = {}
  BY <1>1
<1>3. 0 \in 0..MaxReplays
  BY FollowupAssumption
<1>4. ReplayTypes
  BY <1>1, <1>2, <1>3 DEF ReplayTypes
<1>5. VerdictIs /\ AllReported /\ HistoryIs /\ (at > 0 => replays > 0)
  BY <1>1 DEF VerdictIs, AllReported, HistoryIs
<1>6. WellAsked
  BY <1>2 DEF WellAsked
<1> QED
  BY <1>4, <1>5, <1>6 DEF ReplayInv

\* The verdict is of the report alone, and so are some of the facts about it.
LEMMA PassIsOfRows ==
    ASSUME UNCHANGED <<talk, turnRows>>
    PROVE  (FollowupsPass' <=> FollowupsPass) /\ (NoTurnFailed' <=> NoTurnFailed)
<1>1. NoTurnFailed' <=> NoTurnFailed
  BY DEF NoTurnFailed
<1>2. Expecting("source")' = Expecting("source") /\ Expecting("origin")' = Expecting("origin")
      /\ Expecting("profile")' = Expecting("profile") /\ Expecting("keywords")' = Expecting("keywords")
      /\ Followups' = Followups
  BY DEF Expecting, Followups
<1>3. \A I, w : Showing(I, w)' = Showing(I, w)
  BY DEF Showing
<1>4. FollowupsPass' <=> FollowupsPass
  BY <1>1, <1>2 DEF FollowupsPass, Showing
<1> QED
  BY <1>1, <1>4


\* A session is entered as it is, or empty.
LEMMA EnteringIs ==
    ASSUME talk \in Talks, messages \in [DOMAIN talk -> Seq(Nat \X Nat)],
           NEW c \in DOMAIN talk, EnterSession(c)
    PROVE  /\ messages' \in [DOMAIN talk -> Seq(Nat \X Nat)]
           /\ EndsWith(messages'[c], 0)
           /\ ~talk[c].fixed => Len(messages'[c]) = 0
<1> DEFINE m == IF talk[c].fixed THEN messages[c] ELSE <<>>
<1>1. messages[c] \in Seq(Nat \X Nat) /\ m \in Seq(Nat \X Nat)
  OBVIOUS
<1>2. ~talk[c].fixed => Len(m) = 0
  OBVIOUS
<1>3. messages' = [messages EXCEPT ![c] = m]
  BY DEF EnterSession
<1> HIDE DEF m
<1>4. messages' \in [DOMAIN talk -> Seq(Nat \X Nat)] /\ messages'[c] = m
  BY <1>1, <1>3
<1> QED
  BY <1>1, <1>2, <1>4, NothingToEndWith

LEMMA StartReplayKeeps == ReplayInv /\ StartReplay => ReplayInv'
<1> SUFFICES ASSUME ReplayInv, StartReplay PROVE ReplayInv'
  OBVIOUS
<1>1. /\ at = 0 /\ replays < MaxReplays /\ talk' = talk
      /\ replays' = replays + 1 /\ turnRows' = <<>> /\ followupGate' = None /\ turn' = 0
  BY DEF StartReplay
<1>2. /\ talk \in Talks /\ replays \in 0..MaxReplays /\ MaxReplays \in Nat
      /\ messages \in [DOMAIN talk -> Seq(Nat \X Nat)]
  BY FollowupAssumption DEF ReplayInv, ReplayTypes
<1>3. replays' \in 0..MaxReplays /\ replays' > 0 /\ turnRows' \in Seq(TurnRow) /\ DOMAIN turnRows' = {}
  BY <1>1, <1>2
<1>4. Replayed' = Replayed
  BY <1>1 DEF Replayed
<1>5. CASE Replayed = {}
  <2>1. at' = 0 /\ messages' = messages
    BY <1>5, <1>1 DEF StartReplay
  <2>2. ReplayTypes'
    BY <2>1, <1>1, <1>2, <1>3, <1>4 DEF ReplayTypes
  <2>3. VerdictIs' /\ HistoryIs' /\ WellAsked'
    BY <2>1, <1>1, <1>3 DEF VerdictIs, HistoryIs, WellAsked
  <2>4. AllReported'
    BY <1>4, <1>5 DEF AllReported
  <2> QED
    BY <2>1, <2>2, <2>3, <2>4 DEF ReplayInv
<1>6. CASE Replayed # {}
  <2>1. at' = 1 /\ EnterSession(1)
    BY <1>6, <1>1 DEF StartReplay
  <2>2. 1 \in Replayed /\ 1 \in DOMAIN talk
    BY <1>2, <1>6, TalkIs
  <2>3. /\ messages' \in [DOMAIN talk -> Seq(Nat \X Nat)] /\ EndsWith(messages'[1], 0)
        /\ ~talk[1].fixed => Len(messages'[1]) = 0
    BY <1>2, <2>1, <2>2, EnteringIs
  <2>4. Len(talk[1].turns) \in Nat /\ DOMAIN talk[1].turns = 1..Len(talk[1].turns)
    BY <1>2, <2>2, TalkIs
  <2>5. ReplayTypes'
    BY <2>1, <2>2, <2>3, <2>4, <1>1, <1>2, <1>3, <1>4 DEF ReplayTypes
  <2>6. VerdictIs' /\ WellAsked'
    BY <1>1, <1>3 DEF VerdictIs, WellAsked
  <2>7. (EndsWith(messages[1], 0))'
    BY <2>3 DEF EndsWith
  <2>8. HistoryIs'
    BY <2>1, <2>3, <2>7, <1>1 DEF HistoryIs
  <2>9. \A c \in Replayed : \A t \in DOMAIN talk[c].turns : ~Behind(c, t)'
    <3> TAKE c \in Replayed
    <3> TAKE t \in DOMAIN talk[c].turns
    <3>1. c \in Nat /\ c >= 1 /\ t \in Nat /\ t >= 1
      BY <1>2, TalkIs
    <3> QED
      BY <3>1, <2>1, <1>1 DEF Behind
  <2>10. AllReported'
    BY <2>9, <1>1, <1>4 DEF AllReported
  <2> QED
    BY <2>1, <1>3, <2>5, <2>6, <2>8, <2>10 DEF ReplayInv
<1> QED
  BY <1>5, <1>6

LEMMA NextConversationKeeps == ReplayInv /\ NextConversation => ReplayInv'
<1> SUFFICES ASSUME ReplayInv, NextConversation PROVE ReplayInv'
  OBVIOUS
<1>1. /\ at > 0 /\ turn = Len(talk[at].turns) /\ turn' = 0
      /\ talk' = talk /\ replays' = replays /\ turnRows' = turnRows /\ followupGate' = followupGate
  BY DEF NextConversation
<1>2. /\ talk \in Talks /\ replays \in 0..MaxReplays
      /\ messages \in [DOMAIN talk -> Seq(Nat \X Nat)] /\ turnRows \in Seq(TurnRow)
      /\ at \in Replayed /\ replays > 0 /\ followupGate = None
  BY <1>1 DEF ReplayInv, ReplayTypes, VerdictIs
<1>3. Replayed' = Replayed /\ (NoTurnFailed' <=> NoTurnFailed)
  BY <1>1, PassIsOfRows DEF Replayed
<1>4. VerdictIs'
  BY <1>1, <1>2 DEF VerdictIs
<1>5. WellAsked'
  <2>1. \A r : AskedWell(r)' <=> AskedWell(r)
    BY <1>1 DEF AskedWell, EndsWith
  <2> QED
    BY <2>1, <1>1, <1>3 DEF WellAsked, ReplayInv
<1>6. \A c, t : Reported(c, t)' <=> Reported(c, t)
  BY <1>1 DEF Reported
<1>7. \A c \in Replayed : \A t \in DOMAIN talk[c].turns : Reported(c, t) \/ c > at
  <2> TAKE c \in Replayed
  <2> TAKE t \in DOMAIN talk[c].turns
  <2>1. c \in Nat /\ at \in Nat /\ t \in 1..Len(talk[c].turns)
    BY <1>2, TalkIs
  <2>2. ~(c > at) => Behind(c, t)
    BY <2>1, <1>1 DEF Behind
  <2> QED
    BY <2>2, <1>2 DEF AllReported, ReplayInv
<1>8. CASE at + 1 \in Replayed
  <2>1. at' = at + 1 /\ EnterSession(at + 1)
    BY <1>8 DEF NextConversation
  <2>2. at + 1 \in DOMAIN talk /\ at \in Nat
    BY <1>2, <1>8, TalkIs
  <2> DEFINE c == at + 1
  <2>3. /\ messages' \in [DOMAIN talk -> Seq(Nat \X Nat)] /\ EndsWith(messages'[c], 0)
        /\ ~talk[c].fixed => Len(messages'[c]) = 0
    BY <1>2, <2>1, <2>2, EnteringIs
  <2>4. Len(talk[c].turns) \in Nat
    BY <1>2, <2>2, TalkIs
  <2>5. ReplayTypes'
    BY <2>1, <2>2, <2>3, <2>4, <1>1, <1>2, <1>3, <1>8 DEF ReplayTypes, ReplayInv
  <2>7. (EndsWith(messages[at], 0))'
    BY <2>1, <2>3, <1>1 DEF EndsWith
  <2>8. HistoryIs'
    BY <2>1, <2>3, <2>7, <1>1 DEF HistoryIs
  <2>9. \A d \in Replayed : \A t \in DOMAIN talk[d].turns : Behind(d, t)' => ~(d > at)
    <3> TAKE d \in Replayed
    <3> TAKE t \in DOMAIN talk[d].turns
    <3>1. d \in Nat /\ t \in Nat /\ t >= 1
      BY <1>2, TalkIs
    <3> QED
      BY <3>1, <2>1, <2>2, <1>1 DEF Behind
  <2>10. AllReported'
    BY <2>9, <1>1, <1>3, <1>6, <1>7 DEF AllReported
  <2> QED
    BY <1>1, <1>2, <1>4, <1>5, <2>5, <2>8, <2>10 DEF ReplayInv
<1>9. CASE at + 1 \notin Replayed
  <2>1. at' = 0 /\ messages' = messages
    BY <1>9 DEF NextConversation
  <2>2. ReplayTypes'
    BY <2>1, <1>1, <1>2, <1>3 DEF ReplayTypes, ReplayInv
  <2>3. HistoryIs'
    BY <2>1 DEF HistoryIs
  <2>4. \A c \in Replayed : ~(c > at)
    BY <1>2, <1>9, TalkIs
  <2>5. AllReported'
    BY <2>4, <1>1, <1>3, <1>6, <1>7 DEF AllReported
  <2> QED
    BY <1>1, <1>2, <1>4, <1>5, <2>1, <2>2, <2>3, <2>5 DEF ReplayInv
<1> QED
  BY <1>8, <1>9

LEMMA RunTurnKeeps ==
    ASSUME ReplayInv, NEW reply \in Replies, RunTurn(reply)
    PROVE  ReplayInv'
<1> DEFINE r == [of |-> at, turn |-> turn + 1, asked |-> messages[at], reply |-> Shown(reply)]
           h == Append(messages[at], <<replays, turn + 1>>)
<1>1. /\ at > 0 /\ turn < Len(talk[at].turns) /\ turn' = turn + 1
      /\ turnRows' = Append(turnRows, r)
      /\ talk' = talk /\ replays' = replays /\ at' = at /\ followupGate' = followupGate
  BY DEF RunTurn
<1>2. /\ talk \in Talks /\ replays \in 0..MaxReplays /\ MaxReplays \in Nat
      /\ messages \in [DOMAIN talk -> Seq(Nat \X Nat)] /\ turnRows \in Seq(TurnRow)
      /\ at \in Replayed /\ replays > 0 /\ followupGate = None /\ turn \in 0..Len(talk[at].turns)
  BY <1>1, FollowupAssumption DEF ReplayInv, ReplayTypes, VerdictIs
<1>3. /\ at \in DOMAIN talk /\ Len(talk[at].turns) \in Nat /\ at \in Nat
      /\ DOMAIN talk[at].turns = 1..Len(talk[at].turns)
  BY <1>2, TalkIs
<1>4. turn \in Nat /\ replays \in Nat /\ turn + 1 \in 1..Len(talk[at].turns)
  BY <1>1, <1>2, <1>3
<1>5. messages[at] \in Seq(Nat \X Nat) /\ h \in Seq(Nat \X Nat)
  BY <1>2, <1>3, <1>4
<1>6. Shown(reply) \in Reply /\ Shown(reply).fails = reply.fails
  <2>1. reply \in Reply
    BY FollowupAssumption
  <2>2. \A x \in Reply : LET y == [x EXCEPT !.found = FALSE, !.inferred = FALSE, !.profiled = FALSE]
                         IN  y \in Reply /\ y.fails = x.fails
    BY DEF Reply
  <2> QED
    BY <2>1, <2>2 DEF Shown
<1>7. r \in TurnRow /\ r.of = at /\ r.turn = turn + 1 /\ r.asked = messages[at]
      /\ r.reply.fails = reply.fails
  BY <1>3, <1>4, <1>5, <1>6 DEF TurnRow
<1> HIDE DEF r
<1>8. /\ turnRows' \in Seq(TurnRow) /\ Len(turnRows) \in Nat
      /\ DOMAIN turnRows' = 1..(Len(turnRows) + 1) /\ DOMAIN turnRows = 1..Len(turnRows)
      /\ turnRows'[Len(turnRows) + 1] = r
      /\ \A i \in DOMAIN turnRows : turnRows'[i] = turnRows[i]
  BY <1>1, <1>2, <1>7
<1>9. \A i \in DOMAIN turnRows' : i \in DOMAIN turnRows \/ i = Len(turnRows) + 1
  BY <1>8
<1>91. DOMAIN turnRows \subseteq DOMAIN turnRows' /\ Len(turnRows) + 1 \in DOMAIN turnRows'
  BY <1>8
<1>10. Replayed' = Replayed
  BY <1>1 DEF Replayed
<1>11. NoTurnFailed' => NoTurnFailed /\ reply.fails = None
  BY <1>7, <1>8, <1>91 DEF NoTurnFailed
<1>12. messages' \in [DOMAIN talk -> Seq(Nat \X Nat)]
       /\ (reply.fails = None => messages'[at] = h)
  <2>1. messages' = messages \/ messages' = [messages EXCEPT ![at] = h]
    BY DEF RunTurn
  <2>2. reply.fails = None => messages' = [messages EXCEPT ![at] = h]
    BY NoneIsNoFailure DEF RunTurn
  <2> HIDE DEF h
  <2> QED
    BY <2>1, <2>2, <1>2, <1>3, <1>5
<1>13. ReplayTypes'
  <2>1. \A i \in DOMAIN turnRows' : /\ turnRows'[i].of \in Replayed
                                    /\ turnRows'[i].turn \in DOMAIN talk[turnRows'[i].of].turns
    BY <1>2, <1>3, <1>4, <1>7, <1>8, <1>9 DEF ReplayInv, ReplayTypes
  <2>2. turn' \in 0..Len(talk[at].turns)
    BY <1>1, <1>3, <1>4
  <2> QED
    BY <2>1, <2>2, <1>1, <1>2, <1>8, <1>10, <1>12 DEF ReplayTypes, ReplayInv
<1>14. VerdictIs'
  BY <1>1, <1>2 DEF VerdictIs
<1>15. WellAsked'
  <2>1. ASSUME NoTurnFailed'
        PROVE  \A i \in DOMAIN turnRows' : AskedWell(turnRows'[i])
    <3>1. NoTurnFailed /\ reply.fails = None
      BY <2>1, <1>11
    <3>2. AskedWell(r)
      <4>1. EndsWith(messages[at], turn) /\ (~talk[at].fixed => Len(messages[at]) = turn)
        BY <3>1, <1>1 DEF ReplayInv, HistoryIs
      <4>2. r.turn - 1 = turn
        BY <1>4, <1>7
      <4> QED
        BY <4>1, <4>2, <1>7 DEF AskedWell
    <3>3. \A i \in DOMAIN turnRows : AskedWell(turnRows[i])
      BY <3>1 DEF ReplayInv, WellAsked
    <3> QED
      BY <3>2, <3>3, <1>8, <1>9
  <2>2. (\A i \in DOMAIN turnRows' : AskedWell(turnRows'[i])) => (\A i \in DOMAIN turnRows : AskedWell(turnRows[i]))'
    BY <1>1 DEF AskedWell, EndsWith
  <2> QED
    BY <2>1, <2>2 DEF WellAsked
<1>16. HistoryIs'
  <2> SUFFICES ASSUME NoTurnFailed'
               PROVE  /\ (EndsWith(messages[at], turn))'
                      /\ ~talk'[at'].fixed => Len(messages'[at']) = turn'
    BY DEF HistoryIs
  <2>1. EndsWith(messages[at], turn) /\ (~talk[at].fixed => Len(messages[at]) = turn)
    BY <1>1, <1>11 DEF ReplayInv, HistoryIs
  <2>2. messages'[at] = h
    BY <1>11, <1>12
  <2>3. EndsWith(h, turn + 1) /\ Len(h) = Len(messages[at]) + 1
    BY <2>1, <1>4, <1>5, HistoryGrows
  <2> HIDE DEF h
  <2>4. (EndsWith(messages[at], turn))'
    BY <2>2, <2>3, <1>1 DEF EndsWith
  <2> QED
    BY <2>1, <2>2, <2>3, <2>4, <1>1
<1>17. AllReported'
  <2> SUFFICES ASSUME NEW c \in Replayed, NEW t \in DOMAIN talk[c].turns, Behind(c, t)'
               PROVE  Reported(c, t)'
    BY <1>1, <1>10 DEF AllReported
  <2>1. c \in Nat /\ t \in Nat
    BY <1>2, TalkIs
  <2>2. Behind(c, t) \/ (c = at /\ t = turn + 1)
    BY <2>1, <1>1, <1>3, <1>4 DEF Behind
  <2>3. CASE Behind(c, t)
    <3>1. Reported(c, t)
      BY <2>3, <1>2 DEF ReplayInv, AllReported
    <3> QED
      BY <3>1, <1>8, <1>91 DEF Reported
  <2>4. CASE c = at /\ t = turn + 1
    BY <2>4, <1>7, <1>8, <1>91 DEF Reported
  <2> QED
    BY <2>2, <2>3, <2>4
<1> QED
  BY <1>1, <1>2, <1>13, <1>14, <1>15, <1>16, <1>17 DEF ReplayInv

\* What a verdict or no step leaves as it was.
LEMMA ReplayRests ==
    ASSUME ReplayInv, UNCHANGED <<talk, replays, at, turn, messages, turnRows>>, VerdictIs',
           followupGate' \in {None, "passed", "failed"}
    PROVE  ReplayInv'
<1>1. Replayed' = Replayed /\ (NoTurnFailed' <=> NoTurnFailed)
  BY PassIsOfRows DEF Replayed
<1>2. ReplayTypes'
  BY <1>1 DEF ReplayTypes, ReplayInv
<1>3. \A c, t : (Reported(c, t)' <=> Reported(c, t)) /\ (Behind(c, t)' <=> Behind(c, t))
  BY DEF Reported, Behind
<1>4. AllReported'
  BY <1>1, <1>3 DEF AllReported, ReplayInv
<1>5. \A r : AskedWell(r)' <=> AskedWell(r)
  BY DEF AskedWell, EndsWith
<1>6. WellAsked'
  BY <1>1, <1>5 DEF WellAsked, ReplayInv
<1>7. HistoryIs'
  BY <1>1 DEF HistoryIs, ReplayInv, EndsWith
<1> QED
  BY <1>2, <1>4, <1>6, <1>7 DEF ReplayInv

LEMMA ReplayIsKept == ReplayInv /\ [FollowupNext]_followupVars => ReplayInv'
<1> SUFFICES ASSUME ReplayInv, [FollowupNext]_followupVars PROVE ReplayInv'
  OBVIOUS
<1>1. CASE StartReplay
  BY <1>1, StartReplayKeeps
<1>2. CASE NextConversation
  BY <1>2, NextConversationKeeps
<1>3. ASSUME NEW reply \in Replies, RunTurn(reply) PROVE ReplayInv'
  BY <1>3, RunTurnKeeps
<1>4. CASE JudgeFollowups
  <2>1. /\ at = 0 /\ replays > 0 /\ UNCHANGED <<talk, replays, at, turn, messages, turnRows>>
        /\ followupGate' = IF FollowupsPass THEN "passed" ELSE "failed"
    BY <1>4 DEF JudgeFollowups
  <2>2. FollowupsPass' <=> FollowupsPass
    BY <2>1, PassIsOfRows
  <2>3. VerdictIs'
    BY <2>1, <2>2 DEF VerdictIs
  <2>4. followupGate' \in {None, "passed", "failed"}
    BY <2>1
  <2> QED
    BY <2>1, <2>3, <2>4, ReplayRests
<1>5. CASE UNCHANGED followupVars
  <2>1. UNCHANGED <<talk, replays, at, turn, messages, turnRows>> /\ followupGate' = followupGate
    BY <1>5 DEF followupVars
  <2>2. FollowupsPass' <=> FollowupsPass
    BY <2>1, PassIsOfRows
  <2>3. VerdictIs' /\ followupGate' \in {None, "passed", "failed"}
    BY <2>1, <2>2 DEF VerdictIs, ReplayInv, ReplayTypes
  <2> QED
    BY <2>1, <2>3, ReplayRests
<1> QED
  BY <1>1, <1>2, <1>3, <1>4, <1>5 DEF FollowupNext

\* A share of a finite set that leaves none out.
LEMMA ShareOfAll ==
    ASSUME NEW I, IsFiniteSet(I), I # {}, NEW tenths \in 0..10
    PROVE  ShareOf(I, I, tenths)
<1>1. Cardinality(I) \in Nat /\ Cardinality(I) # 0
  BY FS_CardinalityType, FS_EmptySet
<1> DEFINE n == Cardinality(I)
<1>2. n \in Nat /\ n >= 1
  BY <1>1
<1> HIDE DEF n
<1>3. Larger(n, 1) = n
  BY <1>2 DEF Larger
<1>4. 10 * n >= tenths * n
  <2>1. \A t \in 0..10 : 10 * n >= t * n
    BY <1>2
  <2> QED
    BY <2>1
<1> QED
  BY <1>3, <1>4 DEF ShareOf, n

LEMMA AllOfAShare ==
    ASSUME NEW I, IsFiniteSet(I), NEW G \in SUBSET I, ShareOf(G, I, 10)
    PROVE  G = I /\ I # {}
<1> DEFINE n == Cardinality(I)
           g == Cardinality(G)
<1>1. n \in Nat /\ g \in Nat /\ g <= n
  BY FS_CardinalityType, FS_Subset
<1>2. (n = 0 <=> I = {}) /\ (g = n => G = I)
  BY FS_EmptySet, FS_Subset
<1>3. 10 * g >= 10 * Larger(n, 1)
  BY DEF ShareOf
<1> HIDE DEF n, g
<1>4. Larger(n, 1) >= n /\ Larger(n, 1) >= 1 /\ Larger(n, 1) \in Nat
  BY <1>1 DEF Larger
<1> DEFINE m == Larger(n, 1)
<1> HIDE DEF m
<1>5. m >= n /\ m >= 1 /\ m \in Nat /\ 10 * g >= 10 * m
  BY <1>3, <1>4 DEF m
<1>6. g >= m
  BY <1>1, <1>5
<1>7. g = n /\ n # 0
  BY <1>1, <1>5, <1>6
<1> QED
  BY <1>2, <1>7

LEMMA FewMissNone ==
    ASSUME NEW I, IsFiniteSet(I), Cardinality(I) < 5, NEW G \in SUBSET I, ShareOrAll(G, I, 8)
    PROVE  I \ G = {}
<1> SUFFICES ASSUME NEW x \in I \ G PROVE FALSE
  OBVIOUS
<1> DEFINE n == Cardinality(I)
           g == Cardinality(G)
<1>1. n \in Nat /\ Cardinality(I \ {x}) = n - 1 /\ IsFiniteSet(I \ {x})
  BY FS_CardinalityType, FS_RemoveElement
<1>2. G \in SUBSET (I \ {x})
  OBVIOUS
<1>3. g \in Nat /\ g <= n - 1
  BY <1>1, <1>2, FS_Subset, FS_CardinalityType
<1>4. 10 * g >= 8 * Larger(n, 1)
  BY DEF ShareOrAll, ShareOf
<1> HIDE DEF n, g
<1>5. n < 5
  BY DEF n
<1> DEFINE m == Larger(n, 1)
<1>6. m \in Nat /\ m >= n
  BY <1>1 DEF Larger
<1>7. 10 * g >= 8 * m
  BY <1>4
<1> HIDE DEF m
<1> QED
  BY <1>1, <1>3, <1>5, <1>6, <1>7

\* Every fact about a replay follows from the invariant.
LEMMA RowsAreFinite ==
    ASSUME ReplayInv
    PROVE  /\ IsFiniteSet(DOMAIN turnRows) /\ Len(turnRows) \in Nat
           /\ \A I \in SUBSET DOMAIN turnRows : IsFiniteSet(I)
           /\ \A i \in DOMAIN turnRows : turnRows[i] \in TurnRow
<1>1. turnRows \in Seq(TurnRow)
  BY DEF ReplayInv, ReplayTypes
<1>2. /\ Len(turnRows) \in Nat /\ DOMAIN turnRows = 1..Len(turnRows)
      /\ \A i \in DOMAIN turnRows : turnRows[i] \in TurnRow
  BY <1>1
<1>3. IsFiniteSet(DOMAIN turnRows)
  BY <1>2, FS_Interval
<1> QED
  BY <1>2, <1>3, FS_Subset

LEMMA ReplaysAreTyped == ReplayInv => FollowupTypeOK
<1> SUFFICES ASSUME ReplayInv PROVE FollowupTypeOK
  OBVIOUS
<1>1. ReplayTypes
  BY DEF ReplayInv
<1>2. at \in 0..Len(talk)
  BY <1>1, TalkIs DEF ReplayTypes
<1>3. \A x \in TurnRow : x.reply \in Reply
  BY DEF TurnRow
<1>4. \A i \in DOMAIN turnRows :
         /\ turnRows[i].of \in Replayed /\ turnRows[i].turn \in DOMAIN talk[turnRows[i].of].turns
         /\ turnRows[i].reply \in Reply
  BY <1>1, <1>3, RowsAreFinite DEF ReplayTypes
<1> QED
  BY <1>1, <1>2, <1>4 DEF ReplayTypes, FollowupTypeOK

LEMMA PassesWithHistory == ReplayInv => PassedTurnsHadTheirHistory
<1> SUFFICES ASSUME ReplayInv, followupGate = "passed" PROVE PassedTurnsHadTheirHistory
  BY DEF PassedTurnsHadTheirHistory
<1>1. at = 0 /\ replays > 0 /\ FollowupsPass
  BY NoneIsNoFailure DEF ReplayInv, VerdictIs
<1>2. /\ NoTurnFailed
      /\ ShareOf(Showing(DOMAIN turnRows, "isolated"), DOMAIN turnRows, 10)
  BY <1>1 DEF FollowupsPass
<1>3. Showing(DOMAIN turnRows, "isolated") \in SUBSET DOMAIN turnRows
  BY DEF Showing
<1>4. Showing(DOMAIN turnRows, "isolated") = DOMAIN turnRows /\ DOMAIN turnRows # {}
  BY <1>2, <1>3, RowsAreFinite, AllOfAShare
<1>5. turnRows # <<>>
  BY <1>4
<1>6. \A i \in DOMAIN turnRows : turnRows[i].reply.isolated
  BY <1>4 DEF Showing
<1>7. \A i \in DOMAIN turnRows : AskedWell(turnRows[i])
  BY <1>2 DEF ReplayInv, WellAsked
<1>8. ASSUME NEW c \in Replayed, NEW t \in DOMAIN talk[c].turns
      PROVE  \E i \in DOMAIN turnRows :
                LET r == turnRows[i]
                IN  /\ r.of = c /\ r.turn = t /\ r.reply.isolated
                    /\ EndsWith(r.asked, t - 1)
                    /\ ~talk[c].fixed => Len(r.asked) = t - 1
  <2>1. Reported(c, t)
    BY <1>1 DEF ReplayInv, AllReported, Behind
  <2> QED
    BY <2>1, <1>6, <1>7 DEF Reported, AskedWell
<1> QED
  BY <1>5, <1>8 DEF PassedTurnsHadTheirHistory

LEMMA OpeningsAreApart == ReplayInv => OpeningsHideNothing
<1> SUFFICES ASSUME ReplayInv, followupGate = "passed",
                    Cardinality(Followups \cap Expecting("origin")) < 5
             PROVE  {i \in Followups \cap Expecting("origin") : ~turnRows[i].reply.inferred} = {}
  BY DEF OpeningsHideNothing
<1> DEFINE I == Followups \cap Expecting("origin")
<1>1. FollowupsPass
  BY NoneIsNoFailure DEF ReplayInv, VerdictIs
<1>2. ShareOrAll(Showing(I, "inferred"), I, 8)
  BY <1>1 DEF FollowupsPass
<1>3. IsFiniteSet(I)
  BY RowsAreFinite DEF Followups
<1>4. Showing(I, "inferred") \in SUBSET I
  BY DEF Showing
<1>5. I \ Showing(I, "inferred") = {}
  <2> HIDE DEF I
  <2>1. Cardinality(I) < 5
    BY DEF I
  <2> QED
    BY <2>1, <1>2, <1>3, <1>4, FewMissNone
<1>6. {i \in I : ~turnRows[i].reply.inferred} = {}
  BY <1>5 DEF Showing
<1> QED
  BY <1>6

LEMMA TheFaultlessPass == ReplayInv => FaultlessReplayPasses
<1> SUFFICES ASSUME ReplayInv, followupGate # None, Expecting("source") # {},
                    \A i \in DOMAIN turnRows :
                       /\ turnRows[i].reply.fails = None /\ i \in Expecting("keywords")
                       /\ \A w \in {"found", "inferred", "profiled", "covered", "isolated"} :
                             turnRows[i].reply[w]
             PROVE  followupGate = "passed"
  BY DEF FaultlessReplayPasses
<1>1. NoTurnFailed
  BY DEF NoTurnFailed
<1>2. ASSUME NEW I \in SUBSET DOMAIN turnRows,
             NEW w \in {"found", "inferred", "profiled", "covered", "isolated"}
      PROVE  Showing(I, w) = I
  BY DEF Showing
<1>3. /\ Followups \cap Expecting("origin") \in SUBSET DOMAIN turnRows
      /\ Expecting("profile") \in SUBSET DOMAIN turnRows
      /\ Expecting("source") \in SUBSET DOMAIN turnRows
      /\ Expecting("keywords") = DOMAIN turnRows
      /\ DOMAIN turnRows \in SUBSET DOMAIN turnRows
  BY DEF Followups, Expecting
<1>4. DOMAIN turnRows # {}
  BY <1>3
<1>5. ASSUME NEW I \in SUBSET DOMAIN turnRows, I # {}, NEW tenths \in 0..10
      PROVE  ShareOf(I, I, tenths)
  <2>1. IsFiniteSet(I)
    BY RowsAreFinite
  <2> QED
    BY <2>1, <1>5, ShareOfAll
<1>6. ShareOf(Showing(Expecting("source"), "found"), Expecting("source"), 8)
  BY <1>2, <1>3, <1>5
<1>7. ShareOf(Showing(Expecting("keywords"), "covered"), DOMAIN turnRows, 7)
  BY <1>2, <1>3, <1>4, <1>5
<1>8. ASSUME NEW I \in SUBSET DOMAIN turnRows, NEW tenths \in 0..10,
             NEW w \in {"found", "inferred", "profiled", "covered", "isolated"}
      PROVE  ShareOrAll(Showing(I, w), I, tenths)
  BY <1>2, <1>5 DEF ShareOrAll
<1>9. ShareOf(Showing(DOMAIN turnRows, "isolated"), DOMAIN turnRows, 10)
  BY <1>2, <1>3, <1>4, <1>5
<1>10. /\ ShareOrAll(Showing(Followups \cap Expecting("origin"), "inferred"),
                     Followups \cap Expecting("origin"), 8)
       /\ ShareOrAll(Showing(Expecting("profile"), "profiled"), Expecting("profile"), 7)
  BY <1>3, <1>8
<1>11. FollowupsPass
  BY <1>1, <1>6, <1>7, <1>9, <1>10 DEF FollowupsPass
<1> QED
  BY <1>11 DEF ReplayInv, VerdictIs

\* A replay that passes the gate was one of conversations, whose turns were asked with their
\* history; its openings hide no follow-up that went wrong, and a faultless one passes.
THEOREM FollowupsStayJudged == FollowupSpec => []FollowupsAreJudged
<1>1. ReplayInv => FollowupsAreJudged
  BY ReplaysAreTyped, PassesWithHistory, OpeningsAreApart, TheFaultlessPass DEF FollowupsAreJudged
<1> QED
  BY ReplayInitHolds, ReplayIsKept, <1>1, PTL DEF FollowupSpec

-----------------------------------------------------------------------------
(* Times: the rank of the percentile is taken, and no more are above it.   *)

\* Numbers of a sequence, counted.
LEMMA CountsOfValues ==
    ASSUME NEW values \in Seq(Nat), NEW v
    PROVE  /\ Len(values) \in Nat /\ DOMAIN values = 1..Len(values)
           /\ Below(values, v) \subseteq 1..Len(values) /\ NotAbove(values, v) \subseteq 1..Len(values)
           /\ IsFiniteSet(Below(values, v)) /\ IsFiniteSet(NotAbove(values, v))
           /\ Cardinality(Below(values, v)) \in Nat /\ Cardinality(NotAbove(values, v)) \in Nat
           /\ Cardinality(NotAbove(values, v)) <= Len(values)
           /\ Cardinality(NotAbove(values, v)) = Len(values) => NotAbove(values, v) = 1..Len(values)
<1>1. Len(values) \in Nat /\ DOMAIN values = 1..Len(values)
  OBVIOUS
<1>2. Below(values, v) \subseteq 1..Len(values) /\ NotAbove(values, v) \subseteq 1..Len(values)
  BY <1>1 DEF Below, NotAbove
<1>3. IsFiniteSet(1..Len(values)) /\ Cardinality(1..Len(values)) = Len(values)
  <2>1. \A k \in Nat : /\ IsFiniteSet(1..k)
                       /\ Cardinality(1..k) = IF 1 > k THEN 0 ELSE k - 1 + 1
    BY FS_Interval
  <2>2. \A k \in Nat : (IF 1 > k THEN 0 ELSE k - 1 + 1) = k
    OBVIOUS
  <2> QED
    BY <1>1, <2>1, <2>2
<1>4. IsFiniteSet(Below(values, v)) /\ IsFiniteSet(NotAbove(values, v))
  BY <1>2, <1>3, FS_Subset
<1>5. Cardinality(Below(values, v)) \in Nat /\ Cardinality(NotAbove(values, v)) \in Nat
  BY <1>4, FS_CardinalityType
<1>6. /\ Cardinality(NotAbove(values, v)) <= Cardinality(1..Len(values))
      /\ Cardinality(1..Len(values)) = Cardinality(NotAbove(values, v))
           => 1..Len(values) = NotAbove(values, v)
  BY <1>2, <1>3, FS_Subset
<1> QED
  BY <1>1, <1>2, <1>3, <1>4, <1>5, <1>6

\* Some number is above them all.
LEMMA ValuesAreBounded ==
    ASSUME NEW values \in Seq(Nat)
    PROVE  \E b \in Nat : NotAbove(values, b) = 1..Len(values)
<1> DEFINE n == Len(values)
           S == {i \in 0..n : \E b \in Nat : \A j \in 1..i : values[j] <= b}
<1>1. n \in Nat /\ DOMAIN values = 1..n /\ \A j \in 1..n : values[j] \in Nat
  OBVIOUS
<1> HIDE DEF n
<1>2. 0 \in S
  BY <1>1
<1>3. \A i \in 0..n : i > 0 /\ i - 1 \in S => i \in S
  <2> SUFFICES ASSUME NEW i \in 0..n, i > 0, i - 1 \in S PROVE i \in S
    OBVIOUS
  <2>1. PICK b \in Nat : \A j \in 1..(i - 1) : values[j] <= b
    OBVIOUS
  <2>2. i \in 1..n /\ values[i] \in Nat
    BY <1>1
  <2>3. \A j \in 1..i : j \in 1..(i - 1) \/ j = i
    OBVIOUS
  <2>4. \A j \in 1..i : j \in 1..n
    BY <1>1
  <2>5. \A j \in 1..i : values[j] <= b + values[i]
    <3> TAKE j \in 1..i
    <3>1. j \in 1..n /\ values[j] \in Nat
      BY <1>1, <2>4
    <3>2. CASE j = i
      BY <2>2, <3>2
    <3>3. CASE j \in 1..(i - 1)
      BY <2>1, <2>2, <3>1, <3>3
    <3> QED
      BY <2>3, <3>2, <3>3
  <2>6. b + values[i] \in Nat
    BY <2>2
  <2> QED
    BY <2>5, <2>6
<1> HIDE DEF S
<1>4. 0..n \subseteq S
  BY <1>1, <1>2, <1>3, UpTo
<1>5. n \in S
  BY <1>1, <1>4
<1>6. PICK b \in Nat : \A j \in 1..n : values[j] <= b
  BY <1>5 DEF S
<1> QED
  BY <1>1, <1>6 DEF NotAbove, n

\* There is a number of every rank.
LEMMA RankIsTaken ==
    ASSUME NEW values \in Seq(Nat), NEW rank \in 1..Len(values)
    PROVE  /\ AtRank(values, rank) \in {values[i] : i \in DOMAIN values}
           /\ Cardinality(Below(values, AtRank(values, rank))) < rank
           /\ rank <= Cardinality(NotAbove(values, AtRank(values, rank)))
<1> DEFINE n == Len(values)
           S == {v \in Nat : rank <= Cardinality(NotAbove(values, v))}
<1>1. n \in Nat /\ DOMAIN values = 1..n /\ (\A j \in 1..n : values[j] \in Nat) /\ rank \in Nat
      /\ 1 <= rank /\ rank <= n
  OBVIOUS
<1>2. S # {}
  <2>1. PICK b \in Nat : NotAbove(values, b) = 1..n
    BY ValuesAreBounded
  <2>2. Cardinality(1..n) = n
    <3>1. \A k \in Nat : Cardinality(1..k) = IF 1 > k THEN 0 ELSE k - 1 + 1
      BY FS_Interval
    <3>2. \A k \in Nat : (IF 1 > k THEN 0 ELSE k - 1 + 1) = k
      OBVIOUS
    <3> QED
      BY <1>1, <3>1, <3>2
  <2> HIDE DEF n
  <2>3. b \in S
    BY <1>1, <2>1, <2>2
  <2> QED
    BY <2>3
<1>3. PICK v \in S : \A x \in S : v <= x
  <2>1. S \in SUBSET Nat
    OBVIOUS
  <2> HIDE DEF S
  <2> QED
    BY <1>2, <2>1, Smallest
<1>4. v \in Nat /\ rank <= Cardinality(NotAbove(values, v))
  BY <1>3
<1>5. \A x \in Nat : x < v => Cardinality(NotAbove(values, x)) < rank
  <2> SUFFICES ASSUME NEW x \in Nat, x < v PROVE Cardinality(NotAbove(values, x)) < rank
    OBVIOUS
  <2>1. Cardinality(NotAbove(values, x)) \in Nat
    BY CountsOfValues
  <2>2. ~(rank <= Cardinality(NotAbove(values, x)))
    BY <1>3, <1>4
  <2> QED
    BY <1>1, <2>1, <2>2
<1> HIDE DEF n, S
<1>6. v > 0 => Below(values, v) = NotAbove(values, v - 1)
  <2>1. \A i \in 1..n : values[i] < v <=> values[i] <= v - 1
    BY <1>1, <1>4
  <2> QED
    BY <1>1, <2>1 DEF Below, NotAbove
<1>7. v = 0 => Below(values, v) = {}
  BY <1>1 DEF Below
<1>8. Cardinality(Below(values, v)) < rank
  <2>1. CASE v = 0
    <3>1. \A W : W = {} => Cardinality(W) = 0
      BY FS_EmptySet
    <3>2. Cardinality(Below(values, v)) = 0
      BY <1>7, <2>1, <3>1
    <3> QED
      BY <1>1, <3>2
  <2>2. CASE v > 0
    <3>1. v - 1 \in Nat /\ v - 1 < v
      BY <1>4, <2>2
    <3> QED
      BY <1>5, <1>6, <2>2, <3>1
  <2> QED
    BY <1>4, <2>1, <2>2
<1>9. v \in {values[i] : i \in DOMAIN values}
  <2> SUFFICES ASSUME \A i \in 1..n : values[i] # v PROVE FALSE
    BY <1>1
  <2>1. NotAbove(values, v) = Below(values, v)
    <3>1. \A i \in 1..n : values[i] < v <=> values[i] <= v
      BY <1>1, <1>4
    <3> QED
      BY <1>1, <3>1 DEF Below, NotAbove
  <2>2. Cardinality(NotAbove(values, v)) \in Nat
    BY CountsOfValues
  <2> QED
    BY <1>1, <1>4, <1>8, <2>1, <2>2
<1>10. \E w \in {values[i] : i \in DOMAIN values} :
          Cardinality(Below(values, w)) < rank /\ rank <= Cardinality(NotAbove(values, w))
  BY <1>4, <1>8, <1>9
<1> QED
  BY <1>10 DEF AtRank

\* The percentile, by its rank.
LEMMA PercentileIs ==
    ASSUME NEW values \in Seq(Nat), values # <<>>
    PROVE  \E rank \in 1..Len(values) :
              /\ 100 * rank >= 95 * Len(values) /\ 100 * (rank - 1) < 95 * Len(values)
              /\ Len(values) < 20 => rank = Len(values)
              /\ P95(values) \in {values[i] : i \in DOMAIN values}
              /\ Cardinality(Below(values, P95(values))) < rank
              /\ rank <= Cardinality(NotAbove(values, P95(values)))
<1> DEFINE n == Len(values)
           q == (95 * n + 99) \div 100
           rank == Smaller(n, Larger(1, q))
<1>1. n \in Nat /\ n >= 1
  OBVIOUS
<1>2. P95(values) = AtRank(values, rank)
  BY DEF P95
<1> HIDE DEF n
<1>3. q \in Nat /\ 100 * q <= 95 * n + 99 /\ 95 * n + 99 < 100 * q + 100
  BY <1>1
<1> HIDE DEF q
<1>4. q >= 1 /\ q <= n
  BY <1>1, <1>3
<1>5. rank = q
  BY <1>1, <1>3, <1>4 DEF Smaller, Larger
<1> HIDE DEF rank
<1>6. /\ rank \in 1..n /\ 100 * rank >= 95 * n /\ 100 * (rank - 1) < 95 * n
      /\ n < 20 => rank = n
  BY <1>1, <1>3, <1>4, <1>5
<1>7. /\ AtRank(values, rank) \in {values[i] : i \in DOMAIN values}
      /\ Cardinality(Below(values, AtRank(values, rank))) < rank
      /\ rank <= Cardinality(NotAbove(values, AtRank(values, rank)))
  BY <1>6, RankIsTaken DEF n
<1> QED
  BY <1>2, <1>6, <1>7 DEF n

LEMMA PercentileIsNearest ==
    ASSUME NEW values \in Seq(Nat), values # <<>>
    PROVE  /\ 100 * Cardinality(NotAbove(values, P95(values))) >= 95 * Len(values)
           /\ \A i \in DOMAIN values : values[i] < P95(values) =>
                 ~(100 * Cardinality(NotAbove(values, values[i])) >= 95 * Len(values))
           /\ Len(values) < 20 => \A i \in DOMAIN values : values[i] <= P95(values)
<1> DEFINE n == Len(values)
           p == P95(values)
<1>1. PICK rank \in 1..n :
              /\ 100 * rank >= 95 * n /\ 100 * (rank - 1) < 95 * n
              /\ n < 20 => rank = n
              /\ p \in {values[i] : i \in DOMAIN values}
              /\ Cardinality(Below(values, p)) < rank
              /\ rank <= Cardinality(NotAbove(values, p))
  BY PercentileIs
<1>2. n \in Nat /\ DOMAIN values = 1..n /\ (\A i \in 1..n : values[i] \in Nat) /\ rank \in Nat
  OBVIOUS
<1>3. p \in Nat
  BY <1>1, <1>2
<1>4. \A v : Cardinality(NotAbove(values, v)) \in Nat /\ Cardinality(NotAbove(values, v)) <= n
             /\ (Cardinality(NotAbove(values, v)) = n => NotAbove(values, v) = 1..n)
  BY CountsOfValues
<1>5. Cardinality(Below(values, p)) \in Nat /\ IsFiniteSet(Below(values, p))
  BY CountsOfValues
<1> HIDE DEF n, p
<1>6. 100 * Cardinality(NotAbove(values, p)) >= 95 * n
  BY <1>1, <1>2, <1>4
<1>7. ASSUME NEW i \in 1..n, values[i] < p
      PROVE  ~(100 * Cardinality(NotAbove(values, values[i])) >= 95 * n)
  <2>1. values[i] \in Nat
    BY <1>2
  <2>2. NotAbove(values, values[i]) \subseteq Below(values, p)
    BY <1>2, <1>3, <1>7, <2>1 DEF NotAbove, Below
  <2>3. Cardinality(NotAbove(values, values[i])) <= Cardinality(Below(values, p))
    BY <1>5, <2>2, FS_Subset
  <2>4. Cardinality(NotAbove(values, values[i])) \in Nat
    BY <1>4
  <2> QED
    BY <1>1, <1>2, <1>5, <2>3, <2>4
<1>8. n < 20 => \A i \in 1..n : values[i] <= p
  <2> SUFFICES ASSUME n < 20, NEW i \in 1..n PROVE values[i] <= p
    OBVIOUS
  <2>1. Cardinality(NotAbove(values, p)) = n
    BY <1>1, <1>2, <1>4
  <2>2. i \in NotAbove(values, p)
    BY <1>4, <2>1
  <2> QED
    BY <2>2 DEF NotAbove
<1> QED
  BY <1>2, <1>6, <1>7, <1>8 DEF n, p

-----------------------------------------------------------------------------
MeasuredRow == [total : Nat, first : Nat, timed : BOOLEAN, error : BOOLEAN]

\* What is measured is a part of the load; once judged it is all there, and the verdict its.
BaselineInv ==
    /\ load \in Seq(Sample)
    /\ toMeasure # None => toMeasure \in 0..Len(load) /\ Len(measured) <= toMeasure
    /\ toMeasure = None => measured = <<>>
    /\ measured \in Seq(MeasuredRow)
    /\ performanceGate \in {None, "passed", "failed"}
    /\ performanceGate # None => toMeasure # None /\ Len(measured) = toMeasure
    /\ performanceGate = "passed" => PerformancePasses

LEMMA BaselineInitHolds == PerformanceInit => BaselineInv
<1> SUFFICES ASSUME PerformanceInit PROVE BaselineInv
  OBVIOUS
<1>1. load \in Seq(Sample) /\ measured \in Seq(MeasuredRow) /\ measured = <<>>
      /\ toMeasure = None /\ performanceGate = None
  BY PerformanceAssumption DEF PerformanceInit
<1> QED
  BY <1>1, NoneIsNoVerdict DEF BaselineInv

LEMMA SpeedIsOfRows == measured' = measured => (PerformancePasses' <=> PerformancePasses)
BY DEF PerformancePasses, Values, HasStageTimings

LEMMA StartBaselineStep ==
    ASSUME BaselineInv, NEW warmup \in BOOLEAN, StartBaseline(warmup)
    PROVE  BaselineInv'
<1>1. /\ UNCHANGED <<load, measured, performanceGate>> /\ toMeasure = None
      /\ toMeasure' = IF warmup /\ Len(load) > 1 THEN Len(load) - 1 ELSE Len(load)
  BY DEF StartBaseline
<1>2. performanceGate = None /\ measured = <<>> /\ load \in Seq(Sample) /\ measured \in Seq(MeasuredRow)
  BY <1>1 DEF BaselineInv
<1>3. toMeasure' \in 0..Len(load)
  <2>1. Len(load) \in Nat
    BY <1>2
  <2> QED
    BY <1>1, <2>1
<1>4. Len(measured) = 0
  BY <1>2
<1> QED
  BY <1>1, <1>2, <1>3, <1>4, NoneIsNoVerdict DEF BaselineInv

LEMMA MeasureCaseStep == BaselineInv /\ MeasureCase => BaselineInv'
<1> SUFFICES ASSUME BaselineInv, MeasureCase PROVE BaselineInv'
  OBVIOUS
<1> DEFINE s == load[Len(load) - toMeasure + Len(measured) + 1]
           first == IF s.first = None THEN s.total ELSE s.first
           rec == [s EXCEPT !.first = first]
<1>1. /\ toMeasure # None /\ Len(measured) < toMeasure /\ measured' = Append(measured, rec)
      /\ UNCHANGED <<load, toMeasure, performanceGate>>
  BY DEF MeasureCase
<1>2. /\ load \in Seq(Sample) /\ toMeasure \in 0..Len(load) /\ measured \in Seq(MeasuredRow)
      /\ Len(measured) \in Nat /\ Len(load) \in Nat
  BY <1>1 DEF BaselineInv
<1>3. s \in Sample
  <2>1. Len(load) - toMeasure + Len(measured) + 1 \in 1..Len(load)
    BY <1>1, <1>2
  <2> QED
    BY <1>2, <2>1
<1>4. \A x \in Sample : x.total \in Nat /\ x.first \in Nat \cup {None}
  BY DEF Sample
<1> HIDE DEF s
<1>5. first \in Nat
  BY <1>3, <1>4
<1> HIDE DEF first
<1>6. rec \in MeasuredRow
  BY <1>3, <1>5 DEF Sample, MeasuredRow
<1> HIDE DEF rec
<1>7. measured' \in Seq(MeasuredRow) /\ Len(measured') = Len(measured) + 1
  BY <1>1, <1>2, <1>6
<1>8. performanceGate = None
  BY <1>1, <1>2 DEF BaselineInv
<1> QED
  BY <1>1, <1>2, <1>7, <1>8, NoneIsNoVerdict DEF BaselineInv

LEMMA JudgePerformanceStep == BaselineInv /\ JudgePerformance => BaselineInv'
<1> SUFFICES ASSUME BaselineInv, JudgePerformance PROVE BaselineInv'
  OBVIOUS
<1>1. /\ toMeasure # None /\ Len(measured) = toMeasure
      /\ performanceGate' = IF PerformancePasses THEN "passed" ELSE "failed"
      /\ UNCHANGED <<load, toMeasure, measured>>
  BY DEF JudgePerformance
<1>2. PerformancePasses' <=> PerformancePasses
  BY <1>1, SpeedIsOfRows
<1> QED
  BY <1>1, <1>2 DEF BaselineInv

LEMMA BaselineNextKeeps == BaselineInv /\ [PerformanceNext]_performanceVars => BaselineInv'
<1> SUFFICES ASSUME BaselineInv, [PerformanceNext]_performanceVars PROVE BaselineInv'
  OBVIOUS
<1>1. CASE UNCHANGED performanceVars
  <2>1. UNCHANGED <<load, toMeasure, measured, performanceGate>>
    BY <1>1 DEF performanceVars
  <2>2. PerformancePasses' <=> PerformancePasses
    BY <2>1, SpeedIsOfRows
  <2> QED
    BY <2>1, <2>2 DEF BaselineInv
<1>2. CASE PerformanceNext
  BY <1>2, StartBaselineStep, MeasureCaseStep, JudgePerformanceStep DEF PerformanceNext
<1> QED
  BY <1>1, <1>2

LEMMA ValuesAreNumbers ==
    ASSUME measured \in Seq(MeasuredRow), NEW what \in {"total", "first"}
    PROVE  /\ Values(what) \in Seq(Nat) /\ Len(Values(what)) = Len(measured)
           /\ DOMAIN Values(what) = DOMAIN measured
           /\ \A i \in DOMAIN measured : Values(what)[i] = measured[i][what]
<1>1. /\ Len(measured) \in Nat /\ DOMAIN measured = 1..Len(measured)
      /\ \A i \in 1..Len(measured) : measured[i] \in MeasuredRow
  OBVIOUS
<1>2. \A r \in MeasuredRow : r[what] \in Nat
  <2>1. \A r \in MeasuredRow : r["total"] \in Nat /\ r["first"] \in Nat
    BY DEF MeasuredRow
  <2> QED
    BY <2>1
<1>3. \A i \in 1..Len(measured) : measured[i][what] \in Nat
  BY <1>1, <1>2
<1>4. Values(what) = [i \in 1..Len(measured) |-> measured[i][what]]
  BY <1>1 DEF Values
<1>5. Values(what) \in [1..Len(measured) -> Nat]
  BY <1>3, <1>4
<1> QED
  BY <1>1, <1>4, <1>5

\* A baseline is judged by what its percentile says.
LEMMA SpeedHolds == BaselineInv => SpeedIsJudged
<1> SUFFICES ASSUME BaselineInv PROVE SpeedIsJudged
  OBVIOUS
<1>1. measured \in Seq(MeasuredRow) /\ load \in Seq(Sample)
  BY DEF BaselineInv
<1>2. PerformanceTypeOK
  <2>1. \A i \in DOMAIN load : load[i] \in Sample
    BY <1>1
  <2> QED
    BY <2>1 DEF BaselineInv, PerformanceTypeOK
<1>3. PercentileIsNearestRank
  BY <1>1, ValuesAreNumbers, PercentileIsNearest DEF PercentileIsNearestRank
<1>4. PassedIsFast
  <2> SUFFICES ASSUME performanceGate = "passed"
               PROVE  /\ measured # <<>>
                      /\ \A i \in DOMAIN measured : ~measured[i].error
                      /\ Len(measured) < 20 =>
                            \A i \in DOMAIN measured :
                               measured[i].total <= MaxP95 /\ measured[i].first <= MaxFirstP95
    BY DEF PassedIsFast
  <2>1. PerformancePasses
    BY DEF BaselineInv
  <2>2. \E i \in DOMAIN measured : measured[i].timed
    BY <2>1 DEF PerformancePasses, HasStageTimings
  <2>3. measured # <<>>
    BY <2>2
  <2>4. \A i \in DOMAIN measured : ~measured[i].error
    BY <2>1 DEF PerformancePasses
  <2>5. P95(Values("total")) <= MaxP95 /\ P95(Values("first")) <= MaxFirstP95
    BY <2>1 DEF PerformancePasses
  <2>6. ASSUME Len(measured) < 20, NEW i \in DOMAIN measured,
               NEW what \in {"total", "first"}, NEW most \in Nat, P95(Values(what)) <= most
        PROVE  measured[i][what] <= most
    <3>1. /\ Values(what) \in Seq(Nat) /\ Len(Values(what)) = Len(measured)
          /\ DOMAIN Values(what) = DOMAIN measured /\ Values(what)[i] = measured[i][what]
      BY <1>1, ValuesAreNumbers
    <3> DEFINE values == Values(what)
    <3> HIDE DEF values
    <3>2. values \in Seq(Nat) /\ Len(values) < 20 /\ i \in DOMAIN values /\ P95(values) <= most
          /\ values[i] = measured[i][what]
      BY <2>6, <3>1 DEF values
    <3>3. values # <<>>
      BY <3>2
    <3>4. values[i] <= P95(values)
      BY <3>2, <3>3, PercentileIsNearest
    <3>5. P95(values) \in Nat
      <4>1. P95(values) \in {values[k] : k \in DOMAIN values}
        BY <3>2, <3>3, PercentileIs
      <4> QED
        BY <3>2, <4>1
    <3> QED
      BY <3>2, <3>4, <3>5
  <2>7. MaxP95 \in Nat /\ MaxFirstP95 \in Nat
    BY PerformanceAssumption
  <2> QED
    BY <2>3, <2>4, <2>5, <2>6, <2>7
<1> QED
  BY <1>2, <1>3, <1>4 DEF SpeedIsJudged

THEOREM SpeedStaysJudged == PerformanceSpec => []SpeedIsJudged
<1>1. PerformanceSpec => []BaselineInv
  BY BaselineInitHolds, BaselineNextKeeps, PTL DEF PerformanceSpec
<1> QED
  BY <1>1, SpeedHolds, PTL

-----------------------------------------------------------------------------
(* The three gates together, each on its own variables.                    *)

\* Whatever is scanned, asked, replayed and measured: no gate is passed by leaving something
\* out of what it judges.
THEOREM GatesStayWhole ==
    QualitySpec /\ FollowupSpec /\ PerformanceSpec => []GatesJudgeTheWhole
<1>1. MaterialIsJudgedWhole /\ FollowupsAreJudged /\ SpeedIsJudged => GatesJudgeTheWhole
  BY DEF GatesJudgeTheWhole
<1> QED
  BY MaterialStaysJudged, FollowupsStayJudged, SpeedStaysJudged, <1>1, PTL

-----------------------------------------------------------------------------
(* The relation graph: sequences joined and sorted, then what is extracted *)
(* from a text, what merging it adds, and what an answer is made of.       *)

\* What is in a sequence with more at its end.
LEMMA ToSetOfMore ==
    ASSUME NEW A, NEW s \in Seq(A)
    PROVE  /\ ToSet(s) \subseteq A /\ (ToSet(s) = {} <=> s = <<>>)
           /\ \A x \in A : ToSet(Append(s, x)) = ToSet(s) \cup {x}
           /\ \A t \in Seq(A) : ToSet(s \o t) = ToSet(s) \cup ToSet(t)
<1>1. ToSet(s) \subseteq A /\ (ToSet(s) = {} <=> s = <<>>)
  <2>1. Len(s) \in Nat /\ DOMAIN s = 1..Len(s) /\ \A i \in 1..Len(s) : s[i] \in A
    OBVIOUS
  <2>2. ToSet(s) \subseteq A
    BY <2>1 DEF ToSet
  <2>3. s = <<>> => ToSet(s) = {}
    BY DEF ToSet
  <2>4. s # <<>> => 1 \in DOMAIN s
    BY <2>1, EmptySeq
  <2> QED
    BY <2>2, <2>3, <2>4 DEF ToSet
<1>2. ASSUME NEW x \in A PROVE ToSet(Append(s, x)) = ToSet(s) \cup {x}
  <2> DEFINE t == Append(s, x)
             n == Len(s)
  <2>1. /\ n \in Nat /\ DOMAIN s = 1..n /\ DOMAIN t = 1..(n + 1) /\ t[n + 1] = x
        /\ \A i \in 1..n : t[i] = s[i]
    OBVIOUS
  <2> HIDE DEF t, n
  <2> QED
    BY <2>1 DEF ToSet, t
<1>3. ASSUME NEW t \in Seq(A) PROVE ToSet(s \o t) = ToSet(s) \cup ToSet(t)
  <2> DEFINE u == s \o t
             n == Len(s)
             m == Len(t)
  <2>1. /\ n \in Nat /\ m \in Nat /\ DOMAIN s = 1..n /\ DOMAIN t = 1..m /\ DOMAIN u = 1..(n + m)
        /\ \A i \in 1..n : u[i] = s[i]
        /\ \A i \in (n + 1)..(n + m) : u[i] = t[i - n]
    OBVIOUS
  <2>2. \A i \in 1..m : i + n \in (n + 1)..(n + m) /\ (i + n) - n = i
    BY <2>1
  <2>3. \A i \in 1..m : i + n \in 1..(n + m) /\ u[i + n] = t[i]
    BY <2>1, <2>2
  <2>4. \A i \in 1..(n + m) : i \in 1..n \/ (i \in (n + 1)..(n + m) /\ i - n \in 1..m)
    BY <2>1
  <2> HIDE DEF u, n, m
  <2>5. ToSet(u) \subseteq ToSet(s) \cup ToSet(t)
    BY <2>1, <2>4 DEF ToSet
  <2>6. ToSet(s) \subseteq ToSet(u)
    BY <2>1 DEF ToSet
  <2>7. ToSet(t) \subseteq ToSet(u)
    <3> SUFFICES ASSUME NEW x \in ToSet(t) PROVE x \in ToSet(u)
      OBVIOUS
    <3>1. PICK i \in 1..m : x = t[i]
      BY <2>1 DEF ToSet
    <3>2. i + n \in DOMAIN u /\ u[i + n] = x
      BY <2>1, <2>3, <3>1
    <3> QED
      BY <3>2 DEF ToSet
  <2> QED
    BY <2>5, <2>6, <2>7 DEF u
<1> QED
  BY <1>1, <1>2, <1>3

\* What is kept is what of it is in the set.
LEMMA KeepingFinds ==
    ASSUME NEW A, NEW S, NEW s \in Seq(A)
    PROVE  ToSet(Keeping(s, S)) = ToSet(s) \cap S
<1> PICK kept : Keeps(kept, s, S, A)
  BY KeepingIsStepwise
<1> DEFINE n == Len(s)
           First(i) == {s[j] : j \in 1..i}
<1>1. n \in Nat /\ DOMAIN s = 1..n /\ \A i \in 1..n : s[i] \in A
  OBVIOUS
<1>2. /\ \A i \in 0..n : kept[i] \in Seq(A \cap S)
      /\ kept[0] = <<>>
      /\ \A i \in 1..n :
            kept[i] = IF s[i] \in S THEN Append(kept[i - 1], s[i]) ELSE kept[i - 1]
      /\ Keeping(s, S) = kept[n]
  BY <1>1 DEF Keeps
<1>3. First(0) = {} /\ \A i \in 1..n : First(i) = First(i - 1) \cup {s[i]}
  <2>1. 1..0 = {}
    OBVIOUS
  <2>2. \A i \in 1..n : 1..i = 1..(i - 1) \cup {i}
    BY <1>1
  <2> QED
    BY <2>1, <2>2
<1>4. ToSet(s) = First(n)
  BY <1>1 DEF ToSet
<1> HIDE DEF n, First
<1> DEFINE T == {i \in 0..n : ToSet(kept[i]) = First(i) \cap S}
<1>5. 0 \in T
  <2>1. ToSet(kept[0]) = {}
    BY <1>2 DEF ToSet
  <2> QED
    BY <2>1, <1>1, <1>3
<1>6. \A i \in 0..n : i > 0 /\ i - 1 \in T => i \in T
  <2> SUFFICES ASSUME NEW i \in 0..n, i > 0, i - 1 \in T PROVE i \in T
    OBVIOUS
  <2>1. i \in 1..n /\ i - 1 \in 0..n
    BY <1>1
  <2>2. /\ s[i] \in A /\ kept[i - 1] \in Seq(A \cap S)
        /\ kept[i] = IF s[i] \in S THEN Append(kept[i - 1], s[i]) ELSE kept[i - 1]
        /\ First(i) = First(i - 1) \cup {s[i]}
    BY <2>1, <1>1, <1>2, <1>3
  <2>3. s[i] \in S => ToSet(Append(kept[i - 1], s[i])) = ToSet(kept[i - 1]) \cup {s[i]}
    BY <2>2, ToSetOfMore
  <2>4. ToSet(kept[i - 1]) = First(i - 1) \cap S
    OBVIOUS
  <2>5. ToSet(kept[i]) = First(i) \cap S
    BY <2>2, <2>3, <2>4
  <2> QED
    BY <2>5
<1> HIDE DEF T
<1>7. 0..n \subseteq T
  BY <1>1, <1>5, <1>6, UpTo
<1> QED
  BY <1>1, <1>2, <1>4, <1>7 DEF T

\* Sequences one after the other are a sequence of what is in one of them.
LEMMA JoinedIsAll ==
    ASSUME NEW A, NEW parts \in Seq(Seq(A))
    PROVE  /\ Joined(parts) \in Seq(A)
           /\ ToSet(Joined(parts)) = UNION {ToSet(parts[i]) : i \in 1..Len(parts)}
<1> DEFINE n == Len(parts)
           B == Seq(A)
           F == [p \in (1..n) \X B |-> p[2] \o parts[p[1]]]
<1>1. n \in Nat /\ DOMAIN parts = 1..n /\ \A i \in 1..n : parts[i] \in B
  OBVIOUS
<1>2. <<>> \in B
  OBVIOUS
<1>3. \A q \in B : \A r \in B : q \o r \in B
  OBVIOUS
<1> HIDE DEF n, B
<1>4. F \in [(1..n) \X B -> B]
  BY <1>1, <1>3
<1> HIDE DEF F
<1>5. PICK g : Follows(g, n, B, <<>>, F)
  BY <1>1, <1>2, <1>4, StepsExist
<1>6. g \in [0..n -> B] /\ g[0] = <<>> /\ \A i \in 1..n : g[i] = F[<<i, g[i - 1]>>]
  BY <1>5 DEF Follows
<1>7. \A i \in 1..n : g[i] = g[i - 1] \o parts[i]
  <2> TAKE i \in 1..n
  <2>1. g[i] = F[<<i, g[i - 1]>>] /\ g[i - 1] \in B
    BY <1>6, <1>1
  <2> QED
    BY <2>1 DEF F
<1> DEFINE Rec(f, i) == IF i = 0 THEN <<>> ELSE f[i - 1] \o parts[i]
           joined == CHOOSE f : f = [i \in 0..n |-> Rec(f, i)]
<1>8. g = [i \in 0..n |-> Rec(g, i)]
  <2>1. \A i \in 0..n : g[i] = Rec(g, i)
    <3> TAKE i \in 0..n
    <3>1. i # 0 => i \in 1..n
      BY <1>1
    <3> QED
      BY <3>1, <1>6, <1>7
  <2> HIDE DEF Rec
  <2> QED
    BY <2>1, <1>6
<1>9. Joined(parts) = joined[n]
  BY DEF Joined, n
<1>10. joined = [i \in 0..n |-> Rec(joined, i)]
  <2> HIDE DEF Rec
  <2> QED
    BY <1>8
<1> HIDE DEF joined
<1>11. \A i \in 0..n : joined[i] = Rec(joined, i)
  <2> HIDE DEF Rec
  <2> QED
    BY <1>10
<1>12. joined[0] = <<>>
  BY <1>11, <1>1
<1>13. \A i \in 1..n : joined[i] = joined[i - 1] \o parts[i]
  <2> TAKE i \in 1..n
  <2>1. i \in 0..n /\ i # 0
    BY <1>1
  <2>2. joined[i] = Rec(joined, i)
    BY <2>1, <1>11
  <2> QED
    BY <2>1, <2>2
<1> HIDE DEF Rec
<1> DEFINE Before(i) == UNION {ToSet(parts[j]) : j \in 1..i}
           T == {i \in 0..n : joined[i] \in B /\ ToSet(joined[i]) = Before(i)}
<1>14. Before(0) = {} /\ \A i \in 1..n : Before(i) = Before(i - 1) \cup ToSet(parts[i])
  <2>1. 1..0 = {}
    OBVIOUS
  <2>2. \A i \in 1..n : 1..i = 1..(i - 1) \cup {i}
    BY <1>1
  <2> QED
    BY <2>1, <2>2
<1> HIDE DEF Before
<1>15. 0 \in T
  <2>1. ToSet(<<>>) = {}
    BY DEF ToSet
  <2>2. joined[0] \in B
    BY <1>12, <1>2
  <2>3. ToSet(joined[0]) = Before(0)
    BY <1>12, <2>1, <1>14
  <2>4. 0 \in 0..n
    BY <1>1
  <2> QED
    BY <2>2, <2>3, <2>4
<1>16. \A i \in 0..n : i > 0 /\ i - 1 \in T => i \in T
  <2> SUFFICES ASSUME NEW i \in 0..n, i > 0, i - 1 \in T PROVE i \in T
    OBVIOUS
  <2>1. i \in 1..n
    BY <1>1
  <2>2. /\ parts[i] \in B /\ joined[i] = joined[i - 1] \o parts[i]
        /\ Before(i) = Before(i - 1) \cup ToSet(parts[i])
    BY <2>1, <1>1, <1>13, <1>14
  <2>3. joined[i - 1] \in B /\ ToSet(joined[i - 1]) = Before(i - 1)
    OBVIOUS
  <2>4. ToSet(joined[i - 1] \o parts[i]) = ToSet(joined[i - 1]) \cup ToSet(parts[i])
    BY <2>2, <2>3, ToSetOfMore DEF B
  <2> QED
    BY <2>2, <2>3, <2>4, <1>3
<1> HIDE DEF T
<1>17. 0..n \subseteq T
  BY <1>15, <1>16, <1>1, UpTo
<1>18. n \in T
  BY <1>17, <1>1
<1> QED
  BY <1>9, <1>18 DEF T, B, Before, n

\* The numbers up to n are n numbers.
LEMMA UpToIsFinite ==
    ASSUME NEW n \in Nat
    PROVE  IsFiniteSet(1..n) /\ Cardinality(1..n) = n
  BY FS_Interval

\* The element before which k others come, in a strict total order of a finite set.
Preceding(x, S, before) == {y \in S : <<y, x>> \in before}

IsStrictOrder(S, before) ==
    /\ \A x \in S : <<x, x>> \notin before
    /\ \A x \in S : \A y \in S : x # y => <<x, y>> \in before \/ <<y, x>> \in before
    /\ \A x \in S : \A y \in S : \A z \in S :
          <<x, y>> \in before /\ <<y, z>> \in before => <<x, z>> \in before

\* In a finite set in strict order every rank is taken, once.
LEMMA RanksAreTaken ==
    ASSUME NEW S, IsFiniteSet(S), NEW before, IsStrictOrder(S, before)
    PROVE  /\ Cardinality(S) \in Nat
           /\ \A k \in 1..Cardinality(S) :
                 \E x \in S : Cardinality(Preceding(x, S, before)) = k - 1
           /\ \A x \in S : Cardinality(Preceding(x, S, before)) + 1 \in 1..Cardinality(S)
           /\ \A x \in S : \A y \in S :
                 Cardinality(Preceding(x, S, before)) = Cardinality(Preceding(y, S, before))
                   => x = y
<1> DEFINE n == Cardinality(S)
           rank == [x \in S |-> Cardinality(Preceding(x, S, before))]
<1>1. n \in Nat
  BY FS_CardinalityType
<1>2. ASSUME NEW x \in S
      PROVE  /\ IsFiniteSet(Preceding(x, S, before)) /\ rank[x] \in 0..(n - 1)
             /\ Cardinality(Preceding(x, S, before)) = rank[x]
  <2>1. /\ Preceding(x, S, before) \in SUBSET S /\ x \notin Preceding(x, S, before)
    BY DEF Preceding, IsStrictOrder
  <2>2. /\ IsFiniteSet(Preceding(x, S, before))
        /\ Cardinality(Preceding(x, S, before)) <= n
        /\ Cardinality(Preceding(x, S, before)) # n
    BY <2>1, FS_Subset
  <2>3. Cardinality(Preceding(x, S, before)) \in Nat
    BY <2>2, FS_CardinalityType
  <2> QED
    BY <2>2, <2>3, <1>1
<1>3. ASSUME NEW x \in S, NEW y \in S, <<x, y>> \in before PROVE rank[x] < rank[y]
  <2>1. /\ Preceding(x, S, before) \in SUBSET Preceding(y, S, before)
        /\ x \in Preceding(y, S, before) /\ x \notin Preceding(x, S, before)
    BY <1>3 DEF Preceding, IsStrictOrder
  <2>2. IsFiniteSet(Preceding(y, S, before)) /\ rank[x] \in Nat /\ rank[y] \in Nat
    BY <1>2
  <2>3. /\ Cardinality(Preceding(x, S, before)) <= Cardinality(Preceding(y, S, before))
        /\ Cardinality(Preceding(x, S, before)) # Cardinality(Preceding(y, S, before))
    BY <2>1, <2>2, FS_Subset
  <2> QED
    BY <2>2, <2>3
<1>4. \A x \in S : \A y \in S : rank[x] = rank[y] => x = y
  <2> TAKE x \in S
  <2> TAKE y \in S
  <2>1. rank[x] \in Nat /\ rank[y] \in Nat
    BY <1>2
  <2>2. x # y => rank[x] < rank[y] \/ rank[y] < rank[x]
    BY <1>3 DEF IsStrictOrder
  <2> QED
    BY <2>1, <2>2
<1>5. ASSUME NEW k \in 1..n PROVE \E x \in S : rank[x] = k - 1
  <2> SUFFICES ASSUME \A x \in S : rank[x] # k - 1 PROVE FALSE
    OBVIOUS
  <2> DEFINE R == (0..(n - 1)) \ {k - 1}
  <2>1. rank \in [S -> R]
    <3>1. ASSUME NEW x \in S PROVE Cardinality(Preceding(x, S, before)) \in R
      BY <1>2
    <3> QED
      BY <3>1
  <2>2. IsFiniteSet(0..(n - 1)) /\ Cardinality(0..(n - 1)) = n
    <3>1. PICK m \in Nat : m = n
      BY <1>1
    <3>2. m >= 1 /\ m - 1 \in Int
      BY <1>5, <3>1
    <3>3. IsFiniteSet(0..(m - 1)) /\ Cardinality(0..(m - 1)) = (m - 1) - 0 + 1
      BY <3>2, FS_Interval
    <3> QED
      BY <3>1, <3>2, <3>3
  <2>3. IsFiniteSet(R) /\ Cardinality(R) = n - 1
    <3> DEFINE I == 0..(n - 1)
    <3>1. k - 1 \in I
      BY <1>1, <1>5
    <3>2. IsFiniteSet(I) /\ Cardinality(I) = n
      BY <2>2
    <3> HIDE DEF I
    <3>3. IsFiniteSet(I \ {k - 1}) /\ Cardinality(I \ {k - 1}) = Cardinality(I) - 1
      BY <3>1, <3>2, FS_RemoveElement
    <3> QED
      BY <3>2, <3>3 DEF I
  <2> HIDE DEF R, rank
  <2>4. \E x, y \in S : x # y /\ rank[x] = rank[y]
    BY <2>1, <2>3, <1>1, FS_PigeonHole
  <2> QED
    BY <2>4, <1>4
<1> HIDE DEF rank
<1>6. \A x \in S : rank[x] + 1 \in 1..n
  BY <1>2, <1>1
<1> QED
  BY <1>1, <1>2, <1>4, <1>5, <1>6

-----------------------------------------------------------------------------
(* RelationGraph: what is extracted and merged.                            *)

Found == [source : Names, kind : RelationKinds, target : Names, sentence : Nat]
Relation ==
    [source : Names, kind : RelationKinds, target : Names, ref : Nat, sentence : Nat, support : Nat]
Entity == [refs : SUBSET Nat, count : Nat]
Ids == {RelationId(r) : r \in Found}

ShownIn(text) == {r \in Found : IsShownBy(r, text)}

\* The types of what is found in a text.
LEMMA FoundFields ==
    /\ \A a \in Names : \A k \in RelationKinds : \A b \in Names : \A n \in Nat :
          [source |-> a, kind |-> k, target |-> b, sentence |-> n] \in Found
    /\ \A r \in Found : r.source \in Names /\ r.kind \in RelationKinds /\ r.target \in Names
                        /\ r.sentence \in Nat
  BY DEF Found

\* The types of a text.
LEMMA TextsAreTyped ==
    ASSUME NEW t \in Texts
    PROVE  /\ t.mentions \in Seq(Names) /\ t.sentences \in Seq(Sentence)
           /\ \A i \in DOMAIN t.sentences :
                 t.sentences[i].names \in SUBSET Names /\ t.sentences[i].kind \in RelationKinds
           /\ \A i, j \in DOMAIN t.mentions : t.mentions[i] = t.mentions[j] => i = j
<1>1. t.mentions \in Seq(Names) /\ t.sentences \in Seq(Sentence)
      /\ \A i, j \in DOMAIN t.mentions : t.mentions[i] = t.mentions[j] => i = j
  BY GraphAssumption
<1>2. \A i \in DOMAIN t.sentences : t.sentences[i] \in Sentence
  BY <1>1
<1> QED
  BY <1>1, <1>2 DEF Sentence

\* Neighbours relate the names they were made of.
LEMMA NeighboursAreFound ==
    ASSUME NEW B \in SUBSET Names, NEW names \in Seq(B), NEW kind \in RelationKinds, NEW k \in Nat
    PROVE  Neighbours(names, kind, k)
             \in Seq({r \in Found : /\ {r.source, r.target} \subseteq B
                                    /\ r.kind = kind /\ r.sentence = k})
<1> DEFINE n == Len(names)
           m == IF n = 0 THEN 0 ELSE n - 1
           R == {r \in Found : /\ {r.source, r.target} \subseteq B
                               /\ r.kind = kind /\ r.sentence = k}
           N(i) == [source |-> names[i], kind |-> kind, target |-> names[i + 1], sentence |-> k]
<1>1. n \in Nat /\ \A i \in 1..n : names[i] \in B
  OBVIOUS
<1>2. m \in Nat /\ 1..(n - 1) = 1..m /\ \A i \in 1..m : i \in 1..n /\ i + 1 \in 1..n
  BY <1>1
<1>3. ASSUME NEW i \in 1..m PROVE N(i) \in R
  <2>1. names[i] \in B /\ names[i + 1] \in B
    BY <1>1, <1>2
  <2>2. N(i) \in Found
    BY <2>1, FoundFields
  <2> QED
    BY <2>1, <2>2
<1>4. Neighbours(names, kind, k) = [i \in 1..m |-> N(i)]
  BY <1>2 DEF Neighbours
<1> HIDE DEF N, R, m
<1>5. [i \in 1..m |-> N(i)] \in [1..m -> R]
  BY <1>3
<1>6. [i \in 1..m |-> N(i)] \in Seq(R)
  BY <1>2, <1>5, SeqDef
<1> QED
  BY <1>4, <1>6 DEF R

\* The relations of a sentence are shown by it.
LEMMA InSentenceIsShown ==
    ASSUME NEW t \in Texts, NEW i \in DOMAIN t.sentences
    PROVE  InSentence(t, i) \in Seq(ShownIn(t))
<1> DEFINE s == t.sentences[i]
           B == Names \cap s.names
           R == {r \in Found : /\ {r.source, r.target} \subseteq B
                               /\ r.kind = s.kind /\ r.sentence = i}
<1>1. /\ t.mentions \in Seq(Names) /\ t.sentences \in Seq(Sentence)
      /\ s.names \in SUBSET Names /\ s.kind \in RelationKinds
  BY TextsAreTyped
<1>2. i \in Nat /\ i # 0
  BY <1>1
<1>3. Keeping(t.mentions, s.names) \in Seq(B) /\ B \in SUBSET Names
  BY <1>1, KeepingKeeps
<1>4. InSentence(t, i) \in Seq(R)
  BY <1>1, <1>2, <1>3, NeighboursAreFound DEF InSentence
<1>5. R \subseteq ShownIn(t)
  BY <1>2 DEF ShownIn, IsShownBy
<1> HIDE DEF R
<1> QED
  BY <1>4, <1>5, SeqMonotonic

\* Everything extracted from a text is shown by it.
LEMMA ExtractedIsShown ==
    ASSUME NEW t \in Texts
    PROVE  ExtractRelations(t) \in Seq(ShownIn(t))
<1> DEFINE R == ShownIn(t)
           parts == [i \in DOMAIN t.sentences |-> InSentence(t, i)]
           m == IF Len(t.mentions) < 4 THEN Len(t.mentions) ELSE 4
           first == SubSeq(t.mentions, 1, m)
           B == ToSet(t.mentions)
           S == {r \in Found : /\ {r.source, r.target} \subseteq B
                               /\ r.kind = "related_to" /\ r.sentence = 0}
<1>1. t.mentions \in Seq(Names) /\ t.sentences \in Seq(Sentence)
  BY TextsAreTyped
<1>2. Said(t) \in Seq(R)
  <2>1. \A i \in DOMAIN t.sentences : InSentence(t, i) \in Seq(R)
    BY InSentenceIsShown
  <2>2. Len(t.sentences) \in Nat /\ DOMAIN t.sentences = 1..Len(t.sentences)
    BY <1>1
  <2> HIDE DEF R
  <2>3. parts \in [1..Len(t.sentences) -> Seq(R)]
    BY <2>1, <2>2
  <2> HIDE DEF parts
  <2>4. parts \in Seq(Seq(R))
    BY <2>2, <2>3, SeqDef
  <2> QED
    BY <2>4, JoinedIsAll DEF Said, parts
<1>3. Cooccurring(t) \in Seq(R)
  <2>1. B \in SUBSET Names
    BY <1>1, ToSetOfMore
  <2>2. m \in Nat /\ m <= Len(t.mentions) /\ Len(t.mentions) \in Nat
    BY <1>1
  <2>3. \A i \in 1..Len(t.mentions) : t.mentions[i] \in B
    BY <1>1 DEF ToSet
  <2> HIDE DEF m, B
  <2>4. first \in Seq(B)
    <3>1. first = [i \in 1..m |-> t.mentions[i]]
      BY <1>1, <2>2
    <3> HIDE DEF first
    <3>2. \A i \in 1..m : i \in 1..Len(t.mentions)
      BY <2>2
    <3>3. \A i \in 1..m : t.mentions[i] \in B
      BY <2>3, <3>2
    <3>4. first \in [1..m -> B]
      BY <3>1, <3>3
    <3> QED
      BY <2>2, <3>4, SeqDef
  <2>5. "related_to" \in RelationKinds
    BY DEF RelationKinds
  <2> HIDE DEF first
  <2>6. Neighbours(first, "related_to", 0) \in Seq(S)
    BY <2>1, <2>4, <2>5, NeighboursAreFound
  <2>7. S \subseteq R
    BY DEF B, ShownIn, IsShownBy
  <2>8. Neighbours(first, "related_to", 0) \in Seq(R)
    <3> HIDE DEF S, R
    <3> QED
      BY <2>6, <2>7, SeqMonotonic
  <2> QED
    BY <2>8 DEF Cooccurring, first, m
<1> HIDE DEF R
<1>4. ExtractRelations(t) \in Seq(R)
  BY <1>2, <1>3 DEF ExtractRelations
<1> QED
  BY <1>4 DEF R

-----------------------------------------------------------------------------
\* Relations that the texts show.
Known(texts) ==
    {known \in UNION {[D -> Relation] : D \in SUBSET Ids} :
        /\ IsFiniteSet(DOMAIN known)
        /\ \A id \in DOMAIN known : /\ known[id].ref \in DOMAIN texts
                                    /\ IsShownBy(known[id], texts[known[id].ref])}

\* The types of a relation, which one more text does not change.
LEMMA RelationFields ==
    /\ \A f \in Found : \A n \in Nat : \A m \in Nat :
          [source |-> f.source, kind |-> f.kind, target |-> f.target, ref |-> n,
           sentence |-> f.sentence, support |-> m] \in Relation
    /\ \A r \in Relation :
          /\ r.source \in Names /\ r.kind \in RelationKinds /\ r.target \in Names
          /\ r.ref \in Nat /\ r.sentence \in Nat /\ r.support \in Nat
          /\ LET q == [r EXCEPT !.support = @ + 1]
             IN  /\ q \in Relation /\ q.source = r.source /\ q.kind = r.kind
                 /\ q.target = r.target /\ q.ref = r.ref /\ q.sentence = r.sentence
  BY DEF Relation, Found

\* Known relations, one by one.
LEMMA KnownIs ==
    ASSUME NEW texts, NEW known
    PROVE  known \in Known(texts) <=>
             /\ known = [id \in DOMAIN known |-> known[id]]
             /\ DOMAIN known \in SUBSET Ids /\ IsFiniteSet(DOMAIN known)
             /\ \A id \in DOMAIN known : /\ known[id] \in Relation
                                         /\ known[id].ref \in DOMAIN texts
                                         /\ IsShownBy(known[id], texts[known[id].ref])
<1>1. known \in UNION {[D -> Relation] : D \in SUBSET Ids} <=>
        /\ known = [id \in DOMAIN known |-> known[id]]
        /\ DOMAIN known \in SUBSET Ids /\ \A id \in DOMAIN known : known[id] \in Relation
  <2>1. ASSUME known \in UNION {[D -> Relation] : D \in SUBSET Ids}
        PROVE  /\ known = [id \in DOMAIN known |-> known[id]]
               /\ DOMAIN known \in SUBSET Ids /\ \A id \in DOMAIN known : known[id] \in Relation
    <3>1. PICK D \in SUBSET Ids : known \in [D -> Relation]
      BY <2>1
    <3> QED
      BY <3>1
  <2>2. ASSUME /\ known = [id \in DOMAIN known |-> known[id]]
               /\ DOMAIN known \in SUBSET Ids /\ \A id \in DOMAIN known : known[id] \in Relation
        PROVE  known \in UNION {[D -> Relation] : D \in SUBSET Ids}
    <3>1. known \in [DOMAIN known -> Relation]
      BY <2>2
    <3> QED
      BY <2>2, <3>1
  <2> QED
    BY <2>1, <2>2
<1> QED
  BY <1>1 DEF Known

\* A relation merged keeps its evidence, and a new one has its own.
LEMMA MergedRelationIsShown ==
    ASSUME NEW texts, NEW known \in Known(texts), NEW n \in DOMAIN texts, n \in Nat,
           NEW f \in ShownIn(texts[n])
    PROVE  MergeRelation(known, f, n) \in Known(texts)
<1> DEFINE id == RelationId(f)
           D == DOMAIN known \cup {id}
           new == [source |-> f.source, kind |-> f.kind, target |-> f.target, ref |-> n,
                   sentence |-> f.sentence, support |-> 1]
           v == IF id \in DOMAIN known THEN [known[id] EXCEPT !.support = @ + 1] ELSE new
           more == [x \in D |-> IF x = id THEN v ELSE known[x]]
<1>1. f \in Found /\ IsShownBy(f, texts[n])
  BY DEF ShownIn
<1>2. /\ DOMAIN known \in SUBSET Ids /\ IsFiniteSet(DOMAIN known)
      /\ \A x \in DOMAIN known : /\ known[x] \in Relation /\ known[x].ref \in DOMAIN texts
                                 /\ IsShownBy(known[x], texts[known[x].ref])
  BY KnownIs
<1>3. D \in SUBSET Ids /\ IsFiniteSet(D)
  BY <1>1, <1>2, FS_AddElement DEF Ids
<1>4. v \in Relation /\ v.ref \in DOMAIN texts /\ IsShownBy(v, texts[v.ref])
  <2>1. ASSUME id \in DOMAIN known
        PROVE  v \in Relation /\ v.ref \in DOMAIN texts /\ IsShownBy(v, texts[v.ref])
    <3> DEFINE r == known[id]
    <3>1. r \in Relation /\ r.ref \in DOMAIN texts /\ IsShownBy(r, texts[r.ref])
      BY <1>2, <2>1
    <3>2. v = [r EXCEPT !.support = @ + 1]
      BY <2>1
    <3> HIDE DEF r, v
    <3>3. /\ v \in Relation /\ v.source = r.source /\ v.kind = r.kind
          /\ v.target = r.target /\ v.ref = r.ref /\ v.sentence = r.sentence
      BY <3>1, <3>2, RelationFields
    <3> QED
      BY <3>1, <3>3 DEF IsShownBy
  <2>2. ASSUME id \notin DOMAIN known
        PROVE  v \in Relation /\ v.ref \in DOMAIN texts /\ IsShownBy(v, texts[v.ref])
    <3>1. v = new
      BY <2>2
    <3>2. new \in Relation
      BY <1>1, RelationFields
    <3>3. /\ new.source = f.source /\ new.kind = f.kind /\ new.target = f.target
          /\ new.ref = n /\ new.sentence = f.sentence
      OBVIOUS
    <3> HIDE DEF v, new
    <3> QED
      BY <1>1, <3>1, <3>2, <3>3 DEF IsShownBy
  <2> QED
    BY <2>1, <2>2
<1>5. MergeRelation(known, f, n) = more
  BY DEF MergeRelation, Update
<1> HIDE DEF v, id
<1>6. DOMAIN more = D /\ more = [x \in DOMAIN more |-> more[x]]
  OBVIOUS
<1>7. \A x \in D : more[x] = IF x = id THEN v ELSE known[x]
  OBVIOUS
<1> HIDE DEF more
<1>8. \A x \in DOMAIN more : /\ more[x] \in Relation /\ more[x].ref \in DOMAIN texts
                             /\ IsShownBy(more[x], texts[more[x].ref])
  <2> TAKE x \in DOMAIN more
  <2>1. CASE x = id
    BY <2>1, <1>4, <1>6, <1>7
  <2>2. CASE x # id
    BY <2>2, <1>2, <1>6, <1>7
  <2> QED
    BY <2>1, <2>2
<1>9. more \in Known(texts)
  BY <1>3, <1>6, <1>8, KnownIs
<1> QED
  BY <1>5, <1>9

\* So do all the relations of a text.
LEMMA MergedRelationsAreShown ==
    ASSUME NEW texts, NEW known \in Known(texts), NEW n \in DOMAIN texts, n \in Nat,
           NEW found \in Seq(ShownIn(texts[n]))
    PROVE  MergeRelations(known, found, n) \in Known(texts)
<1> DEFINE len == Len(found)
           A == Known(texts)
           R == ShownIn(texts[n])
           F == [p \in (1..len) \X A |-> MergeRelation(p[2], found[p[1]], n)]
<1>1. len \in Nat /\ \A i \in 1..len : found[i] \in R
  OBVIOUS
<1>2. \A k \in A : \A f \in R : MergeRelation(k, f, n) \in A
  BY MergedRelationIsShown
<1> HIDE DEF len, A, R
<1>3. known \in A
  BY DEF A
<1>4. F \in [(1..len) \X A -> A]
  BY <1>1, <1>2
<1> HIDE DEF F
<1>5. PICK g : Follows(g, len, A, known, F)
  BY <1>1, <1>3, <1>4, StepsExist
<1>6. g \in [0..len -> A] /\ g[0] = known /\ \A i \in 1..len : g[i] = F[<<i, g[i - 1]>>]
  BY <1>5 DEF Follows
<1>7. \A i \in 1..len : g[i] = MergeRelation(g[i - 1], found[i], n)
  <2> TAKE i \in 1..len
  <2>1. g[i] = F[<<i, g[i - 1]>>] /\ g[i - 1] \in A
    BY <1>6, <1>1
  <2> QED
    BY <2>1 DEF F
<1> DEFINE Rec(f, i) == IF i = 0 THEN known ELSE MergeRelation(f[i - 1], found[i], n)
           merge == CHOOSE f : f = [i \in 0..len |-> Rec(f, i)]
<1>8. g = [i \in 0..len |-> Rec(g, i)]
  <2>1. \A i \in 0..len : g[i] = Rec(g, i)
    <3> TAKE i \in 0..len
    <3>1. i # 0 => i \in 1..len
      BY <1>1
    <3> QED
      BY <3>1, <1>6, <1>7
  <2> HIDE DEF Rec
  <2> QED
    BY <2>1, <1>6
<1>9. MergeRelations(known, found, n) = merge[len]
  BY DEF MergeRelations, len
<1>10. merge = [i \in 0..len |-> Rec(merge, i)]
  <2> HIDE DEF Rec
  <2> QED
    BY <1>8
<1> HIDE DEF merge
<1>11. \A i \in 0..len : merge[i] = Rec(merge, i)
  <2> HIDE DEF Rec
  <2> QED
    BY <1>10
<1> DEFINE T == {i \in 0..len : merge[i] \in A}
<1>12. 0 \in T
  BY <1>11, <1>1, <1>3
<1>13. \A i \in 0..len : i > 0 /\ i - 1 \in T => i \in T
  <2> SUFFICES ASSUME NEW i \in 0..len, i > 0, i - 1 \in T PROVE i \in T
    OBVIOUS
  <2>1. i \in 1..len /\ i # 0
    BY <1>1
  <2>2. merge[i] = MergeRelation(merge[i - 1], found[i], n)
    BY <2>1, <1>11
  <2>3. merge[i - 1] \in A /\ found[i] \in R
    BY <2>1, <1>1
  <2> QED
    BY <2>2, <2>3, <1>2
<1> HIDE DEF T
<1>14. 0..len \subseteq T
  BY <1>1, <1>12, <1>13, UpTo
<1>15. len \in T
  BY <1>14, <1>1
<1> QED
  BY <1>9, <1>15 DEF T, A

-----------------------------------------------------------------------------
\* A text counted once for each name it mentions.
Counted(known, name, ref) ==
    IF name \in DOMAIN known
      THEN [refs |-> known[name].refs \cup {ref}, count |-> known[name].count + 1]
      ELSE [refs |-> {ref}, count |-> 1]

Entities == UNION {[D -> Entity] : D \in SUBSET Names}

\* Known entities, one by one.
LEMMA EntitiesAre ==
    ASSUME NEW known
    PROVE  known \in Entities <=>
             /\ known = [x \in DOMAIN known |-> known[x]]
             /\ DOMAIN known \in SUBSET Names /\ \A x \in DOMAIN known : known[x] \in Entity
<1>1. ASSUME known \in Entities
      PROVE  /\ known = [x \in DOMAIN known |-> known[x]]
             /\ DOMAIN known \in SUBSET Names /\ \A x \in DOMAIN known : known[x] \in Entity
  <2>1. PICK D \in SUBSET Names : known \in [D -> Entity]
    BY <1>1 DEF Entities
  <2> QED
    BY <2>1
<1>2. ASSUME /\ known = [x \in DOMAIN known |-> known[x]]
             /\ DOMAIN known \in SUBSET Names /\ \A x \in DOMAIN known : known[x] \in Entity
      PROVE  known \in Entities
  <2>1. known \in [DOMAIN known -> Entity]
    BY <1>2
  <2> QED
    BY <1>2, <2>1 DEF Entities
<1> QED
  BY <1>1, <1>2

\* An entity counted once, and once more.
LEMMA EntityFields ==
    ASSUME NEW n \in Nat
    PROVE  /\ [refs |-> {n}, count |-> 1] \in Entity
           /\ \A e \in Entity : /\ e.count \in Nat
                                /\ [refs |-> e.refs \cup {n}, count |-> e.count + 1] \in Entity
  BY DEF Entity

\* One name is counted, and no other.
LEMMA MergedEntity ==
    ASSUME NEW known \in Entities, NEW name \in Names, NEW n \in Nat
    PROVE  LET more == MergeEntity(known, name, n)
           IN  /\ more \in Entities
               /\ DOMAIN more = DOMAIN known \cup {name}
               /\ more[name] = Counted(known, name, n)
               /\ \A x \in DOMAIN known \ {name} : more[x] = known[x]
<1> DEFINE D == DOMAIN known \cup {name}
           v == Counted(known, name, n)
           more == [x \in D |-> IF x = name THEN v ELSE known[x]]
<1>1. DOMAIN known \in SUBSET Names /\ \A x \in DOMAIN known : known[x] \in Entity
  BY EntitiesAre
<1>2. v \in Entity
  BY <1>1, EntityFields DEF Counted
<1>3. MergeEntity(known, name, n) = more
  BY DEF MergeEntity, Update, Counted
<1> HIDE DEF v
<1>4. /\ DOMAIN more = D /\ more = [x \in DOMAIN more |-> more[x]]
      /\ \A x \in D : more[x] = IF x = name THEN v ELSE known[x]
  OBVIOUS
<1> HIDE DEF more
<1>5. more \in Entities
  BY <1>1, <1>2, <1>4, EntitiesAre
<1> QED
  BY <1>3, <1>4, <1>5 DEF v

\* Names that differ are each counted once, and no other.
LEMMA MergedEntities ==
    ASSUME NEW known \in Entities, NEW names \in Seq(Names), NEW n \in Nat,
           \A i, j \in DOMAIN names : names[i] = names[j] => i = j
    PROVE  LET more == MergeEntities(known, names, n)
           IN  /\ more \in Entities
               /\ DOMAIN more = DOMAIN known \cup ToSet(names)
               /\ \A x \in ToSet(names) : more[x] = Counted(known, x, n)
               /\ \A x \in DOMAIN known \ ToSet(names) : more[x] = known[x]
<1> DEFINE len == Len(names)
           A == Entities
           F == [p \in (1..len) \X A |-> MergeEntity(p[2], names[p[1]], n)]
           First(i) == {names[j] : j \in 1..i}
<1>1. len \in Nat /\ DOMAIN names = 1..len /\ \A i \in 1..len : names[i] \in Names
  OBVIOUS
<1>2. \A k \in A : \A x \in Names : MergeEntity(k, x, n) \in A
  BY MergedEntity
<1> HIDE DEF len, A
<1>3. known \in A
  BY DEF A
<1>4. F \in [(1..len) \X A -> A]
  BY <1>1, <1>2
<1> HIDE DEF F
<1>5. PICK g : Follows(g, len, A, known, F)
  BY <1>1, <1>3, <1>4, StepsExist
<1>6. g \in [0..len -> A] /\ g[0] = known /\ \A i \in 1..len : g[i] = F[<<i, g[i - 1]>>]
  BY <1>5 DEF Follows
<1>7. \A i \in 1..len : g[i] = MergeEntity(g[i - 1], names[i], n)
  <2> TAKE i \in 1..len
  <2>1. g[i] = F[<<i, g[i - 1]>>] /\ g[i - 1] \in A
    BY <1>6, <1>1
  <2> QED
    BY <2>1 DEF F
<1> DEFINE Rec(f, i) == IF i = 0 THEN known ELSE MergeEntity(f[i - 1], names[i], n)
           merge == CHOOSE f : f = [i \in 0..len |-> Rec(f, i)]
<1>8. g = [i \in 0..len |-> Rec(g, i)]
  <2>1. \A i \in 0..len : g[i] = Rec(g, i)
    <3> TAKE i \in 0..len
    <3>1. i # 0 => i \in 1..len
      BY <1>1
    <3> QED
      BY <3>1, <1>6, <1>7
  <2> HIDE DEF Rec
  <2> QED
    BY <2>1, <1>6
<1>9. MergeEntities(known, names, n) = merge[len]
  BY DEF MergeEntities, len
<1>10. merge = [i \in 0..len |-> Rec(merge, i)]
  <2> HIDE DEF Rec
  <2> QED
    BY <1>8
<1> HIDE DEF merge
<1>11. \A i \in 0..len : merge[i] = Rec(merge, i)
  <2> HIDE DEF Rec
  <2> QED
    BY <1>10
<1>12. First(0) = {} /\ \A i \in 1..len : First(i) = First(i - 1) \cup {names[i]}
  <2>1. 1..0 = {}
    OBVIOUS
  <2>2. \A i \in 1..len : 1..i = 1..(i - 1) \cup {i}
    BY <1>1
  <2> QED
    BY <2>1, <2>2
<1>13. \A i \in 1..len : names[i] \notin First(i - 1)
  <2> SUFFICES ASSUME NEW i \in 1..len, NEW j \in 1..(i - 1), names[i] = names[j] PROVE FALSE
    OBVIOUS
  <2>1. i \in DOMAIN names /\ j \in DOMAIN names /\ i # j
    BY <1>1
  <2> QED
    BY <2>1
<1>14. First(len) = ToSet(names)
  BY <1>1 DEF ToSet
<1> HIDE DEF First
<1> DEFINE Good(i) == /\ merge[i] \in A
                      /\ DOMAIN merge[i] = DOMAIN known \cup First(i)
                      /\ \A x \in First(i) : merge[i][x] = Counted(known, x, n)
                      /\ \A x \in DOMAIN known \ First(i) : merge[i][x] = known[x]
           T == {i \in 0..len : Good(i)}
<1>15. 0 \in T
  <2>1. merge[0] = known /\ 0 \in 0..len
    BY <1>11, <1>1
  <2> QED
    BY <2>1, <1>3, <1>12
<1>16. ASSUME NEW i \in 0..len, i > 0, i - 1 \in T PROVE i \in T
  <2> DEFINE before == merge[i - 1]
             after == merge[i]
             x0 == names[i]
             F0 == First(i - 1)
  <2>1. i \in 1..len /\ i # 0
    BY <1>1, <1>16
  <2>2. after = MergeEntity(before, x0, n)
    BY <2>1, <1>11
  <2>3. /\ x0 \in Names /\ x0 \notin F0 /\ First(i) = F0 \cup {x0}
    BY <2>1, <1>1, <1>12, <1>13
  <2>4. /\ before \in A /\ DOMAIN before = DOMAIN known \cup F0
        /\ \A x \in F0 : before[x] = Counted(known, x, n)
        /\ \A x \in DOMAIN known \ F0 : before[x] = known[x]
    BY <1>16
  <2> HIDE DEF before, after, x0, F0
  <2>5. /\ after \in A /\ DOMAIN after = DOMAIN before \cup {x0}
        /\ after[x0] = Counted(before, x0, n)
        /\ \A x \in DOMAIN before \ {x0} : after[x] = before[x]
    <3>1. before \in Entities
      BY <2>4 DEF A
    <3>2. LET m == MergeEntity(before, x0, n)
          IN  /\ m \in Entities
              /\ DOMAIN m = DOMAIN before \cup {x0}
              /\ m[x0] = Counted(before, x0, n)
              /\ \A x \in DOMAIN before \ {x0} : m[x] = before[x]
      BY <3>1, <2>3, MergedEntity
    <3> QED
      BY <2>2, <3>2 DEF A
  <2>6. Counted(before, x0, n) = Counted(known, x0, n)
    BY <2>3, <2>4 DEF Counted
  <2>7. DOMAIN after = DOMAIN known \cup First(i)
    BY <2>3, <2>4, <2>5
  <2>8. \A x \in First(i) : after[x] = Counted(known, x, n)
    <3> TAKE x \in First(i)
    <3>1. CASE x = x0
      BY <3>1, <2>5, <2>6
    <3>2. CASE x # x0
      BY <3>2, <2>3, <2>4, <2>5
    <3> QED
      BY <3>1, <3>2
  <2>9. \A x \in DOMAIN known \ First(i) : after[x] = known[x]
    BY <2>3, <2>4, <2>5
  <2> QED
    BY <2>5, <2>7, <2>8, <2>9 DEF after
<1> HIDE DEF T
<1>17. 0..len \subseteq T
  BY <1>1, <1>15, <1>16, UpTo
<1>18. len \in T
  BY <1>17, <1>1
<1> HIDE DEF Good
<1>19. Good(len)
  BY <1>18 DEF T
<1> QED
  BY <1>9, <1>14, <1>19 DEF Good, A

-----------------------------------------------------------------------------
(* RelationGraph: orders.                                                  *)

\* A name has one place in the alphabet.
LEMMA PositionsAreOwn ==
    /\ \A a \in Names : Position(a) \in Nat
    /\ \A a \in Names : \A b \in Names : Position(a) = Position(b) => a = b
<1>1. DOMAIN NameOrder = 1..Len(NameOrder) /\ Len(NameOrder) \in Nat
  BY GraphAssumption
<1>2. \A a \in Names : Position(a) \in DOMAIN NameOrder /\ NameOrder[Position(a)] = a
  <2> TAKE a \in Names
  <2>1. \E i \in DOMAIN NameOrder : NameOrder[i] = a
    BY DEF Names
  <2> QED
    BY <2>1 DEF Position
<1> QED
  BY <1>1, <1>2

\* There are finitely many names.
LEMMA NamesAreFinite == IsFiniteSet(Names)
<1> DEFINE f == [i \in DOMAIN NameOrder |-> NameOrder[i]]
<1>1. DOMAIN NameOrder = 1..Len(NameOrder) /\ Len(NameOrder) \in Nat
  BY GraphAssumption
<1>2. IsFiniteSet(DOMAIN NameOrder)
  BY <1>1, FS_Interval
<1>3. f \in Surjection(DOMAIN NameOrder, Names)
  BY DEF Surjection, Names
<1> QED
  BY <1>2, <1>3, FS_Surjection

\* The comparison of two relations, key by key.
LEMMA StrongerIsByKeys ==
    ASSUME NEW r \in Relation, NEW s \in Relation
    PROVE  Stronger(r, s) <=>
             \/ s.support < r.support
             \/ /\ s.support = r.support
                /\ Position(r.source) < Position(s.source)
             \/ /\ s.support = r.support /\ Position(r.source) = Position(s.source)
                /\ Position(r.target) < Position(s.target)
             \/ /\ s.support = r.support /\ Position(r.source) = Position(s.source)
                /\ Position(r.target) = Position(s.target)
                /\ r.ref < s.ref
             \/ /\ s.support = r.support /\ Position(r.source) = Position(s.source)
                /\ Position(r.target) = Position(s.target) /\ r.ref = s.ref
                /\ r.sentence < s.sentence
<1> DEFINE a == SortKey(r)
           b == SortKey(s)
<1>1. r.support \in Nat /\ s.support \in Nat
  BY RelationFields
<1>2. /\ a[1] = -r.support /\ a[2] = Position(r.source) /\ a[3] = Position(r.target)
      /\ a[4] = r.ref /\ a[5] = r.sentence
      /\ b[1] = -s.support /\ b[2] = Position(s.source) /\ b[3] = Position(s.target)
      /\ b[4] = s.ref /\ b[5] = s.sentence
  BY DEF SortKey
<1> HIDE DEF a, b
<1> DEFINE E(i) == a[i] < b[i] /\ \A j \in 1..(i - 1) : a[j] = b[j]
<1>3. Stronger(r, s) <=> \E i \in 1..5 : E(i)
  BY DEF Stronger, a, b
<1>4. /\ E(1) <=> a[1] < b[1]
      /\ E(2) <=> a[2] < b[2] /\ a[1] = b[1]
      /\ E(3) <=> a[3] < b[3] /\ a[1] = b[1] /\ a[2] = b[2]
      /\ E(4) <=> a[4] < b[4] /\ a[1] = b[1] /\ a[2] = b[2] /\ a[3] = b[3]
      /\ E(5) <=> a[5] < b[5] /\ a[1] = b[1] /\ a[2] = b[2] /\ a[3] = b[3] /\ a[4] = b[4]
  <2>1. /\ \A j : j \in 1..(1 - 1) <=> FALSE
        /\ \A j : j \in 1..(2 - 1) <=> j = 1
        /\ \A j : j \in 1..(3 - 1) <=> j = 1 \/ j = 2
        /\ \A j : j \in 1..(4 - 1) <=> j = 1 \/ j = 2 \/ j = 3
        /\ \A j : j \in 1..(5 - 1) <=> j = 1 \/ j = 2 \/ j = 3 \/ j = 4
    OBVIOUS
  <2> QED
    BY <2>1
<1> HIDE DEF E
<1>5. (\E i \in 1..5 : E(i)) <=> E(1) \/ E(2) \/ E(3) \/ E(4) \/ E(5)
  <2>1. \A i : i \in 1..5 <=> i = 1 \/ i = 2 \/ i = 3 \/ i = 4 \/ i = 5
    OBVIOUS
  <2> QED
    BY <2>1
<1>6. /\ -r.support < -s.support <=> s.support < r.support
      /\ -r.support = -s.support <=> s.support = r.support
  BY <1>1
<1> QED
  BY <1>2, <1>3, <1>4, <1>5, <1>6

\* Relations that any two of which differ in their keys can be sorted.
SameKeys(r, s) ==
    /\ s.support = r.support /\ Position(r.source) = Position(s.source)
    /\ Position(r.target) = Position(s.target) /\ r.ref = s.ref /\ r.sentence = s.sentence

\* The relations sorted are a sequence of those relations.
LEMMA StrongestFirstIsThere ==
    ASSUME NEW S \in SUBSET Relation, IsFiniteSet(S),
           \A r \in S : \A s \in S : SameKeys(r, s) => r = s
    PROVE  StrongestFirst(S) \in Seq(S)
<1> DEFINE before == {p \in S \X S : Stronger(p[1], p[2])}
<1>1. \A r \in S : /\ r \in Relation /\ r.support \in Nat /\ r.ref \in Nat /\ r.sentence \in Nat
                   /\ Position(r.source) \in Nat /\ Position(r.target) \in Nat
  BY RelationFields, PositionsAreOwn
<1>2. \A r \in S : \A s \in S : <<r, s>> \in before <=> Stronger(r, s)
  OBVIOUS
<1> HIDE DEF before
<1>3. IsStrictOrder(S, before)
  <2>1. \A r \in S : ~Stronger(r, r)
    BY <1>1, StrongerIsByKeys
  <2>2. \A r \in S : \A s \in S : r # s => Stronger(r, s) \/ Stronger(s, r)
    <3> TAKE r \in S
    <3> TAKE s \in S
    <3>1. Stronger(r, s) \/ Stronger(s, r) \/ SameKeys(r, s)
      BY <1>1, StrongerIsByKeys DEF SameKeys
    <3> QED
      BY <3>1
  <2>3. \A r \in S : \A s \in S : \A q \in S :
           Stronger(r, s) /\ Stronger(s, q) => Stronger(r, q)
    <3> TAKE r \in S
    <3> TAKE s \in S
    <3> TAKE q \in S
    <3> QED
      BY <1>1, StrongerIsByKeys
  <2> QED
    BY <1>2, <2>1, <2>2, <2>3 DEF IsStrictOrder
<1> DEFINE n == Cardinality(S)
           Rank(r) == Cardinality({s \in S : Stronger(s, r)})
<1>4. \A r \in S : Rank(r) = Cardinality(Preceding(r, S, before))
  <2> TAKE r \in S
  <2>1. {s \in S : Stronger(s, r)} = Preceding(r, S, before)
    BY <1>2 DEF Preceding
  <2> QED
    BY <2>1
<1> HIDE DEF Rank
<1>5. n \in Nat /\ \A k \in 1..n : \E r \in S : Rank(r) = k - 1
  BY <1>3, <1>4, RanksAreTaken
<1>6. \A k \in 1..n : (CHOOSE r \in S : Rank(r) = k - 1) \in S
  BY <1>5
<1>7. StrongestFirst(S) = [k \in 1..n |-> CHOOSE r \in S : Rank(r) = k - 1]
  BY DEF StrongestFirst, Rank
<1> HIDE DEF n
<1>8. StrongestFirst(S) \in [1..n -> S]
  BY <1>6, <1>7
<1> QED
  BY <1>5, <1>8, SeqDef

Path == [relation : Relation, score : Int]

\* Sorting the paths loses none.
LEMMA BestFirstIsAll ==
    ASSUME NEW paths \in Seq(Path)
    PROVE  /\ BestFirst(paths) \in Seq(Path) /\ Len(BestFirst(paths)) = Len(paths)
           /\ ToSet(BestFirst(paths)) = ToSet(paths)
<1> DEFINE n == Len(paths)
           S == 1..n
           Better(j, i) == \/ paths[j].score > paths[i].score
                           \/ paths[j].score = paths[i].score /\ j < i
           before == {p \in S \X S : Better(p[1], p[2])}
           Rank(i) == Cardinality({j \in S : Better(j, i)})
           At(k) == CHOOSE i \in S : Rank(i) = k - 1
           sorted == [k \in S |-> paths[At(k)]]
<1>1. n \in Nat /\ DOMAIN paths = S /\ \A i \in S : paths[i] \in Path
  OBVIOUS
<1>2. \A i \in S : paths[i].score \in Int /\ i \in Int
  <2>1. \A p \in Path : p.score \in Int
    BY DEF Path
  <2> QED
    BY <1>1, <2>1
<1>3. IsFiniteSet(S) /\ Cardinality(S) = n
  BY <1>1, UpToIsFinite
<1>4. \A i \in S : \A j \in S : <<i, j>> \in before <=> Better(i, j)
  OBVIOUS
<1>5. BestFirst(paths) = sorted
  BY <1>1 DEF BestFirst
<1> HIDE DEF before, S, n
<1>6. IsStrictOrder(S, before)
  <2>1. \A i \in S : ~Better(i, i)
    BY <1>2
  <2>2. \A i \in S : \A j \in S : i # j => Better(i, j) \/ Better(j, i)
    BY <1>2
  <2>3. \A i \in S : \A j \in S : \A k \in S : Better(i, j) /\ Better(j, k) => Better(i, k)
    BY <1>2
  <2> HIDE DEF Better
  <2> QED
    BY <1>4, <2>1, <2>2, <2>3 DEF IsStrictOrder
<1> HIDE DEF Better
<1>7. \A i \in S : Rank(i) = Cardinality(Preceding(i, S, before))
  <2> TAKE i \in S
  <2>1. {j \in S : Better(j, i)} = Preceding(i, S, before)
    BY <1>4 DEF Preceding
  <2> QED
    BY <2>1
<1> HIDE DEF Rank
<1>8. /\ \A k \in 1..n : \E i \in S : Rank(i) = k - 1
      /\ \A i \in S : Rank(i) + 1 \in 1..n
      /\ \A i \in S : \A j \in S : Rank(i) = Rank(j) => i = j
      /\ \A i \in S : Rank(i) \in Nat
  <2>1. \A i \in S : Rank(i) \in Nat
    <3> TAKE i \in S
    <3>1. Preceding(i, S, before) \in SUBSET S
      BY DEF Preceding
    <3> QED
      BY <3>1, <1>3, <1>7, FS_Subset, FS_CardinalityType
  <2> QED
    BY <1>3, <1>6, <1>7, <2>1, RanksAreTaken
<1>9. \A k \in S : At(k) \in S /\ Rank(At(k)) = k - 1
  <2> TAKE k \in S
  <2>1. \E i \in S : Rank(i) = k - 1
    BY <1>8 DEF S
  <2> QED
    BY <2>1
<1>10. \A i \in S : Rank(i) + 1 \in S /\ At(Rank(i) + 1) = i
  <2> TAKE i \in S
  <2>1. Rank(i) + 1 \in S /\ (Rank(i) + 1) - 1 = Rank(i)
    BY <1>8 DEF S
  <2>2. At(Rank(i) + 1) \in S /\ Rank(At(Rank(i) + 1)) = (Rank(i) + 1) - 1
    BY <2>1, <1>9
  <2> HIDE DEF At
  <2> QED
    BY <2>1, <2>2, <1>8
<1> HIDE DEF At
<1>11. /\ DOMAIN sorted = S /\ \A k \in S : sorted[k] = paths[At(k)]
       /\ sorted \in [S -> Path]
  BY <1>1, <1>9
<1> HIDE DEF sorted
<1>12. sorted \in Seq(Path)
  BY <1>1, <1>11, SeqDef DEF S
<1>13. Len(sorted) = n
  BY <1>1, <1>11, <1>12 DEF S
<1>14. ToSet(sorted) = ToSet(paths)
  <2>1. ToSet(sorted) \subseteq ToSet(paths)
    BY <1>1, <1>9, <1>11 DEF ToSet
  <2>2. ASSUME NEW i \in S PROVE paths[i] \in ToSet(sorted)
    <3>1. Rank(i) + 1 \in S /\ sorted[Rank(i) + 1] = paths[i]
      BY <1>10, <1>11
    <3> QED
      BY <3>1, <1>11 DEF ToSet
  <2> QED
    BY <2>1, <2>2, <1>1 DEF ToSet
<1> QED
  BY <1>5, <1>12, <1>13, <1>14 DEF n

-----------------------------------------------------------------------------
(* RelationGraph: answers.                                                 *)

About(matched) == {r \in ToSet(index.relations) : {r.source, r.target} \cap matched # {}}
RelationsOf(paths) == {paths[i].relation : i \in DOMAIN paths}

\* Every relation of the index is scored.
LEMMA ScoredIs ==
    ASSUME index.relations \in Seq(Relation), NEW matched, NEW question
    PROVE  LET scored == Scored(matched, question)
           IN  /\ scored \in Seq(Path)
               /\ {p.relation : p \in ToSet(scored)} = ToSet(index.relations)
<1> DEFINE R == index.relations
           n == Len(R)
           P(i) == [relation |-> R[i], score |-> Score(R[i], matched, question)]
           scored == [i \in 1..n |-> P(i)]
<1>1. n \in Nat /\ DOMAIN R = 1..n /\ \A i \in 1..n : R[i] \in Relation
  OBVIOUS
<1>2. \A r \in Relation : Score(r, matched, question) \in Int
  <2> TAKE r \in Relation
  <2> DEFINE both == IF {r.source, r.target} \subseteq matched THEN 15 ELSE 0
             asked == IF r.kind \in question.kinds THEN 10 ELSE 0
             s == Lesser(r.support, 5)
  <2>1. r.support \in Nat /\ both \in Nat /\ asked \in Nat
    BY RelationFields
  <2>2. s \in Nat
    BY <2>1 DEF Lesser
  <2>3. Score(r, matched, question) = Lesser(99, 60 + 6 * s + both + asked)
    BY DEF Score
  <2> HIDE DEF both, asked, s
  <2> QED
    BY <2>1, <2>2, <2>3 DEF Lesser
<1>3. Scored(matched, question) = scored
  BY <1>1 DEF Scored
<1> HIDE DEF R, n
<1>4. \A i \in 1..n : P(i) \in Path /\ P(i).relation = R[i]
  BY <1>1, <1>2 DEF Path
<1> HIDE DEF P
<1>5. scored \in [1..n -> Path]
  BY <1>4
<1>6. DOMAIN scored = 1..n /\ \A i \in 1..n : scored[i].relation = R[i]
  BY <1>4
<1> HIDE DEF scored
<1>7. scored \in Seq(Path)
  BY <1>1, <1>5, SeqDef
<1>8. {p.relation : p \in ToSet(scored)} = ToSet(R)
  BY <1>1, <1>6 DEF ToSet
<1> QED
  BY <1>3, <1>7, <1>8 DEF R

\* The paths collected are those of the relations with a matched entity at an end.
LEMMA PathsAreAbout ==
    ASSUME index.relations \in Seq(Relation), NEW matched, IsFiniteSet(matched), NEW question,
           NEW order \in Orders(matched)
    PROVE  LET paths == PathsAlong(Scored(matched, question), order)
           IN  paths \in Seq(Path) /\ {p.relation : p \in ToSet(paths)} = About(matched)
<1> DEFINE scored == Scored(matched, question)
           c == Cardinality(matched)
           Along(x) == {p \in ToSet(scored) : Touches(p.relation, x)}
           parts == [k \in DOMAIN order |-> PathsOf(scored, order[k])]
           paths == Joined(parts)
<1>1. scored \in Seq(Path) /\ {p.relation : p \in ToSet(scored)} = ToSet(index.relations)
  BY ScoredIs
<1>2. c \in Nat /\ DOMAIN order = 1..c /\ ToSet(order) = matched
  BY FS_CardinalityType DEF Orders
<1> HIDE DEF scored, c
<1>3. \A x : PathsOf(scored, x) \in Seq(Path) /\ ToSet(PathsOf(scored, x)) = Along(x)
  <2> TAKE x
  <2>1. PathsOf(scored, x) \in Seq(Path \cap Along(x))
    BY <1>1, KeepingKeeps DEF PathsOf
  <2>2. PathsOf(scored, x) \in Seq(Path)
    <3> HIDE DEF Along
    <3> QED
      BY <2>1, SeqMonotonic
  <2>3. ToSet(PathsOf(scored, x)) = ToSet(scored) \cap Along(x)
    BY <1>1, KeepingFinds DEF PathsOf
  <2> QED
    BY <2>2, <2>3
<1> HIDE DEF Along
<1>4. /\ parts \in [1..c -> Seq(Path)]
      /\ \A k \in 1..c : parts[k] = PathsOf(scored, order[k])
  BY <1>2, <1>3
<1>5. PathsAlong(scored, order) = paths
  BY DEF PathsAlong
<1> HIDE DEF parts
<1>6. parts \in Seq(Seq(Path)) /\ Len(parts) = c
  BY <1>2, <1>4, SeqDef
<1>7. paths \in Seq(Path) /\ ToSet(paths) = UNION {ToSet(parts[k]) : k \in 1..c}
  BY <1>6, JoinedIsAll
<1> HIDE DEF paths
<1>8. \A p : p \in ToSet(paths) <=> \E x \in matched : p \in Along(x)
  <2> TAKE p
  <2>1. p \in ToSet(paths) <=> \E k \in 1..c : p \in Along(order[k])
    BY <1>3, <1>4, <1>7
  <2>2. \A x : x \in matched <=> \E k \in 1..c : x = order[k]
    BY <1>2 DEF ToSet
  <2> QED
    BY <2>1, <2>2
<1>9. \A p : p \in ToSet(paths) <=> p \in ToSet(scored)
                                    /\ {p.relation.source, p.relation.target} \cap matched # {}
  BY <1>8 DEF Along, Touches
<1>10. {p.relation : p \in ToSet(paths)} = About(matched)
  BY <1>1, <1>9 DEF About
<1> QED
  BY <1>5, <1>7, <1>10 DEF scored

\* The relations that paths show.
LEMMA RelationsOfPaths ==
    ASSUME NEW paths \in Seq(Path)
    PROVE  RelationsOf(paths) = {p.relation : p \in ToSet(paths)}
  BY DEF RelationsOf, ToSet

\* What is retrieved is about what was asked, and cut short only when it is full.
LEMMA RetrievedIsAbout ==
    ASSUME index.relations \in Seq(Relation), NEW matched, IsFiniteSet(matched), NEW question,
           NEW order \in Orders(matched)
    PROVE  LET paths == RetrievePaths(question, matched, order)
           IN  /\ paths = <<>> => About(matched) = {}
               /\ RelationsOf(paths) \subseteq About(matched)
               /\ Len(paths) < PathLimit => About(matched) \subseteq RelationsOf(paths)
<1> DEFINE all == PathsAlong(Scored(matched, question), order)
           cut == SubSeq(all, 1, PathLimit)
           paths == RetrievePaths(question, matched, order)
<1>1. all \in Seq(Path) /\ {p.relation : p \in ToSet(all)} = About(matched)
  BY PathsAreAbout
<1>2. PathLimit \in Nat /\ PathLimit # 0
  BY GraphAssumption
<1>3. paths = IF Len(all) >= PathLimit THEN cut ELSE BestFirst(all)
  BY DEF RetrievePaths
<1> HIDE DEF paths
<1>4. Len(all) \in Nat
  BY <1>1
<1>5. ASSUME Len(all) >= PathLimit
      PROVE  /\ paths = <<>> => About(matched) = {}
             /\ RelationsOf(paths) \subseteq About(matched)
             /\ Len(paths) < PathLimit => About(matched) \subseteq RelationsOf(paths)
  <2>1. paths = cut
    BY <1>3, <1>5
  <2> HIDE DEF all
  <2>2. /\ cut \in Seq(Path) /\ Len(cut) = PathLimit
        /\ \A i \in 1..PathLimit : cut[i] = all[i]
    BY <1>1, <1>2, <1>4, <1>5, SubSeqProperties
  <2> HIDE DEF cut
  <2>3. paths # <<>>
    BY <2>1, <2>2, <1>2
  <2>4. RelationsOf(paths) \subseteq About(matched)
    <3> SUFFICES ASSUME NEW i \in DOMAIN paths PROVE paths[i].relation \in About(matched)
      BY DEF RelationsOf
    <3>1. i \in 1..PathLimit /\ i \in DOMAIN all /\ paths[i] = all[i]
      BY <1>1, <1>4, <1>5, <2>1, <2>2
    <3>2. paths[i] \in ToSet(all)
      BY <3>1 DEF ToSet
    <3> QED
      BY <3>2, <1>1
  <2> QED
    BY <2>1, <2>2, <2>3, <2>4, <1>2
<1>6. ASSUME ~(Len(all) >= PathLimit)
      PROVE  /\ paths = <<>> => About(matched) = {}
             /\ RelationsOf(paths) \subseteq About(matched)
             /\ Len(paths) < PathLimit => About(matched) \subseteq RelationsOf(paths)
  <2>1. paths = BestFirst(all)
    BY <1>3, <1>6
  <2> HIDE DEF all
  <2>2. paths \in Seq(Path) /\ ToSet(paths) = ToSet(all)
    BY <2>1, <1>1, BestFirstIsAll
  <2>3. RelationsOf(paths) = About(matched)
    BY <2>2, <1>1, RelationsOfPaths
  <2>4. paths = <<>> => About(matched) = {}
    BY <2>3 DEF RelationsOf
  <2> QED
    BY <2>3, <2>4
<1> QED
  BY <1>5, <1>6 DEF paths

-----------------------------------------------------------------------------
(* RelationGraph: the invariant.                                           *)

Passed(texts, n) == Cardinality({i \in 1..n : texts[i].place # "faq"})

Mentioning(texts, n, name) ==
    {i \in 1..n : /\ Passed(texts, i) <= FileLimit
                  /\ texts[i].place # "directory"
                  /\ name \in ToSet(texts[i].mentions)}

\* Known are the names that the first n texts mention, each with the texts that do.
CountedIn(texts, known, n) ==
    /\ \A name \in Names : name \in DOMAIN known <=> Mentioning(texts, n, name) # {}
    /\ \A name \in DOMAIN known : /\ known[name].refs = Mentioning(texts, n, name)
                                  /\ known[name].count = Cardinality(Mentioning(texts, n, name))

GraphInv ==
    /\ corpus \in Seq(Texts)
    /\ entities \in Entities /\ relations \in Known(corpus)
    /\ merged # None => merged \in 0..Len(corpus) /\ CountedIn(corpus, entities, merged)
    /\ index # None => index.relations \in Seq(Relation) /\ IsFiniteSet(DOMAIN index.entities)
    /\ AnswersAreComplete

\* The later the text, the more paths were passed.
LEMMA PassedGrows ==
    ASSUME NEW texts, NEW n \in Nat, NEW m \in Nat, n <= m
    PROVE  Passed(texts, n) \in Nat /\ Passed(texts, m) \in Nat
           /\ Passed(texts, n) <= Passed(texts, m)
<1> DEFINE A == {i \in 1..n : texts[i].place # "faq"}
           B == {i \in 1..m : texts[i].place # "faq"}
<1>1. IsFiniteSet(1..m) /\ B \in SUBSET (1..m) /\ A \in SUBSET B
  BY FS_Interval
<1>2. IsFiniteSet(B)
  BY <1>1, FS_Subset
<1>3. IsFiniteSet(A) /\ Cardinality(A) <= Cardinality(B)
  BY <1>1, <1>2, FS_Subset
<1> QED
  BY <1>2, <1>3, FS_CardinalityType DEF Passed

\* One more text is one more mention of the names in it.
LEMMA MentioningGrows ==
    ASSUME NEW texts, NEW n \in Nat \ {0}, NEW name
    PROVE  /\ IsFiniteSet(Mentioning(texts, n - 1, name))
           /\ Cardinality(Mentioning(texts, n - 1, name)) \in Nat
           /\ Mentioning(texts, n - 1, name) \in SUBSET (1..(n - 1))
           /\ Mentioning(texts, n, name) =
                IF /\ Passed(texts, n) <= FileLimit /\ texts[n].place # "directory"
                   /\ name \in ToSet(texts[n].mentions)
                  THEN Mentioning(texts, n - 1, name) \cup {n}
                  ELSE Mentioning(texts, n - 1, name)
<1>1. /\ 1..n = (1..(n - 1)) \cup {n} /\ n \notin 1..(n - 1) /\ IsFiniteSet(1..(n - 1))
      /\ n - 1 \in Nat
  BY UpToIsFinite
<1>2. Mentioning(texts, n - 1, name) \in SUBSET (1..(n - 1))
  BY DEF Mentioning
<1>3. IsFiniteSet(Mentioning(texts, n - 1, name))
  BY <1>1, <1>2, FS_Subset
<1>4. Mentioning(texts, n, name) =
                IF /\ Passed(texts, n) <= FileLimit /\ texts[n].place # "directory"
                   /\ name \in ToSet(texts[n].mentions)
                  THEN Mentioning(texts, n - 1, name) \cup {n}
                  ELSE Mentioning(texts, n - 1, name)
  BY <1>1 DEF Mentioning
<1> QED
  BY <1>2, <1>3, <1>4, FS_CardinalityType

\* A text merged is counted once for each name it mentions.
LEMMA CountsOfMerged ==
    ASSUME NEW texts \in Seq(Texts), NEW n \in 1..Len(texts), NEW known \in Entities,
           CountedIn(texts, known, n - 1), Passed(texts, n) <= FileLimit,
           texts[n].place # "directory"
    PROVE  /\ MergeEntities(known, texts[n].mentions, n) \in Entities
           /\ CountedIn(texts, MergeEntities(known, texts[n].mentions, n), n)
<1> DEFINE t == texts[n]
           more == MergeEntities(known, t.mentions, n)
           M0(x) == Mentioning(texts, n - 1, x)
           M1(x) == Mentioning(texts, n, x)
<1>1. t \in Texts /\ n \in Nat \ {0}
  OBVIOUS
<1>2. t.mentions \in Seq(Names) /\ \A i, j \in DOMAIN t.mentions : t.mentions[i] = t.mentions[j] => i = j
  BY <1>1, TextsAreTyped
<1>3. ToSet(t.mentions) \subseteq Names
  BY <1>2, ToSetOfMore
<1>4. /\ more \in Entities
      /\ DOMAIN more = DOMAIN known \cup ToSet(t.mentions)
      /\ \A x \in ToSet(t.mentions) : more[x] = Counted(known, x, n)
      /\ \A x \in DOMAIN known \ ToSet(t.mentions) : more[x] = known[x]
  BY <1>1, <1>2, MergedEntities
<1> HIDE DEF more
<1>5. \A x : /\ IsFiniteSet(M0(x)) /\ Cardinality(M0(x)) \in Nat /\ n \notin M0(x)
             /\ M1(x) = IF x \in ToSet(t.mentions) THEN M0(x) \cup {n} ELSE M0(x)
  <2> TAKE x
  <2>1. n \notin 1..(n - 1)
    BY <1>1
  <2> QED
    BY <2>1, <1>1, MentioningGrows
<1>6. \A x \in Names : x \in DOMAIN known <=> M0(x) # {}
  BY DEF CountedIn
<1>7. \A x \in DOMAIN known : /\ known[x].refs = M0(x)
                              /\ known[x].count = Cardinality(M0(x))
  BY DEF CountedIn
<1> HIDE DEF t, M0, M1
<1>8. \A x : x \in ToSet(t.mentions) => Cardinality(M1(x)) = Cardinality(M0(x)) + 1
  BY <1>5, FS_AddElement
<1>9. \A x \in Names : x \in DOMAIN more <=> M1(x) # {}
  BY <1>4, <1>5, <1>6
<1>10. DOMAIN known \subseteq Names
  BY EntitiesAre
<1>11. ASSUME NEW x \in DOMAIN more
       PROVE  more[x].refs = M1(x) /\ more[x].count = Cardinality(M1(x))
  <2>1. CASE x \in ToSet(t.mentions) /\ x \in DOMAIN known
    <3>1. more[x] = [refs |-> known[x].refs \cup {n}, count |-> known[x].count + 1]
      BY <2>1, <1>4 DEF Counted
    <3>2. M1(x) = M0(x) \cup {n} /\ Cardinality(M1(x)) = Cardinality(M0(x)) + 1
      BY <2>1, <1>5, <1>8
    <3>3. known[x].refs = M0(x) /\ known[x].count = Cardinality(M0(x))
      BY <2>1, <1>7
    <3> QED
      BY <3>1, <3>2, <3>3
  <2>2. CASE x \in ToSet(t.mentions) /\ x \notin DOMAIN known
    <3>1. M0(x) = {}
      BY <2>2, <1>3, <1>6
    <3>2. Cardinality(M0(x)) = 0
      BY <3>1, FS_EmptySet
    <3>3. more[x] = [refs |-> {n}, count |-> 1]
      BY <2>2, <1>4 DEF Counted
    <3> QED
      <4>1. M1(x) = {} \cup {n} /\ Cardinality(M1(x)) = 0 + 1
        BY <2>2, <3>1, <3>2, <1>5, <1>8
      <4> QED
        BY <4>1, <3>3
  <2>3. CASE x \notin ToSet(t.mentions)
    BY <2>3, <1>4, <1>5, <1>7
  <2> QED
    BY <2>1, <2>2, <2>3
<1>12. CountedIn(texts, more, n)
  BY <1>9, <1>11 DEF CountedIn, M1
<1> QED
  BY <1>4, <1>12 DEF more, t

\* Texts beyond the limit, and directories, count for nothing.
LEMMA CountsOfPassed ==
    ASSUME NEW texts \in Seq(Texts), NEW n \in 1..Len(texts), NEW known,
           CountedIn(texts, known, n - 1)
    PROVE  /\ Passed(texts, n) > FileLimit => CountedIn(texts, known, Len(texts))
           /\ texts[n].place = "directory" => CountedIn(texts, known, n)
<1>1. n \in Nat \ {0} /\ Len(texts) \in Nat
  OBVIOUS
<1>2. ASSUME Passed(texts, n) > FileLimit PROVE CountedIn(texts, known, Len(texts))
  <2>1. \A i \in n..Len(texts) : ~(Passed(texts, i) <= FileLimit)
    <3> TAKE i \in n..Len(texts)
    <3>1. i \in Nat /\ n <= i
      BY <1>1
    <3>2. Passed(texts, n) \in Nat /\ Passed(texts, i) \in Nat
          /\ Passed(texts, n) <= Passed(texts, i)
      BY <1>1, <3>1, PassedGrows
    <3> QED
      BY <3>2, <1>2, GraphAssumption
  <2>2. \A i : i \in 1..Len(texts) <=> i \in 1..(n - 1) \/ i \in n..Len(texts)
    BY <1>1
  <2>3. \A name : Mentioning(texts, Len(texts), name) = Mentioning(texts, n - 1, name)
    BY <2>1, <2>2 DEF Mentioning
  <2> QED
    BY <2>3 DEF CountedIn
<1>3. ASSUME texts[n].place = "directory" PROVE CountedIn(texts, known, n)
  <2>1. \A name : Mentioning(texts, n, name) = Mentioning(texts, n - 1, name)
    BY <1>1, <1>3, MentioningGrows
  <2> QED
    BY <2>1 DEF CountedIn
<1> QED
  BY <1>2, <1>3

\* The empty graph counts no text.
LEMMA EmptyIsGraph ==
    <<>> \in Entities /\ (\A texts : <<>> \in Known(texts) /\ CountedIn(texts, <<>>, 0))
<1>1. /\ <<>> \in [{} -> Entity] /\ <<>> \in [{} -> Relation]
      /\ DOMAIN <<>> = {} /\ IsFiniteSet({})
  BY FS_EmptySet
<1>2. <<>> \in Entities
  BY <1>1 DEF Entities
<1>3. ASSUME NEW texts PROVE <<>> \in Known(texts)
  <2>1. <<>> \in UNION {[D -> Relation] : D \in SUBSET Ids}
    BY <1>1
  <2> QED
    BY <2>1, <1>1 DEF Known
<1>4. ASSUME NEW texts PROVE CountedIn(texts, <<>>, 0)
  <2>1. 1..0 = {}
    OBVIOUS
  <2>2. \A name : Mentioning(texts, 0, name) = {}
    BY <2>1 DEF Mentioning
  <2> QED
    BY <2>2, <1>1 DEF CountedIn
<1> QED
  BY <1>2, <1>3, <1>4

\* Another text changes nothing in what the earlier ones show.
LEMMA MoreTextsShow ==
    ASSUME NEW texts \in Seq(Texts), NEW t \in Texts, NEW known \in Known(texts)
    PROVE  known \in Known(Append(texts, t))
<1>1. \A n \in DOMAIN texts : n \in DOMAIN Append(texts, t) /\ Append(texts, t)[n] = texts[n]
  OBVIOUS
<1>2. /\ known = [id \in DOMAIN known |-> known[id]]
      /\ DOMAIN known \in SUBSET Ids /\ IsFiniteSet(DOMAIN known)
      /\ \A id \in DOMAIN known : /\ known[id] \in Relation /\ known[id].ref \in DOMAIN texts
                                  /\ IsShownBy(known[id], texts[known[id].ref])
  BY KnownIs
<1> DEFINE more == Append(texts, t)
<1> HIDE DEF more
<1>3. \A id \in DOMAIN known : /\ known[id] \in Relation /\ known[id].ref \in DOMAIN more
                               /\ IsShownBy(known[id], more[known[id].ref])
  BY <1>1, <1>2 DEF more
<1> QED
  BY <1>2, <1>3, KnownIs DEF more

\* What is written can be sorted: relations with the same keys are the same.
LEMMA KnownSorts ==
    ASSUME NEW texts, NEW known \in Known(texts)
    PROVE  StrongestFirst({known[id] : id \in DOMAIN known}) \in Seq(Relation)
<1> DEFINE S == {known[id] : id \in DOMAIN known}
           f == [id \in DOMAIN known |-> known[id]]
<1>1. /\ IsFiniteSet(DOMAIN known)
      /\ \A id \in DOMAIN known : /\ known[id] \in Relation
                                  /\ IsShownBy(known[id], texts[known[id].ref])
  BY KnownIs
<1>2. f \in Surjection(DOMAIN known, S)
  BY DEF Surjection
<1>3. IsFiniteSet(S)
  BY <1>1, <1>2, FS_Surjection
<1>4. S \in SUBSET Relation /\ \A r \in S : IsShownBy(r, texts[r.ref])
  BY <1>1
<1> HIDE DEF S
<1>5. ASSUME NEW r \in S, NEW s \in S, SameKeys(r, s) PROVE r = s
  <2>1. /\ r \in Relation /\ s \in Relation /\ r.source \in Names /\ s.source \in Names
        /\ r.target \in Names /\ s.target \in Names
    BY <1>4, RelationFields
  <2>2. r.source = s.source /\ r.target = s.target
    BY <1>5, <2>1, PositionsAreOwn DEF SameKeys
  <2>3. r.support = s.support /\ r.ref = s.ref /\ r.sentence = s.sentence
    BY <1>5 DEF SameKeys
  <2>4. r.kind = s.kind
    BY <1>4, <2>3 DEF IsShownBy
  <2> QED
    BY <2>1, <2>2, <2>3, <2>4 DEF Relation
<1>6. StrongestFirst(S) \in Seq(S)
  BY <1>3, <1>4, <1>5, StrongestFirstIsThere
<1>7. StrongestFirst(S) \in Seq(Relation)
  BY <1>4, <1>6, SeqMonotonic
<1> QED
  BY <1>7 DEF S

\* The invariant at the start, and in every step.
LEMMA GraphInitInv == GraphInit => GraphInv
<1> SUFFICES ASSUME GraphInit PROVE GraphInv
  OBVIOUS
<1>1. corpus = <<>> /\ entities = <<>> /\ relations = <<>> /\ merged = None
      /\ index = None /\ answer = None
  BY DEF GraphInit
<1>2. <<>> \in Entities /\ <<>> \in Known(<<>>)
  BY EmptyIsGraph
<1> QED
  BY <1>1, <1>2 DEF GraphInv, AnswersAreComplete

LEMMA GraphNextInv == GraphInv /\ [GraphNext]_graphVars => GraphInv'
<1> SUFFICES ASSUME GraphInv, [GraphNext]_graphVars PROVE GraphInv'
  OBVIOUS
<1>1. /\ corpus \in Seq(Texts) /\ entities \in Entities /\ relations \in Known(corpus)
      /\ merged # None => merged \in 0..Len(corpus) /\ CountedIn(corpus, entities, merged)
      /\ index # None => index.relations \in Seq(Relation) /\ IsFiniteSet(DOMAIN index.entities)
      /\ AnswersAreComplete
  BY DEF GraphInv
<1>2. ASSUME UNCHANGED answer PROVE AnswersAreComplete'
  BY <1>1, <1>2 DEF AnswersAreComplete
<1>3. ASSUME NEW text \in Texts, AddText(text) PROVE GraphInv'
  <2>1. /\ merged = None /\ corpus' = Append(corpus, text)
        /\ UNCHANGED <<merged, entities, relations, index, answer>>
    BY <1>3 DEF AddText
  <2>2. corpus' \in Seq(Texts) /\ relations' \in Known(corpus')
    BY <1>1, <2>1, MoreTextsShow
  <2> QED
    BY <1>1, <1>2, <2>1, <2>2 DEF GraphInv
<1>4. ASSUME StartRebuild PROVE GraphInv'
  <2>1. merged' = 0 /\ entities' = <<>> /\ relations' = <<>> /\ UNCHANGED <<corpus, index, answer>>
    BY <1>4 DEF StartRebuild
  <2>2. <<>> \in Entities /\ <<>> \in Known(corpus) /\ CountedIn(corpus, <<>>, 0)
    BY EmptyIsGraph
  <2>3. 0 \in 0..Len(corpus)
    BY <1>1
  <2> QED
    BY <1>1, <1>2, <2>1, <2>2, <2>3 DEF GraphInv
<1>5. ASSUME MergeText PROVE GraphInv'
  <2>1. merged # None /\ merged < Len(corpus) /\ UNCHANGED <<corpus, index, answer>>
    BY <1>5 DEF MergeText
  <2>2. PICK n \in Nat : n = merged + 1
    BY <1>1, <2>1
  <2>3. /\ n \in 1..Len(corpus) /\ n - 1 = merged /\ n \in DOMAIN corpus
        /\ corpus[n] \in Texts /\ Len(corpus) \in Nat
    BY <1>1, <2>1, <2>2
  <2>4. CountedIn(corpus, entities, n - 1) /\ PathsPassed(n) = Passed(corpus, n)
    BY <1>1, <2>1, <2>3 DEF PathsPassed, Passed
  <2>5. Passed(corpus, n) \in Nat /\ FileLimit \in Nat
    BY PassedGrows, GraphAssumption
  <2>6. IF Passed(corpus, n) > FileLimit
          THEN merged' = Len(corpus) /\ UNCHANGED <<entities, relations>>
          ELSE /\ merged' = n
               /\ IF corpus[n].place = "directory" THEN UNCHANGED <<entities, relations>>
                  ELSE /\ entities' = MergeEntities(entities, corpus[n].mentions, n)
                       /\ relations' = MergeRelations(relations, ExtractRelations(corpus[n]), n)
    BY <1>5, <2>2, <2>4 DEF MergeText
  <2>7. /\ entities' \in Entities /\ relations' \in Known(corpus)
        /\ merged' \in 0..Len(corpus) /\ CountedIn(corpus, entities', merged')
    <3>1. CASE Passed(corpus, n) > FileLimit
      BY <3>1, <1>1, <2>3, <2>4, <2>6, CountsOfPassed
    <3>2. CASE ~(Passed(corpus, n) > FileLimit) /\ corpus[n].place = "directory"
      BY <3>2, <1>1, <2>3, <2>4, <2>6, CountsOfPassed
    <3>3. CASE ~(Passed(corpus, n) > FileLimit) /\ corpus[n].place # "directory"
      <4>1. /\ merged' = n /\ entities' = MergeEntities(entities, corpus[n].mentions, n)
            /\ relations' = MergeRelations(relations, ExtractRelations(corpus[n]), n)
        BY <3>3, <2>6
      <4>2. Passed(corpus, n) <= FileLimit
        BY <3>3, <2>5
      <4>3. entities' \in Entities /\ CountedIn(corpus, entities', n)
        BY <3>3, <4>1, <4>2, <1>1, <2>3, <2>4, CountsOfMerged
      <4>4. relations' \in Known(corpus)
        BY <4>1, <1>1, <2>3, ExtractedIsShown, MergedRelationsAreShown
      <4> QED
        BY <4>1, <4>3, <4>4, <2>3
    <3> QED
      BY <3>1, <3>2, <3>3
  <2> QED
    BY <1>1, <1>2, <2>1, <2>7 DEF GraphInv
<1>6. ASSUME WriteIndex PROVE GraphInv'
  <2>1. /\ merged' = None /\ UNCHANGED <<corpus, entities, relations, answer>>
        /\ index' = [entities  |-> entities,
                     relations |-> StrongestFirst({relations[id] : id \in DOMAIN relations})]
    BY <1>6 DEF WriteIndex
  <2>2. index'.relations \in Seq(Relation)
    BY <1>1, <2>1, KnownSorts
  <2>3. IsFiniteSet(DOMAIN index'.entities)
    BY <1>1, <2>1, EntitiesAre, NamesAreFinite, FS_Subset
  <2> QED
    BY <1>1, <1>2, <2>1, <2>2, <2>3 DEF GraphInv
<1>7. ASSUME NEW question \in Questions, Query(question) PROVE GraphInv'
  <2> DEFINE matched == MatchEntities(question)
  <2>1. index # None /\ UNCHANGED <<corpus, merged, entities, relations, index>>
    BY <1>7 DEF Query
  <2>2. PICK order \in Orders(matched) :
          LET paths == RetrievePaths(question, matched, order)
          IN  answer' = [question |-> question, matched |-> matched, fallback |-> paths = <<>>,
                         paths |-> IF paths # <<>> THEN paths ELSE FallbackPaths,
                         from |-> index]
    BY <1>7 DEF Query
  <2>3. matched \subseteq DOMAIN index.entities
    BY DEF MatchEntities
  <2>4. index.relations \in Seq(Relation) /\ IsFiniteSet(matched)
    BY <1>1, <2>1, <2>3, FS_Subset
  <2> DEFINE paths == RetrievePaths(question, matched, order)
             about == About(matched)
  <2>5. /\ paths = <<>> => about = {}
        /\ RelationsOf(paths) \subseteq about
        /\ Len(paths) < PathLimit => about \subseteq RelationsOf(paths)
    BY <2>4, RetrievedIsAbout
  <2>6. /\ answer'.matched = matched /\ answer'.fallback = (paths = <<>>)
        /\ answer'.from = index
        /\ paths # <<>> => answer'.paths = paths
    BY <2>2
  <2>7. {r \in ToSet(answer'.from.relations) : {r.source, r.target} \cap answer'.matched # {}} = about
    BY <2>6 DEF About
  <2> HIDE DEF about, paths, matched
  <2>8. AnswersAreComplete'
    <3>1. CASE paths = <<>>
      BY <3>1, <2>5, <2>6, <2>7 DEF AnswersAreComplete
    <3>2. CASE paths # <<>>
      <4>1. {answer'.paths[i].relation : i \in DOMAIN answer'.paths} = RelationsOf(paths)
        BY <3>2, <2>6 DEF RelationsOf
      <4>2. answer'.fallback = FALSE /\ Len(answer'.paths) = Len(paths)
        BY <3>2, <2>6
      <4> QED
        BY <4>1, <4>2, <2>5, <2>7 DEF AnswersAreComplete
    <3> QED
      BY <3>1, <3>2
  <2> QED
    BY <1>1, <2>1, <2>8 DEF GraphInv
<1>8. ASSUME UNCHANGED graphVars PROVE GraphInv'
  BY <1>1, <1>2, <1>8 DEF GraphInv, graphVars
<1> QED
  BY <1>3, <1>4, <1>5, <1>6, <1>7, <1>8 DEF GraphNext

\* The evidence of every relation is of the text it names, an entity counts every text of
\* those within the limit that mentions it, and an answer that is not full leaves nothing out.
THEOREM GraphStaysTrue == GraphSpec => []GraphIsTrueToTexts
<1>1. GraphInv => GraphIsTrueToTexts
  <2> SUFFICES ASSUME GraphInv PROVE GraphIsTrueToTexts
    OBVIOUS
  <2>1. EvidenceIsFromItsSource
    BY KnownIs DEF GraphInv, EvidenceIsFromItsSource
  <2>2. CountsAreOfTexts
    BY DEF GraphInv, CountsAreOfTexts, CountedIn, Mentioning, Passed, PathsPassed
  <2> QED
    BY <2>1, <2>2 DEF GraphInv, GraphIsTrueToTexts
<1> QED
  BY <1>1, GraphInitInv, GraphNextInv, PTL DEF GraphSpec
=============================================================================
