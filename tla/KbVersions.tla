----------------------------- MODULE KbVersions -----------------------------
(***************************************************************************)
(* The version table of one scenario's knowledge base                      *)
(* (KnowledgeBaseVersionStore in governance/kb_versions.py).               *)
(*                                                                         *)
(* Administrators activate and archive versions while ingestion jobs       *)
(* create them and record statistics on them.  Every writer works on a     *)
(* whole record it has read before (get) and puts the whole record back    *)
(* (_upsert_version); only activate_version and the INSERT of              *)
(* ensure_version do more than that in their transaction.  The read and    *)
(* the write are separate actions here.                                    *)
(***************************************************************************)
EXTENDS Naturals, Sequences

CONSTANTS
    Operators,   \* administrators and ingestion jobs
    Versions,    \* kb_version names
    NoVersion,   \* the empty string
    Configured,  \* settings.active_kb_version, or NoVersion
    MaxEpoch,    \* bound on the number of activations
    MaxIngests,  \* bound on a version's count of ingestions
    MaxSeq       \* bound on version_seq

ASSUME VersionsAssumption ==
    NoVersion \notin Versions /\ Configured \in Versions \union {NoVersion}
ASSUME BoundsAssumption ==
    MaxEpoch \in Nat /\ MaxIngests \in Nat /\ MaxSeq \in Nat

VARIABLES
    row,       \* kb_versions: [status, seq, runs]; status "absent" if there is none
    active,    \* kb_active_versions.active_kb_version
    previous,  \* kb_active_versions.previous_kb_version
    log,       \* kb_version_activations, oldest first
    epoch,     \* the scenario's cache epoch
    pc,        \* where each operator is
    target,    \* the version it works on
    copy       \* the record it has read

table  == <<row, active, previous, log, epoch>>
locals == <<pc, target, copy>>
vars   == <<table, locals>>

Status  == {"absent", "staged", "active", "archived"}
Records == [status : Status, seq : 0 .. MaxSeq, runs : 0 .. MaxIngests]
NoRow   == [status |-> "absent", seq |-> 0, runs |-> 0]

Exists(v) == row[v].status # "absent"

\* active_version_candidate.
Effective == IF Configured # NoVersion THEN Configured ELSE active

\* Mutant: counted from the version that is active.
SeqAfterActive == 1 + (IF active = NoVersion THEN 0 ELSE row[active].seq)
\* _next_version_seq_with_conn.
NextSeq == 1 + (CHOOSE n \in 0 .. MaxSeq :
                  /\ \A v \in Versions : row[v].seq <= n
                  /\ n = 0 \/ \E v \in Versions : row[v].seq = n)

Init ==
    /\ row      = [v \in Versions |-> NoRow]
    /\ active   = NoVersion
    /\ previous = NoVersion
    /\ log      = <<>>
    /\ epoch    = 0
    /\ pc       = [o \in Operators |-> "idle"]
    /\ target   = [o \in Operators |-> NoVersion]
    /\ copy     = [o \in Operators |-> NoRow]

Leave(o) ==
    /\ pc'     = [pc EXCEPT ![o] = "idle"]
    /\ target' = [target EXCEPT ![o] = NoVersion]
    /\ copy'   = [copy EXCEPT ![o] = NoRow]

\* get: the operator holds a copy of the record.
Get(o, v, next) ==
    /\ Exists(v)
    /\ pc'     = [pc EXCEPT ![o] = next]
    /\ target' = [target EXCEPT ![o] = v]
    /\ copy'   = [copy EXCEPT ![o] = row[v]]

-----------------------------------------------------------------------------
\* Mutant: the version is written without having been looked for.
BeginEnsureBlindly(o) ==
    /\ pc[o] = "idle"
    /\ \E v \in Versions : target' = [target EXCEPT ![o] = v]
    /\ pc' = [pc EXCEPT ![o] = "ensuring"]
    /\ UNCHANGED <<table, copy>>

\* ensure_version has not found the version, nor has record_ingest_result or
\* record_incremental_base, which then call it.
BeginEnsure(o) ==
    /\ pc[o] = "idle"
    /\ \E v \in Versions :
         /\ ~Exists(v)
         /\ target' = [target EXCEPT ![o] = v]
    /\ pc' = [pc EXCEPT ![o] = "ensuring"]
    /\ UNCHANGED <<table, copy>>

\* Its transaction: a sequence number is drawn and the record written, whether
\* or not somebody else has created the version in the meantime.  The bound on
\* version_seq is here.
Ensure(o) ==
    /\ pc[o] = "ensuring"
    /\ NextSeq \in 1 .. MaxSeq
    /\ row' = [row EXCEPT ![target[o]] =
                 [status |-> "staged", seq |-> NextSeq, runs |-> 0]]
    /\ Leave(o)
    /\ UNCHANGED <<active, previous, log, epoch>>

\* record_ingest_result or record_incremental_base has read the record.
BeginRecord(o) ==
    /\ pc[o] = "idle"
    /\ \E v \in Versions : Get(o, v, "recording")
    /\ UNCHANGED table

\* The first writes it back with the statistics brought up to date, the second
\* with a note of the version it builds on, which is not modelled.
Record(o) ==
    /\ pc[o] = "recording"
    /\ \/ /\ copy[o].runs < MaxIngests
          /\ row' = [row EXCEPT ![target[o]] = [copy[o] EXCEPT !.runs = @ + 1]]
       \/ row' = [row EXCEPT ![target[o]] = copy[o]]
    /\ Leave(o)
    /\ UNCHANGED <<active, previous, log, epoch>>

BeginActivate(o) ==
    /\ pc[o] = "idle"
    /\ \E v \in Versions : Get(o, v, "activating")
    /\ UNCHANGED table

\* Mutants: other versions are left as they are; they get a status of another
\* vocabulary.
LeftActive == row
Inactive   == [v \in Versions |-> IF row[v].status = "active"
                                  THEN [row[v] EXCEPT !.status = "inactive"] ELSE row[v]]
\* The status every version has once another is to be the active one.
Deactivated == [v \in Versions |-> IF row[v].status = "active"
                                   THEN [row[v] EXCEPT !.status = "staged"] ELSE row[v]]

\* Mutant: activating the active version again counts as a switch.
AnySwitch(v) == TRUE
Switches(v)  == active # v

\* The transaction of activate_version, under the lock of the pointer row.
Activate(o) ==
    /\ pc[o] = "activating"
    /\ epoch < MaxEpoch
    /\ LET v == target[o]
           previousSeq == IF active = NoVersion THEN 0 ELSE row[active].seq
           action == IF active # NoVersion /\ copy[o].seq < previousSeq
                     THEN "rollback" ELSE "activate"
       IN  /\ row' = [Deactivated EXCEPT ![v] = [copy[o] EXCEPT !.status = "active"]]
           /\ active' = v
           /\ IF Switches(v)
              THEN /\ previous' = active
                   /\ log' = Append(log, [from |-> active, to |-> v, action |-> action])
              ELSE UNCHANGED <<previous, log>>
    /\ epoch' = epoch + 1
    /\ Leave(o)

\* Mutant: the pointer is not looked at.
BeginArchiveUnchecked(o) ==
    /\ pc[o] = "idle"
    /\ \E v \in Versions : target' = [target EXCEPT ![o] = v]
    /\ pc' = [pc EXCEPT ![o] = "checked"]
    /\ UNCHANGED <<table, copy>>

\* archive_version looks at the pointer ...
BeginArchive(o) ==
    /\ pc[o] = "idle"
    /\ \E v \in Versions :
         /\ v # Effective
         /\ target' = [target EXCEPT ![o] = v]
    /\ pc' = [pc EXCEPT ![o] = "checked"]
    /\ UNCHANGED <<table, copy>>

\* ... then at the record ...
ReadForArchive(o) ==
    /\ pc[o] = "checked"
    /\ \/ Get(o, target[o], "archiving")
       \/ ~Exists(target[o]) /\ Leave(o)
    /\ UNCHANGED table

\* ... and writes it.
Archive(o) ==
    /\ pc[o] = "archiving"
    /\ row' = [row EXCEPT ![target[o]] = [copy[o] EXCEPT !.status = "archived"]]
    /\ Leave(o)
    /\ UNCHANGED <<active, previous, log, epoch>>

\* The process dies or MySQL refuses: what was read is forgotten.
Crash(o) ==
    /\ pc[o] # "idle"
    /\ Leave(o)
    /\ UNCHANGED table

Next ==
    \E o \in Operators :
        \/ BeginEnsure(o)   \/ Ensure(o)
        \/ BeginRecord(o)   \/ Record(o)
        \/ BeginActivate(o) \/ Activate(o)
        \/ BeginArchive(o)  \/ ReadForArchive(o) \/ Archive(o)
        \/ Crash(o)

Spec == Init /\ [][Next]_vars

-----------------------------------------------------------------------------
LogEntries == [from : Versions \union {NoVersion}, to : Versions,
               action : {"activate", "rollback"}]

TypeOK ==
    /\ row      \in [Versions -> Records]
    /\ active   \in Versions \union {NoVersion}
    /\ previous \in Versions \union {NoVersion}
    /\ log      \in Seq(LogEntries)
    /\ epoch    \in 0 .. MaxEpoch
    /\ pc       \in [Operators -> {"idle", "ensuring", "recording", "activating",
                                   "checked", "archiving"}]
    /\ target   \in [Operators -> Versions \union {NoVersion}]
    /\ copy     \in [Operators -> Records]

\* The activation log is an audit trail: read from the start it leads, without a
\* gap, to the version the pointer shows, and "previous" is where the last
\* entry came from, so that rolling back undoes it.
LogLeadsToPointer ==
    /\ \A i \in 1 .. Len(log) :
         /\ log[i].from # log[i].to
         /\ log[i].from = IF i = 1 THEN NoVersion ELSE log[i - 1].to
    /\ IF log = <<>> THEN active = NoVersion /\ previous = NoVersion
       ELSE active = log[Len(log)].to /\ previous = log[Len(log)].from

\* "Only one version may be ACTIVE", and it is the one the pointer shows.
OnlyThePointerIsActive ==
    \A v \in Versions : row[v].status = "active" => v = active

\* "The active version cannot be archived": retrieval would lose it.
EffectiveIsNotArchived ==
    Effective # NoVersion => row[Effective].status # "archived"

\* A version keeps the sequence number it was created with: chunks are stamped
\* with it (valid_from_seq) and filtered by it.
SeqIsStable ==
    [][\A v \in Versions : Exists(v) => row'[v].seq = row[v].seq]_vars

\* Two versions never share a sequence number.
SeqsAreUnique ==
    \A v, w \in Versions : Exists(v) /\ Exists(w) /\ row[v].seq = row[w].seq => v = w

\* Status, pointer, numbers and log of the versions tell one story at any moment, although they
\* are written by different operations and an operator may die between two of their steps.
VersionsAgree ==
    /\ TypeOK /\ LogLeadsToPointer
    /\ OnlyThePointerIsActive /\ EffectiveIsNotArchived /\ SeqsAreUnique
=============================================================================
