--------------------------- MODULE AnalysisLedger ---------------------------
(***************************************************************************)
(* What the analyses of a contract promise to everybody else: runs begin   *)
(* one at a time, the current one is published or abandoned, and a run     *)
(* that has left that position never comes back.  AnalysisRuns is shown to *)
(* implement it.                                                           *)
(***************************************************************************)
CONSTANTS Runs, NoRun

VARIABLES
    current,  \* the run in progress, or NoRun
    latest,   \* the run readers are shown, or NoRun
    retired   \* the runs that have ended

vars == <<current, latest, retired>>

Init ==
    /\ current = NoRun
    /\ latest  = NoRun
    /\ retired = {}

\* A run begins; if there was one, it has been given up.
Begin(r) ==
    /\ r \notin retired \union {current}
    /\ current' = r
    /\ retired' = retired \union ({current} \ {NoRun})
    /\ UNCHANGED latest

End ==
    /\ current # NoRun
    /\ retired' = retired \union {current}
    /\ current' = NoRun

Publish == End /\ latest' = current
Abandon == End /\ UNCHANGED latest

Next == Publish \/ Abandon \/ \E r \in Runs : Begin(r)

Spec == Init /\ [][Next]_vars
=============================================================================
