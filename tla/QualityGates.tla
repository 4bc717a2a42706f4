---------------------------- MODULE QualityGates ----------------------------
(***************************************************************************)
(* The gates a change of material, retrieval or model has to pass, side by *)
(* side: scripts/quality/check_ingestion_quality_gate on the material,     *)
(* check_followup_gate on conversations and check_performance_gate on      *)
(* times.  Each reads a report of its own and nothing of the others.       *)
(***************************************************************************)
EXTENDS IngestionQuality, FollowupGate, PerformanceGate

\* None of the gates on material, conversations and times can be passed by what it is not
\* shown: a file, a contradiction, a turn without its history, a failed or slow case.
GatesJudgeTheWhole == MaterialIsJudgedWhole /\ FollowupsAreJudged /\ SpeedIsJudged
=============================================================================
