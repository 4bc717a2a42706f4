--------------------------- MODULE MCAnalysisRuns ---------------------------
(***************************************************************************)
(* Instances of AnalysisRuns for TLC.                                      *)
(***************************************************************************)
EXTENDS AnalysisRuns, TLC

\* Requests and run ids are interchangeable.
Symmetry == Permutations(Requests) \union Permutations(Runs)
=============================================================================
