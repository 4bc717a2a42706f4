------------------------- MODULE MCRetrievalServing -------------------------
(***************************************************************************)
(* Instances of RetrievalServing for TLC.                                  *)
(***************************************************************************)
EXTENDS RetrievalServing, TLC

\* Requests are interchangeable, and so are versions.
Symmetry == Permutations(Requests) \union Permutations(Versions)
=============================================================================
