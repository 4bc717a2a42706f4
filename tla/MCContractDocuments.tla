------------------------ MODULE MCContractDocuments ------------------------
(***************************************************************************)
(* Instances of ContractDocuments for TLC.                                 *)
(***************************************************************************)
EXTENDS ContractDocuments, TLC

\* Documents other than the first are interchangeable, and so are analysts.
Symmetry == Permutations(Documents \ {First}) \union Permutations(Analysts)
=============================================================================
