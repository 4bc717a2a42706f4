------------------------ MODULE MCContractFulfilment ------------------------
(***************************************************************************)
(* Instances of ContractFulfilment for TLC.  The obligation "delivery" has *)
(* a base date in the contract's text and risks that share a key, the      *)
(* obligation "payment" waits for an event and has risks with keys of      *)
(* their own.                                                              *)
(***************************************************************************)
EXTENDS ContractFulfilment, TLC

Dated(o)  == IF o = "delivery" THEN 0 ELSE NoDay
TextDates == [o \in Obligations |-> Dated(o)]

\* Requests are interchangeable.
Symmetry == Permutations(Requests)
=============================================================================
