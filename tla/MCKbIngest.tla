----------------------------- MODULE MCKbIngest -----------------------------
(***************************************************************************)
(* Instances of KbIngest for TLC.                                          *)
(***************************************************************************)
EXTENDS KbIngest
=============================================================================
