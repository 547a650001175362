------------------------------- MODULE MCSer -------------------------------
(***************************************************************************)
(* Instances of Ser for TLC.                                                *)
(***************************************************************************)
EXTENDS Ser
=============================================================================
