---------------------------- MODULE MCCmdToken ----------------------------
(* Instances of CmdToken for TLC: interchangeable requestors. *)
EXTENDS CmdToken, TLC

MCSymmetry == Permutations(Clients)
=============================================================================
