---------------------------- MODULE MCDepthBook ----------------------------
(***************************************************************************)
(* Instances of DepthBook for TLC.                                         *)
(***************************************************************************)
EXTENDS DepthBook
=============================================================================
