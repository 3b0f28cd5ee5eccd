-------------------------- MODULE MCVirtualLedger --------------------------
(***************************************************************************)
(* Instances of VirtualLedger for TLC.                                     *)
(***************************************************************************)
EXTENDS VirtualLedger
=============================================================================
