---------------------------- MODULE MCHealthCheck ----------------------------
(***************************************************************************)
(* HealthCheck for TLC; the instance is in the .cfg.                       *)
(***************************************************************************)
EXTENDS HealthCheck
=============================================================================
