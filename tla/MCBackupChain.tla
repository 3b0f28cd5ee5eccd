---------------------------- MODULE MCBackupChain ----------------------------
(***************************************************************************)
(* BackupChain for TLC; the instance is in the .cfg.                       *)
(***************************************************************************)
EXTENDS BackupChain
=============================================================================
