--------------------------- MODULE MCLedgerMirror ---------------------------
(***************************************************************************)
(* Instances of LedgerMirror for TLC.                                      *)
(***************************************************************************)
EXTENDS LedgerMirror
=============================================================================
