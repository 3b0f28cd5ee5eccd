----------------------------- MODULE MCTradeCdc -----------------------------
(***************************************************************************)
(* Instances of TradeCdc for TLC.                                          *)
(***************************************************************************)
EXTENDS TradeCdc
=============================================================================
