--------------------------- MODULE MCMarketAlert ---------------------------
(***************************************************************************)
(* Instances of MarketAlertDetector for TLC.                               *)
(***************************************************************************)
EXTENDS MarketAlertDetector
=============================================================================
