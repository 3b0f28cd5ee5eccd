------------------------- MODULE MCOrderbookMinute -------------------------
(***************************************************************************)
(* Instances of OrderbookMinute for TLC.                                   *)
(***************************************************************************)
EXTENDS OrderbookMinute, TLC

Symmetry == Permutations(Markets)
=============================================================================
