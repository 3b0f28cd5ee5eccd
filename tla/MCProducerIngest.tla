-------------------------- MODULE MCProducerIngest --------------------------
(***************************************************************************)
(* Instances of ProducerIngest for TLC.                                    *)
(***************************************************************************)
EXTENDS ProducerIngestProofs
=============================================================================
