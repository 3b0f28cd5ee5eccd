-------------------------- MODULE MCAlertDelivery --------------------------
(***************************************************************************)
(* AlertDelivery for TLC; the instance is in the .cfg.                     *)
(***************************************************************************)
EXTENDS AlertDelivery
=============================================================================
