-------------------------- MODULE MCBridgeDelivery --------------------------
(***************************************************************************)
(* The instance of BridgeDelivery for TLC.  A liveness property is checked *)
(* with the safety properties, so no symmetry is declared.                 *)
(***************************************************************************)
EXTENDS BridgeDelivery
=============================================================================
