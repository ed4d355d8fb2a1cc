--------------------------- MODULE MCBridgeSession ---------------------------
(* An instance of BridgeSession for TLC. *)
EXTENDS BridgeSession
=============================================================================
