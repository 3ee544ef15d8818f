-------------------------- MODULE MCGatewayClient --------------------------
(* Instance of GatewayClient for TLC: liveness is checked, so no symmetry. *)
EXTENDS GatewayClient
=============================================================================
