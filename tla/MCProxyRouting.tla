--------------------------- MODULE MCProxyRouting ---------------------------
(* ProxyRouting for TLC. *)
EXTENDS ProxyRouting

AllConditions == {"ready", "slow", "wedged", "down"}
TwoConditions == {"ready", "down"}
SharpConditions == {"ready", "wedged", "down"}
=============================================================================
