-------------------------- MODULE MCDynamicGateway --------------------------
(* Instance of DynamicGateway for TLC: two APIs in two groups, of which one *)
(* has a host.                                                              *)
EXTENDS DynamicGateway, TLC

CONSTANTS r1, a1, a2, g1, g2

MCGroupOf == a1 :> g1 @@ a2 :> g2

=============================================================================
