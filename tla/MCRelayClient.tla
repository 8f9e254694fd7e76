---------------------------- MODULE MCRelayClient ----------------------------
(* RelayClient for TLC: l3 is a leaf of the session s2, the others of s1.   *)
EXTENDS RelayClient, TLC

CONSTANTS s1, s2, l3

MCSessionOf == [l \in Leaf |-> IF l = l3 THEN s2 ELSE s1]

=============================================================================
