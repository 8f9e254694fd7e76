--------------------------- MODULE MCSessionOpening ---------------------------
(* SessionOpening for TLC: two sessions from outside and two of the agent's. *)
EXTENDS SessionOpening, TLC
=============================================================================
