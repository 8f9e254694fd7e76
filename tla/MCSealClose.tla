---------------------------- MODULE MCSealClose ----------------------------
(* SealClose for TLC: two closes of a session and a little of everything.   *)
EXTENDS SealClose, TLC

=============================================================================
