--------------------------- MODULE MCSaltAgreement ---------------------------
(* SaltAgreement for TLC: two daemons that share a budget of messages and a   *)
(* budget of attachments and faults.                                          *)
EXTENDS SaltAgreement, TLC
=============================================================================
