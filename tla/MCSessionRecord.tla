-------------------------- MODULE MCSessionRecord --------------------------
(* SessionRecord on a small instance: two daemons and a handful of sends.  *)
EXTENDS SessionRecord, TLC

\* The two daemons play the same role, and so do the messages; sound without document frames.
Sym == Permutations(Party) \cup Permutations(Content)
=============================================================================
