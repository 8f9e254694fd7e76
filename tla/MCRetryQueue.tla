---------------------------- MODULE MCRetryQueue ----------------------------
(* RetryQueue for TLC: two contents, two flushers, a handful of failures.   *)
EXTENDS RetryQueue, TLC

\* Contents, nonces and flushers are interchangeable.
Sym == Permutations(Hash) \cup Permutations(Nonce) \cup Permutations(Flusher)

=============================================================================
