---------------------------- MODULE SealOutcome ----------------------------
(***************************************************************************)
(* What closing a session promises to those who ask for it: the directory  *)
(* decides once, and a close that answers "sealed" has the certificate of  *)
(* that decision in the store, for good, or knows that it could not be     *)
(* stored.  SealClose implements this.                                     *)
(***************************************************************************)
CONSTANT Closer

VARIABLES
    outcome,    \* what the directory certified
    kept,       \* this side has stored the certificate
    unkept,     \* the certificate came, and could not be stored
    answer      \* what each close answered

vars == <<outcome, kept, unkept, answer>>

Init ==
    /\ outcome = "none" /\ kept = FALSE /\ unkept = FALSE
    /\ answer = [c \in Closer |-> "none"]

\* The directory seals the session.
Decide ==
    /\ outcome = "none" /\ outcome' \in {"bilateral", "unilateral"}
    /\ UNCHANGED <<kept, unkept, answer>>

\* The certificate is stored, or cannot be.
Come ==
    /\ outcome # "none"
    /\ \/ kept' = TRUE /\ UNCHANGED unkept
       \/ unkept' = TRUE /\ UNCHANGED kept

\* The certificate comes.
Learn ==
    /\ Come
    /\ UNCHANGED <<outcome, answer>>

\* A close answers, and may have asked for the certificate first; one that says sealed has
\* seen it.
Reply(c) ==
    /\ answer[c] = "none"
    /\ \/ UNCHANGED <<kept, unkept>>
       \/ Come
    /\ \/ answer' = [answer EXCEPT ![c] = "sealed"] /\ (kept' \/ unkept')
       \/ answer' = [answer EXCEPT ![c] = "other"]
    /\ UNCHANGED outcome

Next == Decide \/ Learn \/ \E c \in Closer : Reply(c)

Spec == Init /\ [][Next]_vars

=============================================================================
