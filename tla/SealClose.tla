----------------------------- MODULE SealClose -----------------------------
(***************************************************************************)
(* How one agent closes a session: closes asked for by the operator or by  *)
(* the restart resolver, the automatic answer to the counterparty's        *)
(* closing leaf, the certificates that arrive, and the session's row and   *)
(* node underneath (SessionLifecycle).                                     *)
(*                                                                         *)
(* A close submits a closing leaf to the relay and waits for the           *)
(* certificate of a bilateral seal; failing that it asks the directory for *)
(* a unilateral one.  Each await is a step of its own.  The counterparty,  *)
(* the relay and the directory are external: frames of theirs may come     *)
(* late or never.                                                          *)
(***************************************************************************)
EXTENDS SessionLifecycle, Sequences

CONSTANTS
    MaxCloses,  \* bound: calls of close_session
    Answerer,   \* maybeAutoAcknowledgeSeal
    MaxLeaves,  \* bound: closing leaves signed,
    MaxTries    \* bound: those, closes begun, nodes built anew and events, together

Closer == 1..MaxCloses
NoCloser == 0

ASSUME CloserAssumption ==
    /\ MaxCloses \in Nat \ {0} /\ Answerer \notin Nat
    /\ MaxLeaves \in Nat \ {0} /\ MaxTries \in Nat

VARIABLES
    call,       \* where each close is, and what it knows
    held,       \* sealInterruptedInProgress has the session
    waiter,     \* the close in pendingSealWaiters
    uniWaiter,  \* the close in pendingUnilateralWaiters
    mark,       \* responderSealSubmitted: no closing leaf, one under way, or one known
    verifying,  \* closes whose unilateral certificate is being verified
    carry,      \* seal leaf store: closing leaves with their positions (durable)
    cert,       \* a certificate is stored (durable)
    \* outside
    wire,       \* own closing leaves submitted that the relay has not ordered
    log,        \* closing leaves the relay has ordered, 0 is the counterparty's
    seen,       \* how many of those have been delivered here
    mail,       \* frames of the directory on their way
    dir,        \* what the directory has certified
    \* history
    signed,     \* leaves signed so far
    unkept,     \* a certificate came that could not be stored
    silent      \* a submission nothing remembers may yet be ordered

sealVars == <<waiter, uniWaiter, mark, verifying, carry, cert>>
outside == <<wire, log, seen, mail, dir>>
history == <<signed, unkept, silent>>
vars == <<lifecycleVars, call, held, sealVars, outside, history>>

Proc == Closer \cup {Answerer}
Leaf == 1..MaxLeaves

Answer == {"none", "sealed", "other"}
Call == [at   : {"idle", "gate", "broker", "flow", "settle", "sent", "carry", "sign", "await",
                 "key", "uni", "pull", "force", "done"},
         rec  : Status \cup {"bilateral"},  \* the status it read
         leaf : {0} \cup Leaf,              \* the closing leaf it submits or signs
         pos  : Nat,                        \* where that goes in the carry
         root : BOOLEAN,                    \* it knows its closing leaf's root
         got  : {"none", "sealed", "local", "directory"},   \* what its waiter was told
         ans  : Answer]                     \* what it answered

\* Types of every variable.
TypeOK ==
    /\ LifecycleTypeOK
    /\ call \in [Proc -> Call]
    /\ {waiter, uniWaiter} \subseteq Closer \cup {NoCloser} /\ verifying \subseteq Closer
    /\ {held, cert, unkept, silent} \subseteq BOOLEAN
    /\ mark \in {"none", "busy", "known"} /\ signed \in 0..MaxLeaves
    /\ carry \subseteq (Nat \ {0}) \X ({0} \cup Leaf)
    /\ wire \subseteq Leaf
    /\ log \in Seq({0} \cup Leaf) /\ seen \in 0..Len(log)
    /\ mail \subseteq {"sealed", "confirmed", "told", "upgraded"}
    /\ dir \in {"none", "bilateral", "unilateral"}

Idle == [at |-> "idle", rec |-> "active", leaf |-> 0, pos |-> 0, root |-> FALSE,
         got |-> "none", ans |-> "none"]
Ended(ans) == [Idle EXCEPT !.at = "done", !.ans = ans]

Init ==
    /\ LifecycleInit
    /\ call = [p \in Proc |-> Idle]
    /\ held = FALSE /\ waiter = NoCloser /\ uniWaiter = NoCloser
    /\ mark = "none" /\ verifying = {}
    /\ carry = {} /\ cert = FALSE
    /\ wire = {} /\ log = << >> /\ seen = 0
    /\ mail = {} /\ dir = "none"
    /\ signed = 0 /\ unkept = FALSE /\ silent = FALSE

At(p, pc) == call[p].at = pc

More    == events + signed + Cardinality({c \in Closer : ~At(c, "idle")}) + built <= MaxTries
CanSign == signed < MaxLeaves /\ More

Ordered(l) == \E i \in 1..Len(log) : log[i] = l
OwnOrdered == {l \in Leaf : Ordered(l)}

-----------------------------------------------------------------------------
(* The end of a close.                                                     *)

\* The body of a close is over and the session free for another.  The wrapper may look
\* for a certificate first, when the reason of a failure allows for one.
EndClose(c, ans) ==
    /\ held' = FALSE
    /\ \/ call' = [call EXCEPT ![c] = Ended(ans)]
       \/ ans = "other" /\ call' = [call EXCEPT ![c] = [Idle EXCEPT !.at = "pull"]]

\* A close that gives up before it asked for anything.
Refused(c) ==
    call' = [call EXCEPT ![c] = Ended("other")] /\ UNCHANGED held

\* escalateToUnilateralSeal starts: the waiter first, then the key is awaited.
Escalate(c) ==
    /\ call' = [call EXCEPT ![c] = [Idle EXCEPT !.at = "key", !.rec = call[c].rec]]
    /\ uniWaiter' = c
    /\ UNCHANGED held

\* The waiter of a close of an active session is there before its leaf is.
Listening(p) == IF At(p, "broker") /\ call[p].rec = "active" THEN p ELSE waiter

\* What follows a submission that went through, or had gone through before.
AfterSubmit(p, known) ==
    \/ /\ p = Answerer
       /\ call' = [call EXCEPT ![p] = Idle] /\ UNCHANGED <<held, waiter, uniWaiter>>
    \/ /\ p # Answerer /\ call[p].rec = "active"
       /\ call' = [call EXCEPT ![p] = [Idle EXCEPT !.at = "await", !.root = known, !.got = call[p].got]]
       /\ waiter' = Listening(p) /\ UNCHANGED <<held, uniWaiter>>
    \/ /\ p # Answerer /\ call[p].rec # "active" /\ (~known \/ call[p].rec = "bilateral")
       /\ EndClose(p, "other") /\ UNCHANGED <<waiter, uniWaiter>>
    \/ /\ p # Answerer /\ call[p].rec \notin {"active", "bilateral"} /\ known
       /\ Escalate(p) /\ UNCHANGED waiter

\* What follows one that did not.  A close of an active session then answers with the
\* certificate it has, or asks the counterparty through the directory.
AfterFailure(p) ==
    \/ /\ p = Answerer
       /\ call' = [call EXCEPT ![p] = Idle] /\ UNCHANGED <<held, waiter, uniWaiter>>
    \/ /\ p # Answerer /\ call[p].rec = "active"
       /\ waiter' = NoCloser /\ UNCHANGED uniWaiter
       /\ \/ EndClose(p, IF cert THEN "sealed" ELSE "other")
          \/ EndClose(p, "other")
          \/ call' = [call EXCEPT ![p] = [Idle EXCEPT !.at = "flow"]] /\ UNCHANGED held
    \/ /\ p # Answerer /\ call[p].rec # "active"
       /\ EndClose(p, "other") /\ UNCHANGED <<waiter, uniWaiter>>

-----------------------------------------------------------------------------
(* The closing leaf (submitSealLeaf).                                      *)

\* The seal leaf store keeps the first leaf it gets for a position.
Put(pos, leaf) == IF \E e \in carry : e[1] = pos THEN carry ELSE carry \cup {<<pos, leaf>>}

OwnIn(set) == {e[2] : e \in set} \ {0}
Contiguous == {e[1] : e \in carry} = 1..Cardinality(carry)

\* Mutant of Unsubmitted: only memory is asked.
UnsubmittedInMemory == mark = "none"

\* Neither memory nor the store (recoverOwnSealCtrlLeaf) knows of an own closing leaf.
Unsubmitted == mark = "none" /\ OwnIn(carry) = {}

\* submitSealLeaf up to its first await.
Submit(p) ==
    \/ \* The own record is settling, or the counterparty's content is missing, or the
       \* store cannot be read, or there is no receiver to reach the relay from.
       AfterFailure(p) /\ UNCHANGED <<mark, signed, wire, silent>>
    \/ \* No transport: the evidence may be enough, whether or not there is a submission.
       /\ call' = [call EXCEPT ![p].at = "carry"] /\ waiter' = Listening(p)
       /\ UNCHANGED <<mark, signed, wire, silent, held, uniWaiter>>
    \/ \* Submitted before, as far as memory goes.
       /\ mark # "none" /\ AfterSubmit(p, mark = "known")
       /\ UNCHANGED <<mark, signed, wire, silent>>
    \/ \* Submitted before a restart or a teardown, as the store says.
       /\ mark = "none" /\ OwnIn(carry) # {}
       /\ mark' = "known" /\ AfterSubmit(p, TRUE)
       /\ UNCHANGED <<signed, wire, silent>>
    \/ \* Over the session's relay client, or without a node over that of the receiver.
       /\ Unsubmitted /\ (node = 0 \/ Attached)
       /\ mark' = "busy"
       /\ CanSign /\ signed' = signed + 1
       /\ wire' = wire \cup {signed + 1}
       /\ call' = [call EXCEPT ![p].at = "sent", ![p].leaf = signed + 1]
       /\ waiter' = Listening(p)
       /\ UNCHANGED <<silent, held, uniWaiter>>

submitRest == <<lifecycleVars, unkept, verifying, cert, log, seen, mail, dir>>

\* The relay acknowledges the leaf: the relay client stores it, submitSealLeaf notes it.
SubmitAcked(p) ==
    LET l == call[p].leaf
    IN  /\ At(p, "sent")
        /\ \E i \in 1..Len(log) : log[i] = l /\ carry' = Put(i, l)
        /\ mark' = "known"
        /\ AfterSubmit(p, TRUE)
        /\ UNCHANGED <<submitRest, wire, signed, silent>>

\* The relay refuses it.  A stale one is signed once more; for any other reason the
\* evidence is not an answer either.
SubmitRefused(p) ==
    LET l == call[p].leaf
    IN  /\ At(p, "sent") /\ l \in wire
        /\ \/ /\ CanSign /\ signed' = signed + 1
              /\ wire' = (wire \ {l}) \cup {signed + 1}
              /\ call' = [call EXCEPT ![p].leaf = signed + 1]
              /\ UNCHANGED <<mark, held, waiter, uniWaiter>>
           \/ /\ wire' = wire \ {l}
              /\ mark' = "none"
              /\ AfterFailure(p) /\ UNCHANGED signed
        /\ UNCHANGED <<submitRest, carry, silent>>

\* Mutant of SubmitUnanswered: the marker stays, without its leaf.
SubmitUnansweredMarked(p) ==
    /\ At(p, "sent")
    /\ silent' = TRUE
    /\ call' = [call EXCEPT ![p].at = "carry"]
    /\ UNCHANGED <<submitRest, mark, carry, wire, signed, held, waiter, uniWaiter>>

\* The relay says nothing, or its stream breaks: the leaf may be ordered or not.  The
\* marker goes, and then the evidence is asked.
SubmitUnanswered(p) ==
    /\ At(p, "sent")
    /\ silent' = TRUE
    /\ mark' = "none"
    /\ call' = [call EXCEPT ![p].at = "carry", ![p].leaf = 0]
    /\ UNCHANGED <<submitRest, carry, wire, signed, held, waiter, uniWaiter>>

\* Mutant of CarryBuild: positions counted from 0.
CarryBuildFromZero(p) ==
    /\ At(p, "carry")
    /\ \/ AfterFailure(p) /\ UNCHANGED <<mark, signed, silent>>
       \/ /\ Contiguous /\ OwnIn(carry) = {}
          /\ CanSign /\ signed' = signed + 1 /\ silent' = TRUE
          /\ call' = [call EXCEPT ![p].at = "sign", ![p].leaf = signed + 1,
                                  ![p].pos = Cardinality(carry)]
          /\ UNCHANGED <<mark, held, waiter, uniWaiter>>
    /\ UNCHANGED <<submitRest, carry, wire>>

\* closeOverCarriedEvidence, with the key in hand: an own closing leaf that is there is
\* the answer; otherwise one is built behind the last leaf and signed.
CarryBuild(p) ==
    /\ At(p, "carry")
    /\ \/ AfterFailure(p) /\ UNCHANGED <<mark, signed, silent>>
       \/ /\ Contiguous /\ OwnIn(carry) # {}
          /\ mark' = "known"
          /\ AfterSubmit(p, TRUE) /\ UNCHANGED <<signed, silent>>
       \/ /\ Contiguous /\ OwnIn(carry) = {}
          /\ CanSign /\ signed' = signed + 1 /\ silent' = TRUE
          /\ call' = [call EXCEPT ![p].at = "sign", ![p].leaf = signed + 1,
                                  ![p].pos = Cardinality(carry) + 1]
          /\ UNCHANGED <<mark, held, waiter, uniWaiter>>
    /\ UNCHANGED <<submitRest, carry, wire>>

\* closeOverCarriedEvidence, with the signature: the leaf is stored, unless its position
\* has been taken meanwhile.
CarryStore(p) ==
    /\ At(p, "sign")
    /\ \/ /\ \A e \in carry : e[1] # call[p].pos
          /\ carry' = Put(call[p].pos, call[p].leaf)
          /\ mark' = "known"
          /\ AfterSubmit(p, TRUE)
       \/ AfterFailure(p) /\ UNCHANGED <<carry, mark>>
    /\ UNCHANGED <<submitRest, wire, signed, silent>>

-----------------------------------------------------------------------------
(* A close.                                                                *)

closeRest == <<lifecycleVars, mark, verifying, carry, cert,
               wire, log, seen, mail, dir, history>>

\* runClose reads the row.  A sealed one is refused, an abandoned one too; with force the
\* counterparty and the relay are told before anything is written.  (Closes are numbered as
\* they come.)
Start(c) ==
    /\ At(c, "idle") /\ More /\ \A d \in Closer : d < c => ~At(d, "idle")
    /\ \/ status \in Terminal /\ Refused(c)
       \/ status \notin Terminal /\ UNCHANGED held
          /\ call' = [call EXCEPT ![c].at = "gate", ![c].rec = status]
       \/ status # "sealed" /\ UNCHANGED held
          /\ call' = [call EXCEPT ![c].at = "force", ![c].rec = status]
    /\ UNCHANGED <<closeRest, waiter, uniWaiter>>

\* After the readiness gate: refused there, or because another close is in progress, or
\* the directory's connection is down; otherwise the session is taken.
Claim(c) ==
    /\ At(c, "gate")
    /\ \/ Refused(c)
       \/ /\ ~held /\ held' = TRUE
          /\ call' = [call EXCEPT ![c].at =
                         IF call[c].rec = "interrupted" THEN "flow" ELSE "broker"]
    /\ UNCHANGED <<closeRest, waiter, uniWaiter>>

\* The close of an active session has its broker, that of a pending one needs none.
BrokerDone(c) ==
    /\ At(c, "broker")
    /\ Submit(c)
    /\ UNCHANGED <<submitRest, carry>>

flowRest == <<unkept, node, running, built, displaced, frozen, told, events, verifying, carry, cert, log,
              seen, mail, dir>>

\* handleSealInterruptedFlow and handleActiveSealFlow: the counterparty commits, is
\* unavailable, or refuses, and may do so because it closes over the relay itself.
\* A commitment is only kept by an open row.
FlowDone(c) ==
    /\ At(c, "flow")
    /\ \/ /\ call[c].rec = "interrupted"
          /\ CommitPending \/ UNCHANGED <<status, seed>>
          /\ Submit(c) /\ UNCHANGED ops
       \/ /\ call[c].rec = "active"
          /\ CommitPending \/ (status = "pending" /\ UNCHANGED <<status, seed>>)
          /\ StartRetire("retire") /\ EndClose(c, "other")
          /\ UNCHANGED <<waiter, uniWaiter, mark, signed, wire, silent>>
       \/ /\ EndClose(c, "other")
          /\ UNCHANGED <<status, seed, ops, waiter, uniWaiter, mark, signed, wire,
                         silent>>
       \/ /\ call[c].rec = "interrupted"
          /\ call' = [call EXCEPT ![c].at = "broker", ![c].rec = "bilateral"]
          /\ UNCHANGED <<status, seed, ops, held, waiter, uniWaiter, mark, signed,
                         wire, silent>>
    /\ UNCHANGED flowRest

\* Mutant of Await: no deadline.
AwaitForever(c) ==
    /\ At(c, "await") /\ call[c].got # "none"
    /\ waiter' = NoCloser
    /\ EndClose(c, IF call[c].got = "sealed" THEN "sealed" ELSE "other")
    /\ UNCHANGED <<closeRest, uniWaiter>>

\* The race of the certificate against the deadline.  What the own daemon found wrong ends
\* the close; a deadline or the directory's refusal leads to a unilateral seal.
Await(c) ==
    /\ At(c, "await")
    /\ waiter' = NoCloser
    /\ \/ call[c].got = "sealed" /\ EndClose(c, "sealed") /\ UNCHANGED uniWaiter
       \/ call[c].got = "local" /\ EndClose(c, "other") /\ UNCHANGED uniWaiter
       \/ /\ call[c].got \in {"none", "directory"}
          /\ IF ~call[c].root THEN EndClose(c, "other") /\ UNCHANGED uniWaiter
             ELSE Escalate(c)
    /\ UNCHANGED closeRest

\* escalateToUnilateralSeal, with the key: the request is sent, unless the evidence will
\* not do.  Only a close of a session that is not active looks whether a closing leaf is
\* doubled, or both are there.  The directory seals, or finds that it is too early, and
\* its answer may come late, or never.
UniSend(c) ==
    LET strict == call[c].rec # "active"
        usable == Contiguous /\ Cardinality(carry) < 2
    IN  /\ At(c, "key")
        /\ \/ /\ strict => usable
              /\ \/ dir = "none" /\ dir' = "unilateral" /\ mail' = mail \cup {"confirmed"}
                 \/ UNCHANGED <<dir, mail>>
              /\ call' = [call EXCEPT ![c] = [Idle EXCEPT !.at = "uni", !.got = call[c].got]] /\ UNCHANGED <<held, uniWaiter>>
           \/ EndClose(c, "other") /\ uniWaiter' = NoCloser /\ UNCHANGED <<dir, mail>>
    /\ UNCHANGED <<lifecycleVars, waiter, mark, verifying, carry, cert, wire,
                   log, seen, history>>

\* The race of the directory's answer against 30 s.
UniDone(c) ==
    /\ At(c, "uni")
    /\ uniWaiter' = NoCloser
    /\ EndClose(c, IF call[c].got = "sealed" THEN "sealed" ELSE "other")
    /\ UNCHANGED <<closeRest, waiter>>

\* The counterparty and the relay have been told, or not in time: the row is abandoned,
\* whatever it says by now.
ForceDone(c) ==
    /\ At(c, "force")
    /\ IF call[c].rec = "abandoned" THEN UNCHANGED lifecycleVars
       ELSE AbandonSession(ops) /\ UNCHANGED <<frozen, told, events>>
    /\ call' = [call EXCEPT ![c] = Ended("other")]
    /\ UNCHANGED <<held, sealVars, outside, history>>

-----------------------------------------------------------------------------
(* Certificates.                                                           *)

\* The certificate is stored, unless it has no legibility report or the write fails.
Keep ==
    \/ cert' = TRUE /\ UNCHANGED <<unkept, events>>
    \/ unkept' = TRUE /\ More /\ Event /\ UNCHANGED cert

\* The row is marked, and the node taken down.
MarkSealed ==
    /\ WriteStatus("sealed") /\ StartDestroy("sealed")
    /\ UNCHANGED <<frozen, told>>

\* What every listener does with a certificate that verifies.
Sealed == Keep /\ MarkSealed

NotSealed == UNCHANGED <<lifecycleVars, cert, unkept>>

\* A close that no longer waits is not reached.
Tell(c, what) ==
    call' = IF c \in Closer /\ call[c].got = "none" /\ call[c].at \notin {"done", "pull"}
            THEN [call EXCEPT ![c].got = what] ELSE call

Take(m) == m \in mail /\ mail' = mail \ {m}

listenRest == <<held, mark, carry, wire, log, seen, dir, signed, silent>>

\* session_sealed, verified.  A root that is not the own tree's is told to the close, and
\* the certificate dropped.
SealedArrives ==
    /\ Take("sealed")
    /\ waiter' = NoCloser
    /\ \/ Sealed /\ Tell(waiter, "sealed")
       \/ Tell(waiter, "local") /\ NotSealed
    /\ UNCHANGED <<listenRest, uniWaiter, verifying>>

\* Mutant of RejectedArrives: the waiter goes, and the close is not told.
RejectedArrivesUntold ==
    /\ Ordered(0) /\ OwnOrdered # {} /\ dir = "none"
    /\ waiter' = NoCloser
    /\ NotSealed /\ UNCHANGED <<listenRest, call, mail, uniWaiter, verifying>>

\* session_seal_rejected: the directory has both closing leaves and refuses to seal.
RejectedArrives ==
    /\ Ordered(0) /\ OwnOrdered # {} /\ dir = "none"
    /\ waiter' = NoCloser /\ Tell(waiter, "directory")
    /\ NotSealed /\ UNCHANGED <<listenRest, mail, uniWaiter, verifying>>

\* seal_unilateral_confirmed: the waiter of now is kept while the certificate is verified;
\* without one the frame is dropped.
ConfirmedArrives ==
    /\ Take("confirmed")
    /\ verifying' = verifying \cup ({uniWaiter} \ {NoCloser})
    /\ NotSealed /\ UNCHANGED <<listenRest, call, waiter, uniWaiter>>

\* Mutant of ConfirmedVerified: the close is told before the certificate is kept.
ConfirmedVerifiedEarly(c) ==
    /\ c \in verifying /\ verifying' = verifying \ {c}
    /\ uniWaiter' = NoCloser
    /\ Tell(c, "sealed")
    /\ NotSealed /\ UNCHANGED <<listenRest, waiter, mail>>

\* It is verified: the entry goes by its key, whichever close has it by now, and the close
\* it was read for is told.
ConfirmedVerified(c) ==
    /\ c \in verifying /\ verifying' = verifying \ {c}
    /\ uniWaiter' = NoCloser
    /\ \/ Sealed /\ Tell(c, "sealed")
       \/ Tell(c, "directory") /\ NotSealed
    /\ UNCHANGED <<listenRest, waiter, mail>>

\* seal_unilateral_too_early, for any cause; it may answer an earlier request.
EarlyArrives ==
    /\ uniWaiter # NoCloser
    /\ uniWaiter' = NoCloser /\ Tell(uniWaiter, "directory")
    /\ NotSealed /\ UNCHANGED <<listenRest, mail, waiter, verifying>>

\* seal_unilateral_notification: the counterparty has sealed alone.  When the own record is
\* complete this side co-signs and keeps the certificate; the directory then upgrades it.
ToldArrives ==
    /\ "told" \in mail
    /\ \/ mail' = (mail \ {"told"}) \cup {"upgraded"} /\ cert' \in {TRUE, cert}
       \/ mail' = mail \ {"told"} /\ UNCHANGED cert
    /\ UNCHANGED <<listenRest, lifecycleVars, unkept, call, waiter, uniWaiter, verifying>>

\* seal_upgrade_confirmed, verified: a certificate that is stored is brought up to date.
UpgradedArrives ==
    /\ Take("upgraded")
    /\ MarkSealed
    /\ UNCHANGED <<listenRest, events, cert, unkept, call, waiter, uniWaiter, verifying>>

\* Mutant of PullDone: any answer of the directory will do.
PullDoneUnchecked(c) ==
    /\ At(c, "pull")
    /\ call' = [call EXCEPT ![c] = Ended("sealed")] /\ Sealed
    /\ UNCHANGED <<listenRest, waiter, uniWaiter, verifying, mail>>

\* pullSealCertificate, for a close that failed: the directory has one and it verifies, or
\* there is none, or no answer.  What the close then answers is read from the store.
PullDone(c) ==
    /\ At(c, "pull")
    /\ \/ dir # "none" /\ Sealed
          /\ call' = [call EXCEPT ![c] = Ended(IF cert' THEN "sealed" ELSE "other")]
       \/ call' = [call EXCEPT ![c] = Ended("other")] /\ NotSealed
    /\ UNCHANGED <<listenRest, waiter, uniWaiter, verifying, mail>>

-----------------------------------------------------------------------------
(* The counterparty's closing leaf and its own closes.                     *)

\* The relay delivers the next closing leaf, which the relay client stores.  That of the
\* counterparty is answered, if the session is on the relay and active, has no leaf of ours,
\* and is not known to be broken.
Deliver ==
    LET l == log[seen + 1]
    IN  /\ seen < Len(log) /\ seen' = seen + 1
        /\ carry' = Put(seen + 1, l)
        /\ \/ /\ l = 0 /\ mark = "none" /\ status = "active" /\ Attached
              /\ call' = [call EXCEPT ![Answerer].at = "settle"]
           \/ UNCHANGED call
    /\ UNCHANGED <<lifecycleVars, held, waiter, uniWaiter, mark, verifying,
                   cert, wire, log, mail, dir, history>>

\* maybeAutoAcknowledgeSeal has its broker, and waited for the own record.
AutoSubmit ==
    /\ At(Answerer, "settle")
    /\ Submit(Answerer)
    /\ UNCHANGED <<submitRest, carry>>

\* An inbound seal_interrupted_request is co-signed; the commitment is kept by an open row.
CoSign ==
    /\ CommitPending /\ More /\ Event
    /\ UNCHANGED <<nodeVars, frozen, told, call, held, sealVars, outside, history>>

outsideRest == <<lifecycleVars, call, held, sealVars, history>>

\* The relay orders a closing leaf of ours.
RelayOrders(l) ==
    /\ l \in wire
    /\ wire' = wire \ {l}
    /\ log' = Append(log, l)
    /\ UNCHANGED <<outsideRest, seen, mail, dir>>

\* The counterparty closes.
TheirLeaf ==
    /\ \A i \in 1..Len(log) : log[i] # 0
    /\ log' = Append(log, 0)
    /\ UNCHANGED <<outsideRest, wire, seen, mail, dir>>

\* With one closing leaf of each side the directory seals the session.
DirBilateral ==
    /\ Ordered(0) /\ Cardinality(OwnOrdered) = 1 /\ dir = "none"
    /\ dir' = "bilateral" /\ mail' = mail \cup {"sealed"}
    /\ UNCHANGED <<outsideRest, wire, log, seen>>

\* It seals for the counterparty alone.
DirTheirs ==
    /\ Ordered(0) /\ dir = "none"
    /\ dir' = "unilateral" /\ mail' = mail \cup {"told"}
    /\ UNCHANGED <<outsideRest, wire, log, seen>>

-----------------------------------------------------------------------------
(* The daemon stops or dies and starts again: what is in memory goes.      *)
Restart ==
    /\ LifecycleRestart /\ More
    /\ call' = [p \in Proc |-> IF At(p, "done") THEN call[p] ELSE Idle]
    /\ held' = FALSE /\ waiter' = NoCloser /\ uniWaiter' = NoCloser
    /\ mark' = "none" /\ verifying' = {}
    /\ silent' = (silent \/ \E p \in Proc : At(p, "sent"))
    /\ UNCHANGED <<carry, cert, outside, signed, unkept>>

\* An operation of the session ends.  With the caches it evicts the marker goes, also that
\* of a submission under way.
Operation(o) ==
    /\ Finish(o)
    /\ mark' = IF Evicts(o) THEN "none" ELSE mark
    /\ silent' = (silent \/ (Evicts(o) /\ mark = "busy"))
    /\ UNCHANGED <<call, held, waiter, uniWaiter, verifying, carry, cert, outside, signed,
                   unkept>>

CloserStep(c) ==
    \/ Claim(c) \/ BrokerDone(c) \/ FlowDone(c) \/ Await(c) \/ UniSend(c) \/ UniDone(c)
    \/ PullDone(c) \/ ForceDone(c)

SubmitStep(p) ==
    SubmitAcked(p) \/ SubmitRefused(p) \/ SubmitUnanswered(p) \/ CarryBuild(p) \/ CarryStore(p)

LocalStep ==
    \/ \E c \in Closer : CloserStep(c)
    \/ \E p \in Proc : SubmitStep(p)
    \/ AutoSubmit

FrameStep ==
    \/ SealedArrives \/ RejectedArrives \/ ConfirmedArrives \/ EarlyArrives \/ ToldArrives
    \/ UpgradedArrives
    \/ \E c \in Closer : ConfirmedVerified(c)
    \/ Deliver

OutsideStep ==
    TheirLeaf \/ DirBilateral \/ DirTheirs \/ \E l \in Leaf : RelayOrders(l)

Next ==
    \/ \E c \in Closer : Start(c)
    \/ LocalStep
    \/ FrameStep
    \/ OutsideStep
    \/ Happening /\ More /\ UNCHANGED <<call, held, sealVars, outside, history>>
    \/ \E o \in ops : Operation(o)
    \/ CoSign
    \/ Restart

Spec == Init /\ [][Next]_vars

DaemonStep ==
    \/ LocalStep
    \/ \E o \in ops : Operation(o)

\* Every await has a deadline or is the daemon's own work, and a node that is told to stop
\* or to start does, or fails: as long as it has something under way, the daemon goes on.
FairSpec == Spec /\ WF_<<call, ops>>(DaemonStep)

-----------------------------------------------------------------------------
(* Properties.                                                             *)

\* No party submits a second closing leaf, which would make the session unsealable forever
\* (submitSealLeaf), in whatever order closes, the automatic answer, teardowns and restarts
\* come.  The exceptions (silent): a submission that goes unanswered, a leaf that is signed
\* without the relay, and a submission under way when the daemon restarts or when a teardown
\* evicts its mark; each of them may be ordered with nothing here that remembers it.
OneClosingLeaf ==
    ~silent => Cardinality(OwnOrdered \cup OwnIn(carry)) <= 1

\* Two submissions of a session's closing leaf are never in the relay client at once: the
\* second one finds the marker of the first (#resolveSealTransport).
OneSubmitter == \A p, q \in Proc : At(p, "sent") /\ At(q, "sent") => p = q

Ceremony == {"broker", "flow", "sent", "carry", "sign", "await", "key", "uni"}
InCeremony(c) == call[c].at \in Ceremony

\* Closes of a session exclude each other through every await, and nothing strands what a
\* later close would stumble over: the session is free when none is under way
\* (sealInterruptedInProgress), and a marker without a leaf, which keeps a close from a
\* unilateral seal, belongs to a submission under way (submitSealLeaf).
LocksHaveOwners ==
    /\ \A c, d \in Closer : InCeremony(c) /\ InCeremony(d) => c = d
    /\ held <=> \E c \in Closer : InCeremony(c)
    /\ mark = "busy" => \E p \in Proc : At(p, "sent")

\* A close that waits for a bilateral certificate can be told of it: no other close and no
\* frame takes its waiter away unresolved (pendingSealWaiters).
WaiterKept == \A c \in Closer : At(c, "await") /\ call[c].got = "none" => waiter = c

\* The second half of an operation begun before the row was final writes it, or a forced
\* close does.
StaleWrite ==
    \/ \E o \in ops \ ops' : o.at \in {"destroy", "wire", "expire"}
    \/ status' = "abandoned" /\ \E c \in Closer : At(c, "force") /\ ~At(c, "force")'

\* Terminal is terminal (reviveSessionNode, markSealed): a sealed or abandoned row stays,
\* unless an operation that looked at the row before it was terminal, and then waited for a
\* node, the relay or the counterparty, writes what it meant to.
FinalUnlessStale == [][(status \in Terminal /\ status' # status) => StaleWrite]_vars

\* A node that is up is the one in activeNodes, so that it can be found and stopped; only
\* an operation that meets another's entry under the key loses one.
NoStrayNode == ~displaced => running \subseteq {node}

\* Closes end, and with them the waits of the session's operations: no lock, no waiter and
\* no lost frame holds one up for ever; and then the node of a sealed session is down.
ClosesEnd ==
    []<>(/\ \A p \in Proc : call[p].at \in {"idle", "done"}
         /\ ops = {}
         /\ status = "sealed" /\ ~displaced => running = {})

Outcome == INSTANCE SealOutcome WITH
    outcome <- dir,
    kept    <- cert,
    answer  <- [c \in Closer |-> call[c].ans]

\* What a close promises (SealOutcome): it answers that the session is sealed only with a
\* certificate of the directory in the store, which stays there, or when that certificate
\* could not be stored.
KeepsPromise == Outcome!Spec

=============================================================================
