---------------------------- MODULE RelayClient ----------------------------
(***************************************************************************)
(* AgentRelayClient: one agent's authenticated stream to one relay.  All   *)
(* its sessions submit their leaves over it, one at a time (#submitChain), *)
(* and an answer of the relay names neither session nor leaf: it settles   *)
(* whatever is pending.  A stream has a reader that outlives it, a timeout *)
(* replaces the stream, and a retry depends on what the client remembers   *)
(* of the session's assignment record.                                     *)
(***************************************************************************)
EXTENDS Naturals, Sequences, FiniteSets

CONSTANTS
    Session,
    Leaf,           \* the leaves submitted, each once
    SessionOf,      \* [Leaf -> Session]
    NoLeaf,
    MaxTries,       \* SESSION_NOT_FOUND_ATTEMPTS
    MaxThrottles,   \* RATE_LIMITED_ATTEMPTS
    MaxStreams,     \* bound: streams opened
    MaxFaults       \* bound: broken streams, refusals and destroyed sessions

ASSUME SessionOfAssumption == SessionOf \in [Leaf -> Session] /\ NoLeaf \notin Leaf
ASSUME LimitsAssumption ==
    {MaxTries, MaxThrottles, MaxStreams} \subseteq Nat \ {0} /\ MaxFaults \in Nat

VARIABLES
    \* the client
    chain,      \* #submitChain: the work queued, the current one first
    stream,     \* #stream, 0 for null
    readers,    \* streams whose reader has not ended
    registered, \* #sessions
    recorded, rejected, timedOut,   \* the flags of a session's entry
    result,     \* what submitLeaf resolved to
    closed,
    \* the network
    opened,     \* streams opened so far
    shut,       \* streams that have ended, at either side
    up, down,   \* frames under way, by stream
    \* the relay (external)
    known,      \* sessions it holds
    gone,       \* sessions it destroyed at some time: sealed, or swept when idle
    refused,    \* sessions whose assignment it refused
    log,        \* leaves in the order it gave them
    \* history
    faults,
    crossed,    \* the reader of a replaced stream settled work that was not its own
    ghost       \* a session the relay destroyed was presented to it again

clientVars == <<stream, readers, registered, recorded, rejected, timedOut, result, closed>>
relayVars  == <<known, gone, refused, log>>
vars == <<chain, clientVars, opened, shut, up, down, relayVars, faults, crossed, ghost>>

Reasons == {"ok", "relay_unavailable", "relay_assignment_rejected", "session_not_recorded",
            "relay_submit_send_failed", "relay_submit_timeout", "relay_stream_closed",
            "relay_ack_unverified", "session_not_found", "rate_limited",
            "relay_session_gone", "relay_client_closed"}

Phase == {"queued", "connect", "record", "recWait", "send", "sign", "ackWait", "throttle"}

\* A piece of work: a submit, or with no leaf an assignment record on its own.
Work == [s : Session, l : Leaf \cup {NoLeaf}, phase : Phase,
         before : BOOLEAN,           \* recordedBefore
         tries : Nat, throttles : Nat,
         on : Nat,                   \* the stream captured before signing
         why : Reasons \cup {"pending", "recorded", "refused", "closed"},
         n : Nat]                    \* what its promise was resolved with

UpFrame   == [kind : {"record", "submit"}, s : Session, l : Leaf \cup {NoLeaf}]
DownFrame == [kind : {"assignment_ok", "assignment_invalid", "ack", "session_not_found",
                      "rate_limited"},
              s : Session, l : Leaf \cup {NoLeaf}, n : Nat]

\* Types of every variable.
TypeOK ==
    /\ chain \in Seq(Work)
    /\ stream \in 0..MaxStreams /\ opened \in 0..MaxStreams
    /\ readers \subseteq 1..opened /\ shut \subseteq 1..opened
    /\ registered \subseteq Session /\ recorded \subseteq registered
    /\ rejected \subseteq registered /\ timedOut \subseteq registered
    /\ result \in [Leaf -> [why : Reasons \cup {"new", "queued"}, n : Nat]]
    /\ {closed, crossed, ghost} \subseteq BOOLEAN
    /\ up \in [1..MaxStreams -> Seq(UpFrame)] /\ down \in [1..MaxStreams -> Seq(DownFrame)]
    /\ {known, gone, refused} \subseteq SUBSET Session
    /\ log \in Seq(Leaf)
    /\ faults \in 0..MaxFaults

Init ==
    /\ chain = << >> /\ stream = 0 /\ readers = {} /\ registered = {}
    /\ recorded = {} /\ rejected = {} /\ timedOut = {}
    /\ result = [l \in Leaf |-> [why |-> "new", n |-> 0]]
    /\ closed = FALSE /\ opened = 0 /\ shut = {}
    /\ up = [r \in 1..MaxStreams |-> << >>] /\ down = [r \in 1..MaxStreams |-> << >>]
    /\ known = {} /\ gone = {} /\ refused = {} /\ log = << >>
    /\ faults = 0 /\ crossed = FALSE /\ ghost = FALSE

Fault == faults < MaxFaults /\ faults' = faults + 1

-----------------------------------------------------------------------------
(* The chain: work begins, is settled, is retried or resolves its caller.  *)

NewWork(s, l) ==
    [s |-> s, l |-> l, phase |-> "queued", before |-> FALSE, tries |-> 1, throttles |-> 0,
     on |-> 0, why |-> "pending", n |-> 0]

Cur == Head(chain)
At(phase) == chain # << >> /\ Cur.phase = phase
Become(w) == chain' = <<w>> \o Tail(chain)
Go(phase) == Become([Cur EXCEPT !.phase = phase])

\* A promise somebody waits on: #pendingAck or #pendingRecord is set.
Pending == (At("ackWait") \/ At("recWait")) /\ Cur.why = "pending"

\* registerSession presents the assignment eagerly.
RegisterSession(s) ==
    /\ s \notin registered
    /\ registered' = registered \cup {s}
    /\ chain' = Append(chain, NewWork(s, NoLeaf))
    /\ UNCHANGED <<stream, readers, recorded, rejected, timedOut, result, closed,
                   opened, shut, up, down, relayVars, faults, crossed, ghost>>

SubmitLeaf(l) ==
    /\ SessionOf[l] \in registered /\ result[l].why = "new"
    /\ result' = [result EXCEPT ![l].why = "queued"]
    /\ chain' = Append(chain, NewWork(SessionOf[l], l))
    /\ UNCHANGED <<stream, readers, registered, recorded, rejected, timedOut, closed,
                   opened, shut, up, down, relayVars, faults, crossed, ghost>>

\* The previous link of the chain resolved: doSubmit or doRecord starts.
Begin ==
    /\ At("queued")
    /\ Become([Cur EXCEPT !.phase = IF Cur.l = NoLeaf THEN "record" ELSE "connect",
                          !.before = Cur.s \in recorded])
    /\ UNCHANGED <<clientVars, opened, shut, up, down, relayVars, faults, crossed, ghost>>

\* Mutant of MayRepresent: a session recorded before is presented again.
MayRepresentAlways(why) ==
    why \in {"session_not_found", "session_not_recorded"} /\ Cur.tries < MaxTries

\* The first loop of doSubmit: only a session not recorded before this submit is
\* presented again.
MayRepresent(why) ==
    /\ why \in {"session_not_found", "session_not_recorded"} /\ ~Cur.before
    /\ Cur.tries < MaxTries /\ Cur.throttles = 0 /\ ~closed

MayWaitOut(why) == why = "rate_limited" /\ Cur.throttles + 1 < MaxThrottles /\ ~closed

\* One attempt ended with why; recs is the recorded flags it leaves.
Conclude(why, n, recs) ==
    \/ /\ Cur.l = NoLeaf
       /\ chain' = Tail(chain) /\ recorded' = recs /\ UNCHANGED result
    \/ /\ Cur.l # NoLeaf /\ MayRepresent(why)
       /\ Become([NewWork(Cur.s, Cur.l) EXCEPT !.phase = "connect", !.tries = Cur.tries + 1])
       /\ recorded' = recs \ {Cur.s} /\ UNCHANGED result
    \/ /\ Cur.l # NoLeaf /\ MayWaitOut(why)
       /\ Become([Cur EXCEPT !.phase = "throttle", !.throttles = @ + 1])
       /\ recorded' = recs /\ UNCHANGED result
    \/ /\ Cur.l # NoLeaf /\ ~MayRepresent(why) /\ ~MayWaitOut(why)
       /\ chain' = Tail(chain) /\ recorded' = recs
       /\ result' = [result EXCEPT ![Cur.l] =
             [why |-> IF Cur.before /\ why = "session_not_found" THEN "relay_session_gone" ELSE why,
              n |-> n]]

\* The relay's stated window is over.
ThrottleOver ==
    /\ At("throttle")
    /\ IF closed THEN /\ chain' = Tail(chain)
                      /\ result' = [result EXCEPT ![Cur.l].why = "rate_limited"]
       ELSE Go("connect") /\ UNCHANGED result
    /\ UNCHANGED <<stream, readers, registered, recorded, rejected, timedOut, closed,
                   opened, shut, up, down, relayVars, faults, crossed, ghost>>

-----------------------------------------------------------------------------
(* Streams.                                                                *)

\* #connect, for the current work or for the reconnect loop: single flight.
Connect ==
    /\ stream = 0 /\ ~closed /\ opened < MaxStreams
    /\ opened' = opened + 1 /\ stream' = opened' /\ readers' = readers \cup {opened'}
    /\ UNCHANGED <<chain, registered, recorded, rejected, timedOut, result, closed,
                   shut, up, down, relayVars, faults, crossed, ghost>>

\* doSubmitOnce finds the client connected, or cannot connect it.
Connected ==
    /\ At("connect")
    /\ \/ stream # 0 /\ ~closed /\ Go("record") /\ UNCHANGED <<result, recorded>>
       \/ /\ stream = 0 \/ closed
          /\ \E why \in IF closed THEN {"relay_client_closed"}
                        ELSE {"relay_unavailable", "rate_limited"} : Conclude(why, 0, recorded)
    /\ UNCHANGED <<stream, readers, registered, rejected, timedOut, closed,
                   opened, shut, up, down, relayVars, faults, crossed, ghost>>

\* doRecord returned false, with the flags of the session as given.
Unrecorded(rej, late) ==
    Conclude(IF Cur.s \in rej THEN "relay_assignment_rejected"
             ELSE IF Cur.s \in late THEN "relay_unavailable" ELSE "session_not_recorded",
             0, recorded)

\* doRecord: nothing to do, or the assignment is presented.
DoRecord ==
    /\ At("record")
    /\ \/ /\ Cur.s \in recorded /\ ~closed
          /\ IF Cur.l = NoLeaf THEN chain' = Tail(chain) ELSE Go("send")
          /\ UNCHANGED <<recorded, result, up, ghost>>
       \/ /\ \/ closed
             \/ Cur.s \notin recorded /\ (Cur.s \in rejected \/ stream \in shut \cup {0})
          /\ Unrecorded(rejected, timedOut) /\ UNCHANGED <<up, ghost>>
       \/ /\ ~closed /\ Cur.s \notin recorded \cup rejected /\ stream # 0
          /\ Become([Cur EXCEPT !.phase = "recWait", !.why = "pending"])
          /\ up' = IF stream \in shut THEN up
                   ELSE [up EXCEPT ![stream] =
                           Append(@, [kind |-> "record", s |-> Cur.s, l |-> NoLeaf])]
          /\ ghost' = (ghost \/ Cur.s \in gone)
          /\ UNCHANGED <<recorded, result>>
    /\ UNCHANGED <<stream, readers, registered, rejected, timedOut, closed, opened, shut,
                   down, relayVars, faults, crossed>>

\* #resetStream: drop the stream; its reader ends when it gets round to it.
ResetStream ==
    stream' = 0 /\ shut' = shut \cup ({stream} \ {0})

RecordTimeout ==
    /\ At("recWait") /\ Cur.why = "pending"
    /\ ResetStream
    /\ timedOut' = timedOut \cup {Cur.s}
    /\ Unrecorded(rejected, timedOut')
    /\ UNCHANGED <<readers, registered, rejected, closed, opened, up, down, relayVars,
                   faults, crossed, ghost>>

\* The promise doRecord awaits was resolved.
RecordAnswered ==
    /\ At("recWait") /\ Cur.why # "pending"
    /\ \/ /\ Cur.why = "recorded"
          /\ recorded' = recorded \cup {Cur.s} /\ timedOut' = timedOut \ {Cur.s}
          /\ IF Cur.l = NoLeaf THEN chain' = Tail(chain) ELSE Go("send")
          /\ UNCHANGED <<rejected, result>>
       \/ /\ Cur.why = "refused"
          /\ rejected' = rejected \cup {Cur.s}
          /\ Unrecorded(rejected', timedOut) /\ UNCHANGED timedOut
       \/ /\ Cur.why = "closed"
          /\ Unrecorded(rejected, timedOut) /\ UNCHANGED <<rejected, timedOut>>
    /\ UNCHANGED <<stream, readers, registered, closed, opened, shut, up, down, relayVars,
                   faults, crossed, ghost>>

\* The stream is read; then the leaf is signed, across an await.
CaptureStream ==
    /\ At("send")
    /\ IF stream = 0 THEN Conclude("relay_unavailable", 0, recorded)
       ELSE Become([Cur EXCEPT !.phase = "sign", !.on = stream]) /\ UNCHANGED <<recorded, result>>
    /\ UNCHANGED <<stream, readers, registered, rejected, timedOut, closed, opened, shut,
                   up, down, relayVars, faults, crossed, ghost>>

\* The leaf goes out on the stream captured before, which may have ended since.
SendLeaf ==
    /\ At("sign")
    /\ \/ /\ Cur.on \in shut
          /\ Conclude("relay_submit_send_failed", 0, recorded) /\ UNCHANGED up
       \/ /\ Become([Cur EXCEPT !.phase = "ackWait", !.why = "pending"])
          /\ up' = IF Cur.on \in shut THEN up
                   ELSE [up EXCEPT ![Cur.on] =
                           Append(@, [kind |-> "submit", s |-> Cur.s, l |-> Cur.l])]
          /\ UNCHANGED <<recorded, result>>
    /\ UNCHANGED <<stream, readers, registered, rejected, timedOut, closed, opened, shut,
                   down, relayVars, faults, crossed, ghost>>

\* Mutant of AckTimeout: the stream stays.
AckTimeoutKeepsStream ==
    /\ At("ackWait") /\ Cur.why = "pending"
    /\ Conclude("relay_submit_timeout", 0, recorded)
    /\ UNCHANGED <<stream, shut, readers, registered, rejected, timedOut, closed, opened, up, down,
                   relayVars, faults, crossed, ghost>>

\* Mutant of AckTimeout: no timer is armed.
AckTimeoutNever == FALSE /\ UNCHANGED vars

AckTimeout ==
    /\ At("ackWait") /\ Cur.why = "pending"
    /\ ResetStream
    /\ Conclude("relay_submit_timeout", 0, recorded)
    /\ UNCHANGED <<readers, registered, rejected, timedOut, closed, opened, up, down,
                   relayVars, faults, crossed, ghost>>

SubmitAnswered ==
    /\ At("ackWait") /\ Cur.why # "pending"
    /\ Conclude(Cur.why, Cur.n, recorded)
    /\ UNCHANGED <<stream, readers, registered, rejected, timedOut, closed, opened, shut,
                   up, down, relayVars, faults, crossed, ghost>>

-----------------------------------------------------------------------------
(* The reader of a stream.                                                 *)

\* Mutant of CaptureReceipt: the attestation is not checked against the leaf.
CaptureReceiptUnchecked(f) == "ok"

\* Mutant of CaptureReceipt: what is pending is resolved with the kind of the frame.
CaptureReceiptKind(f) == f.kind

\* captureReceipt: the relay's signature must cover the leaf that is pending.
CaptureReceipt(f) == IF f.l = Cur.l THEN "ok" ELSE "relay_ack_unverified"

\* Mutant of Settlement: a refused assignment counts as recorded.
SettlementLax(f) ==
    CASE f.kind \in {"assignment_ok", "assignment_invalid"} -> <<"recWait", "recorded">>
      [] f.kind = "ack" -> <<"ackWait", CaptureReceipt(f)>>
      [] OTHER -> <<"ackWait", f.kind>>

\* What a frame settles, and how: the pending record or the pending submit.
Settlement(f) ==
    CASE f.kind = "assignment_ok" -> <<"recWait", "recorded">>
      [] f.kind = "assignment_invalid" -> <<"recWait", "refused">>
      [] f.kind = "ack" -> <<"ackWait", CaptureReceipt(f)>>
      [] OTHER -> <<"ackWait", f.kind>>

\* #dispatch: an answer settles the promise of its kind that is pending, if any.
Dispatch(r) ==
    /\ r \in readers /\ stream = r /\ down[r] # << >>
    /\ LET f == Head(down[r])
       IN  IF Pending /\ At(IF f.kind \in {"assignment_ok", "assignment_invalid"}
                            THEN "recWait" ELSE "ackWait")
           THEN Become([Cur EXCEPT !.why = Settlement(f)[2], !.n = f.n])
           ELSE UNCHANGED chain
    /\ down' = [down EXCEPT ![r] = Tail(@)]
    /\ UNCHANGED <<clientVars, opened, shut, up, relayVars, faults, crossed, ghost>>

\* The reader ends: its stream did, or a frame came after the stream was replaced.
\* Either way it settles what is pending.
ReaderEnd(r) ==
    /\ r \in readers
    /\ IF stream = r THEN r \in shut /\ down[r] = << >> ELSE r \in shut \/ down[r] # << >>
    /\ readers' = readers \ {r}
    /\ stream' = IF stream = r THEN 0 ELSE stream
    /\ IF Pending THEN Become([Cur EXCEPT !.why = IF At("ackWait") THEN "relay_stream_closed"
                                                  ELSE "closed"])
       ELSE UNCHANGED chain
    /\ crossed' = (crossed \/ (Pending /\ stream # r))
    /\ UNCHANGED <<registered, recorded, rejected, timedOut, result, closed, opened, shut,
                   up, down, relayVars, faults, ghost>>

\* close: settle what is pending and drop the stream.
Close ==
    /\ ~closed /\ Fault
    /\ closed' = TRUE
    /\ ResetStream
    /\ IF Pending THEN Become([Cur EXCEPT !.why = IF At("ackWait") THEN "relay_client_closed"
                                                  ELSE "closed"])
       ELSE UNCHANGED chain
    /\ UNCHANGED <<readers, registered, recorded, rejected, timedOut, result, opened,
                   up, down, relayVars, crossed, ghost>>

-----------------------------------------------------------------------------
(* The relay and the network.                                              *)

\* The relay handles the next frame of a stream; an answer to a stream that has
\* ended may be lost.
RelayAnswer(r, kind, n) ==
    LET f == Head(up[r])
        sent == [down EXCEPT ![r] = Append(@, [kind |-> kind, s |-> f.s, l |-> f.l, n |-> n])]
    IN  /\ up' = [up EXCEPT ![r] = Tail(@)]
        /\ down' \in IF r \in shut THEN {down, sent} ELSE {sent}

RelayRecord(r) ==
    /\ up[r] # << >> /\ Head(up[r]).kind = "record"
    /\ LET s == Head(up[r]).s
       IN  \/ /\ RelayAnswer(r, "assignment_ok", 0)
              /\ s \notin refused
              /\ known' = known \cup {s}
              /\ UNCHANGED <<refused, faults>>
           \/ /\ s \notin known
              /\ IF s \in refused THEN UNCHANGED faults ELSE Fault
              /\ RelayAnswer(r, "assignment_invalid", 0)
              /\ refused' = refused \cup {s}
              /\ UNCHANGED known
    /\ UNCHANGED <<chain, clientVars, opened, shut, gone, log, crossed, ghost>>

RelaySubmit(r) ==
    /\ up[r] # << >> /\ Head(up[r]).kind = "submit"
    /\ LET f == Head(up[r])
       IN  \/ /\ f.s \in known
              /\ log' = Append(log, f.l) /\ RelayAnswer(r, "ack", Len(log'))
              /\ UNCHANGED faults
           \/ /\ f.s \notin known
              /\ RelayAnswer(r, "session_not_found", 0) /\ UNCHANGED <<log, faults>>
           \/ /\ Fault
              /\ RelayAnswer(r, "rate_limited", 0) /\ UNCHANGED log
    /\ UNCHANGED <<chain, clientVars, opened, shut, known, gone, refused, crossed, ghost>>

\* A session that has been spoken in is sealed, or swept when idle: the relay keeps
\* nothing of it.
RelayDestroy(s) ==
    /\ s \in known /\ Fault
    /\ \E i \in 1..Len(log) : SessionOf[log[i]] = s
    /\ known' = known \ {s} /\ gone' = gone \cup {s}
    /\ UNCHANGED <<chain, clientVars, opened, shut, up, down, refused, log, crossed, ghost>>

\* A stream breaks, with the frames on it or after them.
Break(r) ==
    /\ r \in (1..opened) \ shut /\ Fault
    /\ shut' = shut \cup {r}
    /\ up' \in {up, [up EXCEPT ![r] = << >>]}
    /\ down' \in {down, [down EXCEPT ![r] = << >>]}
    /\ UNCHANGED <<chain, clientVars, opened, relayVars, crossed, ghost>>

-----------------------------------------------------------------------------
ClientStep ==
    \/ Begin \/ Connected \/ ThrottleOver
    \/ DoRecord \/ RecordTimeout \/ RecordAnswered
    \/ CaptureStream \/ SendLeaf \/ AckTimeout \/ SubmitAnswered

Next ==
    \/ \E s \in Session : RegisterSession(s) \/ RelayDestroy(s)
    \/ \E l \in Leaf : SubmitLeaf(l)
    \/ ClientStep
    \/ Connect \/ Close
    \/ \E r \in 1..MaxStreams :
          \/ Dispatch(r) \/ ReaderEnd(r) \/ RelayRecord(r) \/ RelaySubmit(r) \/ Break(r)

Spec == Init /\ [][Next]_vars

\* Promises, timers and dial attempts always come to an end; the relay need not answer
\* and the network need not deliver.
FairSpec == Spec /\ WF_vars(ClientStep)

-----------------------------------------------------------------------------
(* Properties.                                                             *)

\* A submit that resolves ok is at the position it reports, whichever acknowledgement
\* settled it: no caller takes another leaf's position for its own (captureReceipt).
OkIsOrdered ==
    \A l \in Leaf : result[l].why = "ok" =>
        result[l].n \in 1..Len(log) /\ log[result[l].n] = l

\* A session the relay has destroyed is not made anew by a client that had recorded it: a
\* late submit does not resurrect a sealed session (recordedBefore in doSubmit).  Only
\* answers that settle another submit than theirs can bring that about.
GhostOnlyIfCrossed == ghost => crossed

\* Answers on their way on the current stream are for the work that is pending: the
\* matching by order is never off by one (the promise of resetStream).
Aligned ==
    stream # 0 => \A i \in 1..Len(down[stream]) :
        LET f == down[stream][i]
        IN  /\ i = 1 /\ Pending /\ f.s = Cur.s
            /\ IF f.kind \in {"assignment_ok", "assignment_invalid"} THEN At("recWait")
               ELSE At("ackWait") /\ f.l = Cur.l

\* No acknowledgement ever settles the submit of another leaf (what resetStream is for:
\* acknowledgements are matched by order alone).
NoForeignAck == \A l \in Leaf : result[l].why # "relay_ack_unverified"

\* The matching is lost only through the reader of a replaced stream: timeouts, breaks,
\* retries and reconnects by themselves keep it.
AlignedUnlessCrossed == ~crossed => Aligned

\* While it is not lost, what the client remembers of a session is what the relay said of
\* that session, and a session reported gone is gone.
AnswersAreTrue ==
    ~crossed =>
        /\ recorded \subseteq known \cup gone
        /\ rejected \subseteq refused
        /\ \A l \in Leaf : result[l].why = "relay_session_gone" => SessionOf[l] \in gone

\* Every submit resolves, whatever the relay does: one that is never answered does not
\* block the agent's other sessions behind it on the chain.
Settles == \A l \in Leaf : result[l].why = "queued" ~> result[l].why \in Reasons

=============================================================================
