--------------------------- MODULE SessionRecord ---------------------------
(***************************************************************************)
(* One CELLO session: two daemons, each with its own copy of the           *)
(* conversation (an append-only leaf tree), and the relay that orders it.  *)
(*                                                                         *)
(* A send asks the relay for a position (sendContent), puts the bytes on   *)
(* the direct content stream or parks them in the relay's mailbox, and     *)
(* then commits its own leaf (placeOwnLeaf).  The receiver verifies a      *)
(* frame, screens it across an await, and either appends its leaf or HOLDS *)
(* it behind a gap (ingestReceivedContent); acknowledgements, the          *)
(* time-to-fallback timer, the durable queue and the mailbox drain recover *)
(* what the direct path loses.  A crash keeps what is in the database and  *)
(* forgets every map.                                                      *)
(*                                                                         *)
(* Positions are the relay's sequence numbers 1, 2, ...; leaf index i of   *)
(* the code is position i+1 here.  A leaf is the content hash, so two      *)
(* messages with the same text have the same leaf: the hash covers the     *)
(* text and a salt agreed once per session.                                *)
(***************************************************************************)
EXTENDS Naturals, Sequences, FiniteSets

CONSTANTS
    Party,          \* the two daemons of the session
    Speakers,       \* bound: the daemons whose agent sends
    Content,        \* texts and document frames, identified with their content hashes
    Docs,           \* the document frames among them; the rest are cello_send messages
    MaxCopies,      \* bound: how often one content is sent in a behaviour
    MaxFaults,      \* bound: losses, timeouts and refusals in a behaviour
    MaxCrashes,     \* bound: daemon crashes in a behaviour
    MaxTroubles     \* bound: faults and crashes together

ASSUME PartyAssumption == \E a \in Party : \E b \in Party \ {a} : Party = {a, b}
ASSUME SpeakersAssumption == Speakers \subseteq Party
ASSUME DocsAssumption == Docs \subseteq Content
ASSUME BoundsAssumption == {MaxCopies, MaxFaults, MaxCrashes, MaxTroubles} \subseteq Nat

\* The counterparty of p.
Peer(p) == CHOOSE q \in Party : q # p

\* Position of a frame that carries no ordering record.
NoPos == 0

VARIABLES
    \* the relay (external)
    log,        \* leaves in the order it gave them: [from, c]
    leafq,      \* leaf_deliver frames on their way to p, as positions
    mailbox,    \* parked entries for p: [c, pos]
    \* the network between the daemons
    wire,       \* content frames in flight: [to, c, pos]
    ackw,       \* delivery acknowledgements in flight: [to, c]
    \* what a daemon keeps in its database
    tree,       \* session_tree_leaves: [from, c]
    heldRow,    \* held_content rows: [c, pos, from]
    rows,       \* awaiting-acknowledgement rows of the retry queue: [c, pos]
    acked,      \* delivery_acks, by content hash
    diverged,   \* markSessionDiverged
    annex,      \* content readable only from the sealed annex
    \* what a daemon keeps in memory
    held,       \* heldContent, a map from position: [c, pos, from]
    hydrated,   \* #heldRestored
    drained,    \* #heldReleased
    witnessed,  \* witnessedSeq, a map from content hash: [c, pos]
    ordered,    \* ownLeavesOrdered, a map from content hash: [c, pos]
    out,        \* sends in progress: [c, pos, st]
    awaiting,   \* awaitingAck, a map from content hash: [c, pos]
    screening,  \* frames between the two halves of ingest: [c, pos, via]
    counter,    \* unwitnessed leaves this side is counter-submitting
    \* history
    sends,      \* how often each content was sent
    faults, crashes,
    skewed,     \* some send went on without the position the relay may have given it
    seen,       \* positions p learnt of from the relay since it started
    told,       \* content p's own agent was told is delivered, parked or queued
    orphaned    \* content of p that was only in p's memory when p crashed

relayVars  == <<log, leafq>>
heldVars   == <<tree, heldRow, held, witnessed, hydrated, drained, annex>>
sendVars   == <<out, ordered, diverged, told>>
histVars   == <<sends, faults, crashes, skewed, seen, orphaned>>
vars == <<log, leafq, mailbox, wire, ackw, tree, heldRow, rows, acked, diverged,
          annex, held, hydrated, drained, witnessed, ordered, out, awaiting,
          screening, counter, sends, faults, crashes, skewed, seen, told, orphaned>>

-----------------------------------------------------------------------------
Frame    == [c : Content, pos : Nat]
Leaf     == [from : Party, c : Content]
HeldRec  == [c : Content, pos : Nat, from : Party]
Sending  == [c : Content, pos : Nat, st : {"submitted", "ready", "sent"}]
Ingress  == [c : Content, pos : Nat, via : {"direct", "park"}]

\* Types of every variable.
TypeOK ==
    /\ log \in Seq(Leaf)
    /\ leafq \in [Party -> Seq(Nat)]
    /\ mailbox \in [Party -> SUBSET Frame]
    /\ wire \subseteq [to : Party, c : Content, pos : Nat]
    /\ ackw \subseteq [to : Party, c : Content]
    /\ tree \in [Party -> Seq(Leaf)]
    /\ heldRow \in [Party -> SUBSET HeldRec]
    /\ held \in [Party -> SUBSET HeldRec]
    /\ rows \in [Party -> SUBSET Frame]
    /\ acked \in [Party -> SUBSET Content]
    /\ annex \in [Party -> SUBSET Content]
    /\ told \in [Party -> SUBSET Content]
    /\ orphaned \in [Party -> SUBSET Content]
    /\ counter \in [Party -> SUBSET Content]
    /\ witnessed \in [Party -> SUBSET Frame]
    /\ ordered \in [Party -> SUBSET Frame]
    /\ awaiting \in [Party -> SUBSET Frame]
    /\ out \in [Party -> SUBSET Sending]
    /\ screening \in [Party -> SUBSET Ingress]
    /\ seen \in [Party -> SUBSET Nat]
    /\ diverged \in [Party -> BOOLEAN]
    /\ hydrated \in [Party -> BOOLEAN]
    /\ drained \in [Party -> BOOLEAN]
    /\ skewed \in BOOLEAN
    /\ sends \in [Content -> Nat]
    /\ faults \in Nat /\ crashes \in Nat

Init ==
    /\ log = << >>
    /\ leafq = [p \in Party |-> << >>]
    /\ mailbox = [p \in Party |-> {}]
    /\ wire = {} /\ ackw = {}
    /\ tree = [p \in Party |-> << >>]
    /\ heldRow = [p \in Party |-> {}]
    /\ held = [p \in Party |-> {}]
    /\ rows = [p \in Party |-> {}]
    /\ acked = [p \in Party |-> {}]
    /\ annex = [p \in Party |-> {}]
    /\ told = [p \in Party |-> {}]
    /\ orphaned = [p \in Party |-> {}]
    /\ counter = [p \in Party |-> {}]
    /\ witnessed = [p \in Party |-> {}]
    /\ ordered = [p \in Party |-> {}]
    /\ awaiting = [p \in Party |-> {}]
    /\ out = [p \in Party |-> {}]
    /\ screening = [p \in Party |-> {}]
    /\ seen = [p \in Party |-> {}]
    /\ diverged = [p \in Party |-> FALSE]
    /\ hydrated = [p \in Party |-> FALSE]
    /\ drained = [p \in Party |-> FALSE]
    /\ skewed = FALSE
    /\ sends = [c \in Content |-> 0]
    /\ faults = 0 /\ crashes = 0

-----------------------------------------------------------------------------
(* Maps of the code as sets of records: by content hash, and by position.  *)

PutHash(m, f) == {x \in m : x.c # f.c} \cup {f}
DropHash(m, c) == {x \in m : x.c # c}
PutPos(h, e)  == {x \in h : x.pos # e.pos} \cup {e}

Leaves(t) == {t[i] : i \in 1..Len(t)}
Hashes(t) == {t[i].c : i \in 1..Len(t)}

\* What held-content.ts works on: tree, holds, their rows, witnesses, annex.
Side(p) == [t |-> tree[p], h |-> held[p], r |-> heldRow[p],
            w |-> witnessed[p], a |-> annex[p]]

\* restoreHeldContent: a row whose position the tree has passed is dropped if the
\* tree holds that very content there, and annexed if it holds something else.
RestoreHeld(s) ==
    LET passed == {x \in s.r : x.pos <= Len(s.t)}
    IN  [s EXCEPT !.h = @ \cup (s.r \ passed),
                  !.r = @ \ passed,
                  !.a = @ \cup {x.c : x \in {y \in passed : s.t[y.pos].c # y.c}}]

LeafOf(x) == [from |-> x.from, c |-> x.c]

\* The last position of the run of holds that starts right behind the tree.
RunEnd(s) ==
    CHOOSE k \in {Len(s.t)} \cup {x.pos : x \in s.h} :
        /\ k >= Len(s.t)
        /\ \A j \in (Len(s.t) + 1)..k : \E x \in s.h : x.pos = j
        /\ \A x \in s.h : x.pos # k + 1

\* releaseHeld: append that run, forgetting each hold and its row; a received
\* one also retires its witness.  Holds at positions already passed stay.
ReleaseHeld(p, s) ==
    LET end == RunEnd(s)
        run == {x \in s.h : Len(s.t) < x.pos /\ x.pos <= end}
    IN  [s EXCEPT
          !.t = [i \in 1..end |-> IF i <= Len(s.t) THEN s.t[i]
                                  ELSE LeafOf(CHOOSE x \in s.h : x.pos = i)],
          !.h = @ \ run,
          !.r = {x \in @ : ~(Len(s.t) < x.pos /\ x.pos <= end)},
          !.w = {x \in @ : \A y \in run : y.from # p => y.c # x.c}]

Hydrated(p) == IF hydrated[p] THEN Side(p) ELSE RestoreHeld(Side(p))

\* ensureHeldRestored: hydrate once, release once, per process.
EnsureHeldRestored(p) ==
    IF drained[p] THEN Hydrated(p) ELSE ReleaseHeld(p, Hydrated(p))

\* Write the outcome back; the process has hydrated and released.
Commit(p, s) ==
    /\ tree' = [tree EXCEPT ![p] = s.t]
    /\ held' = [held EXCEPT ![p] = s.h]
    /\ heldRow' = [heldRow EXCEPT ![p] = s.r]
    /\ witnessed' = [witnessed EXCEPT ![p] = s.w]
    /\ annex' = [annex EXCEPT ![p] = s.a]
    /\ hydrated' = [hydrated EXCEPT ![p] = TRUE]
    /\ drained' = [drained EXCEPT ![p] = TRUE]

\* One more thing goes wrong; the budget is a bound.
Fault ==
    faults < MaxFaults /\ faults + crashes < MaxTroubles /\ faults' = faults + 1

-----------------------------------------------------------------------------
(* Sending.                                                                *)

\* cello_send holds the session's claim while it sends, the relay client submits one
\* leaf at a time; one document frame at a time is a bound.
MaySend(p, c) ==
    /\ p \in Speakers /\ sends[c] < MaxCopies
    /\ \A o \in out[p] : (o.c \in Docs) # (c \in Docs) /\ o.st # "submitted"
    /\ sends' = [sends EXCEPT ![c] = @ + 1]

\* The relay accepts the hash, gives it the next position and forwards the leaf.
Submit(p, c) ==
    /\ MaySend(p, c)
    /\ log' = Append(log, [from |-> p, c |-> c])
    /\ leafq' = [leafq EXCEPT ![Peer(p)] = Append(@, Len(log) + 1)]
    /\ out' = [out EXCEPT ![p] = @ \cup
                 {[c |-> c, pos |-> Len(log) + 1, st |-> "submitted"]}]
    /\ UNCHANGED <<mailbox, wire, ackw, heldVars, rows, acked, diverged, ordered,
                   awaiting, screening, counter, faults, crashes, skewed, seen, told, orphaned>>

\* The relay cannot be reached: the send goes on unwitnessed.
SubmitUnreachable(p, c) ==
    /\ MaySend(p, c) /\ Fault
    /\ out' = [out EXCEPT ![p] = @ \cup
                 {[c |-> c, pos |-> NoPos, st |-> "ready"]}]
    /\ skewed' = TRUE
    /\ UNCHANGED <<relayVars, mailbox, wire, ackw, heldVars, rows, acked, diverged, ordered,
                   awaiting, screening, counter, crashes, seen, told, orphaned>>

\* Mutant of SubmitAck: the ordered leaf is not noted.
SubmitAckUnnoted(p, o) ==
    /\ o \in out[p] /\ o.st = "submitted"
    /\ out' = [out EXCEPT ![p] = (@ \ {o}) \cup {[o EXCEPT !.st = "ready"]}]
    /\ seen' = [seen EXCEPT ![p] = @ \cup {o.pos}]
    /\ UNCHANGED <<relayVars, mailbox, wire, ackw, heldVars, rows, acked, diverged, ordered,
                   awaiting, screening, counter, sends, faults, crashes, skewed, told, orphaned>>

\* hash_submit_ack arrives: the position is known (noteOwnLeafOrdered).
SubmitAck(p, o) ==
    /\ o \in out[p] /\ o.st = "submitted"
    /\ out' = [out EXCEPT ![p] = (@ \ {o}) \cup {[o EXCEPT !.st = "ready"]}]
    /\ ordered' = [ordered EXCEPT ![p] = PutHash(@, [c |-> o.c, pos |-> o.pos])]
    /\ seen' = [seen EXCEPT ![p] = @ \cup {o.pos}]
    /\ UNCHANGED <<relayVars, mailbox, wire, ackw, heldVars, rows, acked, diverged,
                   awaiting, screening, counter, sends, faults, crashes, skewed, told, orphaned>>

\* The ack does not come in time: relay_submit_timeout, and the relay has the leaf.
SubmitTimeout(p, o) ==
    /\ o \in out[p] /\ o.st = "submitted" /\ Fault
    /\ out' = [out EXCEPT ![p] = (@ \ {o}) \cup {[o EXCEPT !.st = "ready", !.pos = NoPos]}]
    /\ skewed' = TRUE
    /\ UNCHANGED <<relayVars, mailbox, wire, ackw, heldVars, rows, acked, diverged, ordered,
                   awaiting, screening, counter, sends, crashes, seen, told, orphaned>>

\* Mutant of DirectSend: nothing waits for the acknowledgement.
DirectSendUntracked(p, o) ==
    /\ o \in out[p] /\ o.st = "ready"
    /\ wire' = wire \cup {[to |-> Peer(p), c |-> o.c, pos |-> o.pos]}
    /\ out' = [out EXCEPT ![p] = (@ \ {o}) \cup {[o EXCEPT !.st = "sent"]}]
    /\ UNCHANGED <<relayVars, mailbox, ackw, heldVars, rows, acked, diverged, ordered,
                   awaiting, screening, counter, histVars, told>>

\* The bytes go on the direct stream; awaitingAck is armed before they do.
DirectSend(p, o) ==
    /\ o \in out[p] /\ o.st = "ready"
    /\ wire' = wire \cup {[to |-> Peer(p), c |-> o.c, pos |-> o.pos]}
    /\ awaiting' = [awaiting EXCEPT ![p] = PutHash(@, [c |-> o.c, pos |-> o.pos])]
    /\ out' = [out EXCEPT ![p] = (@ \ {o}) \cup {[o EXCEPT !.st = "sent"]}]
    /\ UNCHANGED <<relayVars, mailbox, ackw, heldVars, rows, acked, diverged, ordered,
                   screening, counter, histVars, told>>

\* The stream failed, perhaps after the bytes had left, and the relay took the copy.
ParkContent(p, o) ==
    /\ o \in out[p] /\ o.st = "ready"
    /\ \/ UNCHANGED <<wire, faults>>
       \/ wire' = wire \cup {[to |-> Peer(p), c |-> o.c, pos |-> o.pos]} /\ Fault
    /\ awaiting' = [awaiting EXCEPT ![p] = DropHash(@, o.c)]
    /\ mailbox' = [mailbox EXCEPT ![Peer(p)] = @ \cup {[c |-> o.c, pos |-> o.pos]}]
    /\ out' = [out EXCEPT ![p] = (@ \ {o}) \cup {[o EXCEPT !.st = "sent"]}]
    /\ UNCHANGED <<relayVars, ackw, heldVars, rows, acked, diverged, ordered,
                   screening, counter, sends, crashes, skewed, seen, orphaned, told>>

\* Mutant of PlaceAt: an own leaf always goes at the tail.
PlaceAtTail(p, s, c, pos) == [s EXCEPT !.t = Append(@, [from |-> p, c |-> c])]

\* placeOwnLeaf: append at the tail if the position is next, unknown or passed
\* (the last is a proven divergence); hold it durably if there is a gap ahead.
PlaceAt(p, s, c, pos) ==
    LET e == [c |-> c, pos |-> pos, from |-> p]
    IN  IF pos <= Len(s.t) + 1
        THEN [s EXCEPT !.t = Append(@, [from |-> p, c |-> c])]
        ELSE [s EXCEPT !.h = PutPos(@, e), !.r = PutPos(@, e)]

PlaceOwnLeaf(p, c, pos) ==
    LET s == EnsureHeldRestored(p)
    IN  /\ Commit(p, PlaceAt(p, s, c, pos))
        /\ diverged' = [diverged EXCEPT ![p] = @ \/ (pos # NoPos /\ pos <= Len(s.t))]
        /\ ordered' = [ordered EXCEPT ![p] = DropHash(@, c)]
        /\ told' = [told EXCEPT ![p] = @ \cup {c}]

\* sendContent returned ok and the caller commits its own leaf.
FinishSend(p, o) ==
    /\ o \in out[p] /\ o.st = "sent"
    /\ out' = [out EXCEPT ![p] = @ \ {o}]
    /\ PlaceOwnLeaf(p, o.c, o.pos)
    /\ UNCHANGED <<relayVars, mailbox, wire, ackw, rows, acked, awaiting, screening,
                   counter, histVars>>

\* Mutant of ParkRefused: a queued message's leaf is never placed.
ParkRefusedUnplaced(p, o) ==
    /\ o \in out[p] /\ o.st = "ready" /\ Fault
    /\ awaiting' = [awaiting EXCEPT ![p] = DropHash(@, o.c)]
    /\ rows' = [rows EXCEPT ![p] = @ \cup {[c |-> o.c, pos |-> o.pos]}]
    /\ out' = [out EXCEPT ![p] = @ \ {o}]
    /\ ordered' = [ordered EXCEPT ![p] = DropHash(@, o.c)]
    /\ UNCHANGED <<relayVars, mailbox, wire, ackw, heldVars, acked, screening, counter,
                   diverged, told, sends, crashes, skewed, seen, orphaned>>

\* The stream failed and the relay refused the copy too.  The durable queue takes
\* it unless it holds the same hash already; cello_send then commits its leaf, the
\* document transport never does.
ParkRefused(p, o) ==
    LET durable == \A x \in rows[p] : x.c # o.c
    IN  /\ o \in out[p] /\ o.st = "ready" /\ Fault
        /\ wire' \in {wire, wire \cup {[to |-> Peer(p), c |-> o.c, pos |-> o.pos]}}
        /\ awaiting' = [awaiting EXCEPT ![p] = DropHash(@, o.c)]
        /\ rows' = [rows EXCEPT ![p] = IF durable THEN @ \cup {[c |-> o.c, pos |-> o.pos]} ELSE @]
        /\ out' = [out EXCEPT ![p] = @ \ {o}]
        /\ IF durable /\ o.c \notin Docs
           THEN PlaceOwnLeaf(p, o.c, o.pos)
           ELSE /\ ordered' = [ordered EXCEPT ![p] = DropHash(@, o.c)]
                /\ UNCHANGED <<heldVars, diverged, told>>
        /\ UNCHANGED <<relayVars, mailbox, ackw, acked, screening, counter,
                       sends, crashes, skewed, seen, orphaned>>

-----------------------------------------------------------------------------
(* Receiving.                                                              *)

\* relayLeafHandler and recordWitnessedSequence: remember where the relay put the
\* counterparty's hash, unless the leaf is in place already.
LeafDeliver(p) ==
    /\ leafq[p] # << >>
    /\ LET k == Head(leafq[p])
           c == log[k].c
       IN  /\ leafq' = [leafq EXCEPT ![p] = Tail(@)]
           /\ seen' = [seen EXCEPT ![p] = @ \cup {k}]
           /\ witnessed' = IF k <= Len(tree[p]) /\ tree[p][k].c = c THEN witnessed
                           ELSE [witnessed EXCEPT ![p] = PutHash(@, [c |-> c, pos |-> k])]
    /\ UNCHANGED <<log, mailbox, wire, ackw, tree, heldRow, held, hydrated, drained, annex,
                   rows, acked, awaiting, screening, counter, sendVars,
                   sends, faults, crashes, skewed, orphaned>>

\* Dedupe before the screen: by position; by hash when the position has drifted
\* or there is none.
DupOnArrival(t, c, pos) ==
    IF pos # NoPos /\ pos > Len(t) THEN FALSE ELSE c \in Hashes(t)

\* Mutant of DupAfterScreen: no second look.
DupNeverAgain(t, c, pos) == FALSE

\* Dedupe after the screen.
DupAfterScreen(t, c, pos) ==
    IF pos # NoPos THEN pos <= Len(t) /\ t[pos].c = c ELSE c \in Hashes(t)

\* sendDeliveryAck: towards the author.
Ack(p, c) == ackw' = ackw \cup {[to |-> Peer(p), c |-> c]}

\* Mutant of ContentFrame: the frame is acknowledged when it arrives.
ContentFrameAcksEarly(p, f) ==
    /\ f \in wire /\ f.to = p
    /\ wire' = wire \ {f}
    /\ Ack(p, f.c)
    /\ Commit(p, EnsureHeldRestored(p))
    /\ screening' = [screening EXCEPT ![p] = @ \cup
                       {[c |-> f.c, pos |-> f.pos, via |-> "direct"]}]
    /\ UNCHANGED <<relayVars, mailbox, rows, acked, awaiting, counter, sendVars, histVars>>

\* A content frame arrives on the direct stream and goes to the screen.
ContentFrame(p, f) ==
    /\ f \in wire /\ f.to = p
    /\ wire' = wire \ {f}
    /\ IF DupOnArrival(tree[p], f.c, f.pos)
       THEN Ack(p, f.c) /\ UNCHANGED <<screening, heldVars>>
       ELSE /\ Commit(p, EnsureHeldRestored(p))
            /\ screening' = [screening EXCEPT ![p] = @ \cup
                               {[c |-> f.c, pos |-> f.pos, via |-> "direct"]}]
            /\ UNCHANGED ackw
    /\ UNCHANGED <<relayVars, mailbox, rows, acked, awaiting, counter, sendVars, histVars>>

\* Mutant of RecoverParked: the relay's copy is released as soon as it is pulled.
RecoverParkedConfirmsEarly(p, f) ==
    /\ f \in mailbox[p]
    /\ \A s \in screening[p] : s.via # "park"
    /\ mailbox' = [mailbox EXCEPT ![p] = DropHash(@, f.c)]
    /\ Commit(p, EnsureHeldRestored(p))
    /\ screening' = [screening EXCEPT ![p] = @ \cup
                       {[c |-> f.c, pos |-> f.pos, via |-> "park"]}]
    /\ UNCHANGED <<relayVars, wire, ackw, rows, acked, awaiting, counter, sendVars, histVars>>

\* The drain pulls a parked entry (recoverParkedEntry), one at a time per agent.
\* The relay's copy is released, by hash, only once the entry is in the tree.
RecoverParked(p, f) ==
    /\ f \in mailbox[p]
    /\ \A s \in screening[p] : s.via # "park"
    /\ IF DupOnArrival(tree[p], f.c, f.pos)
       THEN /\ Ack(p, f.c)
            /\ mailbox' = [mailbox EXCEPT ![p] = DropHash(@, f.c)]
            /\ UNCHANGED <<screening, heldVars>>
       ELSE /\ Commit(p, EnsureHeldRestored(p))
            /\ screening' = [screening EXCEPT ![p] = @ \cup
                               {[c |-> f.c, pos |-> f.pos, via |-> "park"]}]
            /\ UNCHANGED <<ackw, mailbox>>
    /\ UNCHANGED <<relayVars, wire, rows, acked, awaiting, counter, sendVars, histVars>>

\* The frame's own position, or the one the relay told us for this hash.
CanonicalPos(p, f) ==
    IF f.pos # NoPos THEN f.pos
    ELSE IF \E x \in witnessed[p] : x.c = f.c
         THEN (CHOOSE x \in witnessed[p] : x.c = f.c).pos
         ELSE NoPos

\* Mutant of AppendReceived: what is held behind the leaf stays held.
AppendReceivedUnreleased(p, s, c) ==
    [s EXCEPT !.t = Append(@, [from |-> Peer(p), c |-> c]), !.w = DropHash(@, c)]

\* Append a received leaf: its witness is retired, then the run behind it released.
AppendReceived(p, s, c) ==
    ReleaseHeld(p, [s EXCEPT !.t = Append(@, [from |-> Peer(p), c |-> c]), !.w = DropHash(@, c)])

HoldReceived(p, s, c, pos) ==
    LET e == [c |-> c, pos |-> pos, from |-> Peer(p)]
    IN  [s EXCEPT !.h = PutPos(@, e), !.r = PutPos(@, e)]

\* What ingest does for a frame it has let in: release the relay's copy and
\* acknowledge; a parked frame the screen blocked for good is not acknowledged.
Settle(p, f, verdict) ==
    /\ mailbox' = IF f.via = "park" THEN [mailbox EXCEPT ![p] = DropHash(@, f.c)]
                  ELSE mailbox
    /\ IF f.via = "park" /\ verdict = "block" THEN UNCHANGED ackw ELSE Ack(p, f.c)

\* The screen answers: "defer" drops the frame, "allow" and "block" both take a leaf.
\* A leaf that came without a position is counter-submitted to the relay.
ScreenVerdict(p, f, verdict) ==
    LET s == EnsureHeldRestored(p)
        pos == CanonicalPos(p, f)
    IN  /\ f \in screening[p]
        /\ screening' = [screening EXCEPT ![p] = @ \ {f}]
        /\ \/ /\ verdict = "defer" /\ Fault
              /\ UNCHANGED <<heldVars, mailbox, ackw, counter>>
           \/ /\ verdict # "defer" /\ DupAfterScreen(tree[p], f.c, f.pos)
              /\ Settle(p, f, verdict)
              /\ UNCHANGED <<heldVars, counter, faults>>
           \/ /\ verdict # "defer" /\ ~DupAfterScreen(tree[p], f.c, f.pos)
              /\ pos > Len(s.t) + 1
              /\ Commit(p, HoldReceived(p, s, f.c, pos))
              /\ UNCHANGED <<mailbox, ackw, counter, faults>>
           \/ /\ verdict # "defer" /\ ~DupAfterScreen(tree[p], f.c, f.pos)
              /\ pos <= Len(s.t) + 1
              /\ Commit(p, AppendReceived(p, s, f.c))
              /\ Settle(p, f, verdict)
              /\ counter' = IF f.pos = NoPos THEN [counter EXCEPT ![p] = @ \cup {f.c}]
                            ELSE counter
              /\ UNCHANGED faults
        /\ UNCHANGED <<relayVars, wire, rows, acked, awaiting, sendVars,
                       sends, crashes, skewed, seen, orphaned>>

\* witnessReceivedLeaf: the relay takes the author's leaf from us unless it has it.
CounterSubmit(p, c) ==
    /\ c \in counter[p]
    /\ counter' = [counter EXCEPT ![p] = @ \ {c}]
    /\ log' \in IF \E i \in 1..Len(log) : log[i] = [from |-> Peer(p), c |-> c]
                THEN {log}
                ELSE {log, Append(log, [from |-> Peer(p), c |-> c])}
    /\ UNCHANGED <<leafq, mailbox, wire, ackw, heldVars, rows, acked, awaiting, screening,
                   sendVars, histVars>>

-----------------------------------------------------------------------------
(* Acknowledgement, fallback and recovery.                                 *)

\* sentContentHashExists: a leaf of the tree with a 'sent' transcript row; a document
\* frame takes a leaf and no row.
TranscribedSent(p, c) == c \notin Docs /\ [from |-> p, c |-> c] \in Leaves(tree[p])

\* Mutant of DeliveryAck: the frame is filed instead of the hash it names.
DeliveryAckFilesFrame(p, a) ==
    /\ a \in ackw /\ a.to = p
    /\ ackw' = ackw \ {a}
    /\ acked' = [acked EXCEPT ![p] = @ \cup {a}]
    /\ awaiting' = [awaiting EXCEPT ![p] = DropHash(@, a.c)]
    /\ rows' = [rows EXCEPT ![p] = DropHash(@, a.c)]
    /\ UNCHANGED <<relayVars, mailbox, wire, heldVars, screening, counter, sendVars, histVars>>

\* onDeliveryAck: the first acknowledgement of a hash we sent is recorded, and
\* resolves the timer; resolving is what clears the durable row.
DeliveryAck(p, a) ==
    LET ours == (\E x \in awaiting[p] : x.c = a.c) \/ TranscribedSent(p, a.c)
        first == ours /\ a.c \notin acked[p]
        resolves == first /\ \E x \in awaiting[p] : x.c = a.c
    IN  /\ a \in ackw /\ a.to = p
        /\ ackw' = ackw \ {a}
        /\ acked' = [acked EXCEPT ![p] = IF first THEN @ \cup {a.c} ELSE @]
        /\ awaiting' = [awaiting EXCEPT ![p] = IF first THEN DropHash(@, a.c) ELSE @]
        /\ rows' = [rows EXCEPT ![p] = IF resolves THEN DropHash(@, a.c) ELSE @]
        /\ UNCHANGED <<relayVars, mailbox, wire, heldVars, screening, counter, sendVars, histVars>>

\* The stream breaks with the frame or the acknowledgement on it.
LoseFrame(f) ==
    /\ f \in wire /\ Fault
    /\ wire' = wire \ {f}
    /\ UNCHANGED <<relayVars, mailbox, ackw, heldVars, rows, acked, awaiting, screening,
                   counter, sendVars, sends, crashes, skewed, seen, orphaned>>

\* The stream to the relay breaks with a forwarded leaf on it.
LoseLeaf(p) ==
    /\ leafq[p] # << >> /\ Fault
    /\ leafq' = [leafq EXCEPT ![p] = Tail(@)]
    /\ UNCHANGED <<log, mailbox, wire, ackw, heldVars, rows, acked, awaiting, screening,
                   counter, sendVars, sends, crashes, skewed, seen, orphaned>>

LoseAck(a) ==
    /\ a \in ackw /\ Fault
    /\ ackw' = ackw \ {a}
    /\ UNCHANGED <<relayVars, mailbox, wire, heldVars, rows, acked, awaiting, screening,
                   counter, sendVars, sends, crashes, skewed, seen, orphaned>>

\* handleTtfExpiry: queue the content durably, then try to park it at once.
TtfExpiry(p, x) ==
    /\ x \in awaiting[p]
    /\ awaiting' = [awaiting EXCEPT ![p] = @ \ {x}]
    /\ rows' = [rows EXCEPT ![p] = IF \E y \in @ : y.c = x.c THEN @ ELSE @ \cup {x}]
    /\ \/ mailbox' = [mailbox EXCEPT ![Peer(p)] = @ \cup {x}] /\ UNCHANGED faults
       \/ Fault /\ UNCHANGED mailbox
    /\ UNCHANGED <<relayVars, wire, ackw, heldVars, acked, screening, counter, sendVars,
                   sends, crashes, skewed, seen, orphaned>>

\* Mutant of FlushAwaiting: the row goes although the relay did not take the content.
FlushAwaitingForgets(p, x) ==
    /\ x \in rows[p]
    /\ rows' = [rows EXCEPT ![p] = DropHash(@, x.c)]
    /\ UNCHANGED <<relayVars, mailbox, wire, ackw, heldVars, acked, awaiting, screening,
                   counter, sendVars, histVars>>

\* flushAwaitingContent at boot, on start-agent, or when a refusal's delay is over.
FlushAwaiting(p, x) ==
    /\ x \in rows[p]
    /\ rows' = [rows EXCEPT ![p] = DropHash(@, x.c)]
    /\ mailbox' = [mailbox EXCEPT ![Peer(p)] = @ \cup {x}]
    /\ UNCHANGED <<relayVars, wire, ackw, heldVars, acked, awaiting, screening, counter,
                   sendVars, histVars>>

\* sealReadiness: hydrates without releasing and drops spent markers.
ReadSealReadiness(p) ==
    LET s == Hydrated(p)
    IN  /\ held' = [held EXCEPT ![p] = s.h]
        /\ heldRow' = [heldRow EXCEPT ![p] = s.r]
        /\ annex' = [annex EXCEPT ![p] = s.a]
        /\ hydrated' = [hydrated EXCEPT ![p] = TRUE]
        /\ ordered' = [ordered EXCEPT ![p] = {x \in @ : x.pos > Len(tree[p])}]
        /\ UNCHANGED <<relayVars, mailbox, wire, ackw, tree, witnessed, drained, rows, acked,
                       awaiting, screening, counter, out, diverged, told, histVars>>

\* The daemon dies and comes back: the database is there, the maps are empty, and
\* frames that were on their way to it are gone.
Crash(p) ==
    /\ crashes < MaxCrashes /\ faults + crashes < MaxTroubles /\ crashes' = crashes + 1
    /\ leafq' = [leafq EXCEPT ![p] = << >>]
    /\ held' = [held EXCEPT ![p] = {}]
    /\ hydrated' = [hydrated EXCEPT ![p] = FALSE]
    /\ drained' = [drained EXCEPT ![p] = FALSE]
    /\ witnessed' = [witnessed EXCEPT ![p] = {}]
    /\ ordered' = [ordered EXCEPT ![p] = {}]
    /\ out' = [out EXCEPT ![p] = {}]
    /\ awaiting' = [awaiting EXCEPT ![p] = {}]
    /\ screening' = [screening EXCEPT ![p] = {}]
    /\ counter' = [counter EXCEPT ![p] = {}]
    /\ seen' = [seen EXCEPT ![p] = {}]
    /\ wire' = {f \in wire : f.to # p}
    /\ ackw' = {a \in ackw : a.to # p}
    /\ orphaned' = [orphaned EXCEPT ![p] = @ \cup {x.c : x \in awaiting[p]}]
    /\ UNCHANGED <<log, mailbox, tree, heldRow, rows, acked, diverged, annex, told,
                   sends, faults, skewed>>

-----------------------------------------------------------------------------
Next ==
    \/ \E p \in Party, c \in Content : Submit(p, c) \/ SubmitUnreachable(p, c)
    \/ \E p \in Party : \E o \in out[p] :
          \/ SubmitAck(p, o) \/ SubmitTimeout(p, o) \/ DirectSend(p, o)
          \/ ParkContent(p, o) \/ ParkRefused(p, o) \/ FinishSend(p, o)
    \/ \E p \in Party : LeafDeliver(p)
    \/ \E p \in Party : \E f \in wire : ContentFrame(p, f)
    \/ \E p \in Party : \E f \in mailbox[p] : RecoverParked(p, f)
    \/ \E p \in Party, v \in {"allow", "block", "defer"} : \E f \in screening[p] :
          ScreenVerdict(p, f, v)
    \/ \E p \in Party : \E c \in counter[p] : CounterSubmit(p, c)
    \/ \E p \in Party : \E a \in ackw : DeliveryAck(p, a)
    \/ \E f \in wire : LoseFrame(f)
    \/ \E a \in ackw : LoseAck(a)
    \/ \E p \in Party : LoseLeaf(p)
    \/ \E p \in Party : \E x \in awaiting[p] : TtfExpiry(p, x)
    \/ \E p \in Party : \E x \in rows[p] : FlushAwaiting(p, x)
    \/ \E p \in Party : ReadSealReadiness(p)
    \/ \E p \in Party : Crash(p)

Spec == Init /\ [][Next]_vars

\* What the event loop, the timers and the drain keep doing.  The drain pulls every
\* entry of the mailbox on each pass, so no content is passed over for ever; the durable
\* queue is flushed at boot, at every agent start and by the retry timer.
Fairness ==
    \A p \in Speakers :
        LET q == Peer(p)
        IN  /\ WF_vars(\E o \in out[p] : SubmitAck(p, o) \/ DirectSend(p, o) \/ FinishSend(p, o))
            /\ WF_vars(\E x \in awaiting[p] : TtfExpiry(p, x))
            /\ WF_vars(\E x \in rows[p] : FlushAwaiting(p, x))
            /\ WF_vars(\E f \in screening[q] : ScreenVerdict(q, f, "allow"))
            /\ \A c \in Content :
                  SF_vars(\E f \in mailbox[q] : f.c = c /\ RecoverParked(q, f))

FairSpec == Spec /\ Fairness

-----------------------------------------------------------------------------
(* Properties.                                                             *)

\* While no send has gone on without its position, each side's record is a prefix
\* of the relay's order, whatever interleaving, loss, retry or crash got it there:
\* placeOwnLeaf and ingestReceivedContent put a leaf only where the relay put it.
RecordMatchesRelay ==
    ~skewed => \A p \in Party :
                  /\ Len(tree[p]) <= Len(log)
                  /\ \A i \in 1..Len(tree[p]) : tree[p][i] = log[i]

Ordered == INSTANCE OrderedRecord WITH
    order  <- log,
    record <- tree,
    astray <- skewed

\* What a session promises its sides (OrderedRecord): a leaf once in a tree stays at its
\* place whatever is held, released, restored or crashes, and as long as no send has gone
\* on without its position each tree is extended only by what the relay has next.
FollowsOrder == Ordered!Spec

\* A recorded delivery acknowledgement is true: the counterparty has the leaf in its
\* durable tree, also after it crashed (sendDeliveryAck follows the append).
AckedIsDurable ==
    \A p \in Party : acked[p] \subseteq Hashes(tree[Peer(p)])

\* A message its author was told is delivered, parked or queued is still somewhere
\* from where the counterparty gets it: its tree, its holds, its annex, the mailbox,
\* the durable queue or the author's armed timer; or the author crashed with the
\* timer armed, which is the one way to lose it.
NothingLost ==
    \A p \in Party : \A c \in told[p] :
        \/ c \in Hashes(tree[Peer(p)]) \cup annex[Peer(p)] \cup orphaned[p]
        \/ \E x \in mailbox[Peer(p)] \cup rows[p] \cup awaiting[p] \cup heldRow[Peer(p)] :
              x.c = c

\* Whichever frames, forwarded leaves and acknowledgements never arrive while the daemons
\* run, a message its author was told is delivered, parked or queued gets into the
\* counterparty's record: the timer, the durable queue, the mailbox, its drain and the
\* release of holds between them always deliver.
Delivered ==
    \A p \in Speakers, c \in Content :
        c \in told[p] ~> c \in Hashes(tree[Peer(p)]) \cup annex[Peer(p)]

\* A message in the durable queue owns the position the relay witnessed for it: its leaf
\* is there, held for it, or about to be placed (the failure path of sendContent).  The
\* exceptions are a send cut short by a crash, and a document frame, whose transport
\* places nothing on a failure.
QueuedKeepsPosition ==
    crashes = 0 => \A p \in Party : \A x \in rows[p] :
        \/ x.c \in Docs \/ x.pos <= Len(tree[p])
        \/ \E y \in held[p] \cup heldRow[p] \cup out[p] : y.c = x.c /\ y.pos = x.pos

\* sealReadiness(...).ready, as it would answer now.
SealReady(p) ==
    /\ witnessed[p] = {}
    /\ Hydrated(p).h = {}
    /\ ~diverged[p]
    /\ \A x \in ordered[p] : x.pos <= Len(tree[p])

\* A side that reports itself ready to seal has every leaf it learnt of from the
\* relay since it started: it never signs a short record (sealReadiness's purpose).  Its
\* own document frames are left out, since one that was queued leaves no trace here.
ReadyMeansComplete ==
    \A p \in Party : ~skewed /\ SealReady(p) => \A k \in seen[p] :
        k <= Len(tree[p]) \/ (log[k].from = p /\ log[k].c \in Docs)

\* No text was sent a second time.
SentOnce == \A c \in Content : sends[c] <= 1

\* As far as it holds: the maps that sealReadiness counts (witnessedSeq, ownLeavesOrdered) are
\* keyed by content hash, so of two leaves with one text the later overwrites the earlier and
\* the first to be placed retires both.  While no text is repeated, ready means complete.
ReadyUnlessRepeated == SentOnce => ReadyMeansComplete

\* Content is held at the tail of the record, its gap closed, only behind an own leaf: that
\* is the one branch (placeOwnLeaf) that appends without releasing what is held behind, so
\* a received leaf, a restart and the first touch of the session always let it go.
HeldOnlyBehindOwn ==
    \A p \in Party : drained[p] => \A x \in held[p] :
        x.pos = Len(tree[p]) + 1 => x.pos > 1 /\ tree[p][x.pos - 1].from = p

=============================================================================
