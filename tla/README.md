# TLA+ models of cello-client

This directory models the life of a conversation in cello-client: how a session is opened,
how both sides agree on the salt of its hashes, how they end up with the same record, and
how it is closed. The modules cover the content path of the daemon, the relay client it
orders leaves through, the durable queue behind it, the agreement on the salt, the session's
row and node, the closes and certificates, and the opening of sessions over the standing
receiver. TLC checks the models on small instances; TLAPS proves for all sizes nearly every
safety property that TLC checks on a small instance (section 5 says which are left).

Paths below are relative to `src/core/daemon/src/` unless they start with `src/`.

## 1. The system

cello-client is a TypeScript monorepo. A **daemon** per operator holds the state and does
the work; a CLI and an MCP adapter talk to it over IPC. Agents of two daemons hold
**sessions**. A session is an append-only tree of leaves, one per message, kept by each
side on its own; a **relay** gives every leaf its position, and a seal at the end makes
both sides (and a directory of FROST signers) sign the root. If the two trees differ in
one leaf, the session cannot be sealed.

| Component | State | Operations | Talks to |
|---|---|---|---|
| content path: `session-content-send`, `-ingest`, `held-content`, `session-tree`, `session-delivery-acks`, `park-recovery` | tree, holds (memory and rows), witness map, markers of own ordered leaves, awaiting acknowledgements, `delivery_acks` | `sendContent`, `placeOwnLeaf`, `ingestReceivedContent`, `releaseHeld`, `ensureHeldRestored`, `recordWitnessedSequence`, `onDeliveryAck`, time-to-fallback, `recoverParkedEntry` | relay client, retry queue, gateway, the other daemon |
| relay client: `session-relay-client` | one stream, its readers, a chain of submits, what is pending, per-session flags | `registerSession`, `submitLeaf`, connect, record, dispatch, timeouts, reset, `close` | the relay; content path and seal call it |
| durable queue: `retry-queue`, `boot-parked-content` | one table, two families of arrays and counters, flushes in flight | `enqueue`, `enqueueAwaitingContent`, `markContentAcked`, `drainAwaitingToPark`, `flushAwaitingContent`, reaping, `loadFromDb` | content path, relay mailbox |
| seal: `session-seal`, `close-session-handler`, `seal-*`, `restart-seal-resolver` | ceremony lock, waiters, marker of the closing leaf, seal leaf store, certificates | readiness, bilateral, unilateral and carried close, force, automatic answer, restart resolution | relay client, directory, session lifecycle |
| session lifecycle: `session-node-manager`, `session-lifecycle`, `session-records` | active nodes (32 at most), rows, seeds, freezes | teardown, retirement, interruption, revival, freeze, abandonment, expiry | everything |
| session opening: `inbound-`, `outbound-sessions`, `standing-receivers` | standing receiver, offers, reservations, accept chain, request slot, announcements | offer, assign, accept, request, promote, announce, stop and start of the agent | signaling, lifecycle |
| salt agreement: `session-salts`, `session-salt-agreement` | own half, salt row, counters of hashes, latches | announce, derive, repair, confirm, suspend, erase, close adoption, freeze | content path, lifecycle |
| mailbox drain: `content-park*`, `park-envelope`, `park-refusals` | refusal memo, drains in flight | deposit, pull, confirm | content path, relay |
| signaling: `src/core/transport/src/signaling-manager.ts`, `signaling-*` | connection, pending requests | connect, reconnect, dispatch | the directory |
| start-up: `singleton-lock`, `connect-or-start`, `boot-*` | lock, socket | acquire, probe, spawn | CLI |
| submission retry: `submission-retry` | queue of 32, timer | pump, back-off | signaling |
| documents, channels | amendments, logs, membership | propose, sign, reconcile; publish, collect | content path; relay |
| the rest: identity, policy, trust signals, notices, gateway, crypto, wire types, CLI, IPC | stores, pure functions | | |

**What is hard.** Node.js runs one thing at a time, so the interleavings are those of
awaits: a frame is in the screen while its twin comes out of the mailbox; a flush awaits
the relay while the array it walks is replaced; a submit is signed while its stream is
reset; a reader outlives its stream; a promotion awaits the eviction of peers and then
deletes a map entry that is another's; a teardown evicts what a submission under way relies
on. Between daemons frames are lost, late, doubled and
out of order. A crash keeps SQLite and forgets every map. What must hold:

* content path: both records follow the relay's order; acknowledged means durable at the
  other side; nothing reported as sent is forgotten; what is held is released; a side that
  says it is ready to seal lacks no leaf it knows of;
* relay client: an answer settles the submit it answers; a retry never makes a destroyed
  session anew; a submit that is never answered blocks nobody for ever;
* durable queue: accepted content keeps its row and can be found until it is parked or
  acknowledged, in order; a flush asked for is made;
* seal: at most one closing leaf, closes that exclude each other and end, an answer "sealed"
  only with the directory's certificate, a terminal row that stays;
* lifecycle, opening: every node is owned and will be stopped, a receiver serves one session,
  an agent taken offline ends up with neither, an accepted session is announced once, the
  receiver comes back;
* salt: every message of a side under one rule, both sides the same salt, no salt erased that
  a leaf needs, a freeze only where the halves are gone, an exchange that ends;
* signaling, start-up, submission: every request is answered or times out; one daemon per
  directory; a submission is retried until it is answered, in a bounded queue.

`PROJECT.json` lists every component with its status, and under `hazards` the lines where
these go wrong, with the properties that watch them.

## 2. Modules

### SessionRecord: the conversation

One session, two daemons, the relay and both ways between them. It composes sending,
receiving, acknowledging, parking and restarting, because the properties are about all of
them together. Tree, hold rows, awaiting rows, `delivery_acks`, divergence and the annex
survive a crash; the rest are the maps of `session-content-context.ts`. Divergence is the
column `diverged_at`, read back at boot (`session-records.ts:991`, called at
`session-schema.ts:727`): the comment at `session-node-manager.ts:2071-2075` that calls it
not yet durable predates the column.

A step ends where the code yields. `sendContent` is `Submit` (the hash reaches the relay),
then `SubmitAck` (`noteOwnLeafOrdered`), `SubmitTimeout` or at once `SubmitUnreachable`,
then `DirectSend`, `ParkContent` or `ParkRefused`, and `FinishSend` when its caller places
the leaf. Ingest is `ContentFrame` or `RecoverParked` up to the screen's await and
`ScreenVerdict` after it; that second half is the code's own atomic section and decides
between duplicate, hold and append and releases the run behind. `EnsureHeldRestored`,
`ReleaseHeld` and `PlaceAt` are the functions of `held-content.ts` and `placeOwnLeaf` on a
record of one side's maps, which `Commit` writes back. The relay's leaf forwarding
(`leafq`), mailbox and log are external, modelled as the client uses them.

Abstractions: a content is its hash (the hash covers text and session salt, so equal texts
are equal contents); position 0 is "none"; leaf index i of the code is position i + 1.
Frames are authentic. `Docs` are contents sent by the document transport, which takes a
leaf but no transcript row and places no leaf when everything failed. History variables
(`seen`, `told`, `orphaned`, `skewed`, counters) are read by no action except for bounds.

`skewed` marks that some send went on without the position the relay may have given it
(relay unreachable or a submit timeout). The code appends such a leaf at the tail by
design, and the record may then differ from the relay's order; `RecordMatchesRelay` and
`ReadyMeansComplete` speak of the other behaviours. What is outstanding is kept by content hash,
so readiness is complete only while no text is sent twice: `ReadyUnlessRepeated` says so, and
`ReadyMeansComplete` alone is violated.

`OrderedRecord` is what a session promises its two sides, in three actions: the relay orders a
leaf, a side extends its record (never rewrites it, and until a side went astray only with what
the relay has next), a side goes astray. SessionRecord implements it (`FollowsOrder`), with
`log`, `tree` and `skewed` for its variables; holds, restarts, copies and retries are stutters.

### RelayClient: one stream, many sessions

`chain` is `#submitChain` with the current work first and its place in
`#doSubmit`/`#doSubmitOnce`/`#doRecord` as `phase`; each await is a phase. `stream` is
`#stream`; `readers` are the reader loops still running, which is more than one after a
reset; `Dispatch` and `ReaderEnd` are the loop body and its `finally`. `RegisterSession`,
`SubmitLeaf` and `Close` are the callers. The relay answers frames of a stream in order,
may forget sessions (`RelayDestroy`) and may never answer; streams break with or before
the frames on them. Its frames carry neither session nor leaf as far as the client's
matching goes; the model's frames carry them so that properties can tell. `crossed`
(history) marks that the reader of a replaced stream settled or discarded the work that the
current stream is waited on for; `ghost` that a session the relay has destroyed was presented
to it again.

### RetryQueue: the durable queue

Rows of one session in the table, and the arrays memory finds through its two maps. Arrays
have identities because `drainAwaitingToPark` keeps one across awaits. A flush has a key
(`"*"` or an agent) and runs one pass at a time per key with one deferred. Statements may
fail one by one. `Restart` is `loadFromDb` followed by the reaping of terminal sessions.
`ByPos` is its `ORDER BY position`: positions are distinct, so there is one such order.
It details what SessionRecord calls `rows` (there `FlushAwaiting` is one step and always
finds its row; the exception `dropped` below says when that is too kind to the code).

### SessionLifecycle: the row and the node

`status` is the row, `seed` the identity in `sessionSeeds`, `node` the entry of `activeNodes`,
`running` the nodes that are up. An operation that waits for a node to stop or start, or for
the relay to take back a reservation, is a record in `ops` with the node it read; its second
half (`Destroyed`, `Released`, `Retired`, `ReviveBuilt`, `Revived`, `Expired`) acts on the map
by key and on the row without another look, as the code does. `WriteStatus` is
`updateSessionStatus`: only a write of "sealed" looks at the row. `displaced` (history) marks
that one operation removed or overwrote another's map entry.

### SealClose: closing the session

EXTENDS SessionLifecycle. `call[p].at` is the await a close stands at: the readiness `gate`,
the `broker`, the directory's interrupted `flow`, `sent` (the closing leaf in the relay
client), `carry` and `sign` (closing over carried evidence), `await` (the bilateral
certificate against its deadline), `key` and `uni` (the unilateral request), `pull`, `force`.
`Answerer` is `maybeAutoAcknowledgeSeal`. `held` is `sealInterruptedInProgress`, `waiter` and
`uniWaiter` the two waiter maps, `mark` the entry of `responderSealSubmitted`, `carry` the seal
leaf store, `cert` the stored certificate. Listeners (`SealedArrives`, `ConfirmedArrives`,
`ConfirmedVerified`, `ToldArrives`, `UpgradedArrives`, ...) act on waiters and row; the
counterparty, the relay (`wire`, `log`) and the directory (`dir`, `mail`) are external. The
verdict of readiness, of a root against the own tree, and of a frontier is a choice.
`silent` (history) marks a submission that may be ordered though nothing remembers it, and the
leaves that are built by design when the relay gave no answer.

### SealOutcome: what a close promises

The abstract specification: the directory decides once; a close answers "sealed" only with the
certificate of that decision in the store, or one that came and could not be stored. SealClose
implements it with `outcome <- dir`, `kept <- cert`, `answer <- call[c].ans` (`KeepsPromise`).

### SessionOpening: from an offer or a request to a session

One agent. `recv`, `creating`, `attempt`, `removing` are the maps of `standing-receivers.ts`;
`step[s]` is the await the promotion of a session stands at, `chain` and `inFlight` those of
`inbound-sessions.ts`, `slot` the request's single-flight entry, `gate[n]` the peer a node's
gater admits. `asked` are reservations under way with the receiver they read. The directory, the
relay and the counterparties are choices: an assignment may come without an offer, twice, for
another dialer, or never. `AwaitSession` leaves the announcements of ended sessions behind the
oldest open one where they are, while `reapExpiredInboundSessions` drops them at once: a session
that has ended stays so, and nothing else reads them. History flags name what goes wrong by the
code's own doing: `raced` (a receiver promoted or offered while a promotion had it, or put back
by a reservation), `late` (the agent stopped under a promotion or a reservation), `unheard`
(started while the removal of a receiver was pending). `overtaken` are, while the agent is
offline, the sessions whose promotion or reservation the stop overtook, and those begun since:
what an offline agent may still get is stated by them (`OfflineIsOff`), while the unconditional
promise of the stop is `OfflineMeansOff`.

### SaltAgreement: the salt and the rule of each message

Two daemons. `mem[p]` is what `SessionSalts` has in memory for the session (own half,
suspension, the two counters of hashes, the latches, a pending agreement), `salt` the column
`content_salt`, `tree` the rules of the leaves. Frames are a bag without order, since each has
a stream of its own. The salt of two halves is the set of the two, so the derivation is taken
to be injective and a fingerprint to name its salt. `Receive` is `onPeerSaltFrame` with
`handleSaltFrame`, one action per cell of its table; `Send`, `Abandon`, `Place`, `Deliver` are
a message from its hash to its leaves; `Connect`, `Interrupt`, `TearDown`, `Restart`, `Freeze`
and `Revive` what happens to nodes and memory. Adoption that a hold or a queued message closes
is closed by `Place` here: the message is counted until then. `cut` (history) are messages
whose claim an eviction dropped, `spoilt` says that a fault of the exchange happened since the
peers attached.

The MC modules instantiate these for TLC. The proofs are in modules of their own, named after
the module they are about: `SessionRecordProofs` and, on top of it, `SessionRecordLossProofs`,
`RelayClientProofs`, `RetryQueueProofs`, `SealCloseProofs`, `SessionOpeningProofs` and
`SaltAgreementProofs`.

## 3. Runs

| Run | What it asks | Answer |
|---|---|---|
| `record` | two messages, of one side or both; one loss, timeout, refusal, deferral or crash | `OrderedRecord` is implemented; no loss, acknowledgement, readiness, place of queued content and release of holds are right |
| `record_live` | a message and a document frame of one side; frames may never arrive | both get delivered |
| `record_repeat` | one text sent twice | **violated**: a side that lacks a leaf is ready to seal |
| `relay_client` | two leaves of a session beside a second session, two streams, two faults, a relay that may stay silent | matching, truth and no ghost session, until the reader of a replaced stream interferes; every submit resolves |
| `relay_shift` | no fault, timeouts only | **violated**: another leaf's acknowledgement |
| `queue` | two contents, two direct messages, cap 1, one failed statement, one restart | order, durability, deferred passes |
| `seal_close` | two closes, the automatic answer, teardowns, revivals, certificates, restarts | one closing leaf, exclusion, waiters, no stray node, closes end, `SealOutcome` is implemented |
| `seal_twice` | a teardown during a submission | **violated**: two submissions of a closing leaf at once |
| `opening` | two offered and two requested sessions, failures, stops | receivers are shared or leaked only in the named races; an offline agent keeps only what the stop overtook; announcements; chain and receiver come back |
| `opening_offline` | a stop during an accept | **violated**: a receiver runs for an agent that is offline |
| `salt` | messages, reattachments, lost frames, failed statements, teardowns, restarts | one rule per side, shared salt, freezes only after evictions, repairs end |
| `salt_echo` | no message, two failures | **violated**: closed adoption is echoed for ever |

**Bounds and why they are enough.** Two daemons are the protocol. Two contents are the fewest
that can be out of order, held, or collide in a map; every property of the record relates at
most two leaves. One fault or one crash reaches each recovery path (`MaxTroubles` bounds the two
together); runs that need neither have none. With a document frame in place of one message,
`record` was checked by hand (2.5 million states). `MaxTries` and `MaxThrottles` are 2, the
fewest with a retry; `MaxStreams` is 2, the fewest with a replaced stream. In `relay_client` the
second session has a record to make and no leaf, which is what a session needs to share the
chain and to be destroyed; two faults let a break meet a refusal or a destroyed session. With
leaves of both sessions the liveness property takes too long, and its safety properties need
none: they are proved for any leaves and sessions (section 5). `relay_shift` has a third leaf,
of the second session, since a shift needs one that timed out, one that is settled wrongly and
one that gets its answer. `record` has each text once and `record_repeat` one text twice. Cap 1
makes every second direct message an eviction; two flushers are the two keys.

`seal_close` has two closes, because exclusion and stolen waiters need two, two closing
leaves, because the faults are about a second one, and two nodes, a displaced one and its
successor. `MaxTries` is one budget for closes begun, leaves signed, nodes built anew and
events: any three of them together, so every pair of hazards meets with a close under way.
`seal_twice` has one more. In `opening`, `MaxEvents` is one budget for offers, assignments,
requests, stops and failures; three reach each of the flags above, and four were checked by
hand without the liveness properties (14 million states). `MaxNodes` is 3; a behaviour that
needs more stops there and is excepted from `WantedGetsReceiver`. In `salt`, `MaxEvents` is one
budget for messages and events beside the first attachment: two messages and one event, one
message and two, or three events. Two messages are what the rule of a transcript needs, three
events reach a freeze (a teardown, an attachment, and one more). By hand, 4 events with 2
messages passed as well. Symmetry is
used only without liveness and only over contents, daemons, nonces and flusher keys that
no action tells apart. Deadlock is not checked: every instance ends when its sends are
used up, and the daemons then rest.

**Fairness.** `Delivered` assumes that sends in progress go on (promises resolve), that
armed timers fire, that the durable queue is flushed again (boot, agent start, the park
retry timer), that the screen answers every frame it has and in the end allows it, and
that the drain pulls every mailbox entry again and again (reconnect and backstop timer;
strong, because the drain and the direct path take turns at the screen). Nothing is
assumed of direct frames, forwarded leaves and acknowledgements: they may stay under way
for ever, which is how loss is covered in that run. `Settles` assumes only that the
client's own steps are taken: timers fire, dials end. The relay and the network owe
nothing. `ClosesEnd` and the liveness of `opening` assume that the daemon goes on with what it
has under way (`DaemonStep`): every await in it has a deadline or is the start or stop of a
node; frames, new closes, offers and restarts owe nothing. `QuietUnlessEchoed` and `Quiesces`
assume that some frame in flight is handled in the end and that a freeze, which awaits its
notice and the stop of a node, is completed.

## 4. Findings

1. **A repeated text hides a missing leaf** (`record_repeat`). `recordWitnessedSequence`
   (`session-content-ingest.ts:1161`) keys what is outstanding by content hash. When the relay's
   copies of two leaves with one text come before the messages, the second overwrites the
   first, and the first message to be placed deletes the entry (1426). `sealReadiness`, which
   takes the size of that map for the number of missing leaves (`session-seal.ts:1075-1079`),
   says yes with one leaf missing. Messages that match byte for byte are an ordinary case to the
   code (`session-content-ingest.ts:507-518`). `ReadyUnlessRepeated` says that nothing else does
   this.
2. **The reader of a replaced stream settles the next submit** (`relay_shift`).
   `session-relay-client.ts:2481` lacks the check of line 2480. The shift that
   `#resetStream` exists to prevent happens: one submit is reported closed and the next
   unverified, both of which the relay ordered.
3. **Two closing leaves** (`seal_twice`). `evictSessionCaches`
   (`session-node-manager.ts:1946`) drops the marker of a closing leaf whose submission is
   under way. The automatic answer, which waited for its broker, finds nothing and submits
   another. `OneClosingLeaf` says when nothing of the kind happens: as long as the relay
   answers what was submitted and no teardown falls into a submission.
4. **Closed adoption is echoed** (`salt_echo`). `session-salt-agreement.ts:456` answers
   `adoption_closed` whenever the own adoption is open, which neither end of the exchange
   changes. It needs a side that says so without having hashed anything: one that gave up
   asking, or one whose frontier could not be read for a moment.
5. **A receiver for an offline agent** (`opening_offline`). A stop overtakes an accept that
   awaits; `acceptSession` then finds no receiver and asks for one (`session-lifecycle.ts:373`)
   without looking whether the agent still wants it, and it is built and stays. A request of the
   agent's own that was under way, or a document delivery, which asks no questions about the
   agent, then opens a session over it. `OfflineIsOff` says that this, or a reservation that
   puts a receiver back, is the only way: every other accept, request, build, pause and session
   ends with the stop.

The passing properties say how far each goes: `AlignedUnlessCrossed`, `AnswersAreTrue` and
`GhostOnlyIfCrossed` hold whenever 2 has not happened, and so the shift is the only thing that
makes the client present a destroyed session anew: with the readers of two replaced streams
(three streams and four leaves, a behaviour found by hand outside the bounds of the run) it
takes a refusal for the wrong submit, and sends that again. `OkIsOrdered` holds even then,
because the acknowledgement's signature is checked against the pending leaf; `QuietUnlessEchoed`
says that nothing but 4 keeps an exchange going.

**Observed on the way.** These are behaviours the models have and the properties except by
name; each is a fact of the code, whether or not a comment promises otherwise.

* Opening, `raced`: `createSessionNode` (`session-lifecycle.ts:207-223`) and `acceptSession`
  (370-455) read the receiver, await the eviction of its peers, and delete the entry by key.
  Another promotion, or `admitOfferedDialer`, finds the same receiver meanwhile;
  `takeReservationForSession` (`standing-receivers.ts:396`) writes back the one it read
  seconds before. `inbound-sessions.ts:618` and `standing-receivers.ts:673` take the consumption
  to be synchronous.
* Opening, `unheard`: stopping and starting an agent while its receiver is being built leaves
  it without one: `ensureStandingReceiver` returns at 840, before it clears the pending
  removal at 843.
* Opening, `late`: a promotion that a stop overtakes keeps the node the stop has just stopped
  as that of a live session, or leaves one running that nobody stops.
* Opening: the return for an offline agent (`inbound-sessions.ts:729-733`) is before the try
  whose finally clears `inboundInFlight`, so the id stays there. A refused assignment leaves
  the offered dialer admitted. Two requests can overlap, since the slot is looked at
  (`outbound-sessions.ts:908`) two awaits before it is claimed (1017), and any
  `session_assignment` settles every request that waits (295).
* Closing: a row that is terminal can be written over by what read it before
  (`FinalUnlessStale` names the three operations and the forced close).
* Content: when the leaf that closes a gap is the side's own, `placeOwnLeaf`
  (`session-content-send.ts:1133`) appends it and does not call `releaseHeld`, contrary to
  `held-content.ts:5-7` ("HELD until the gap ahead of it closes, then released"). The message
  behind it stays invisible, unacknowledged and in the way of a seal until another message is
  received or the daemon restarts. `HeldOnlyBehindOwn` excepts this branch and holds of all
  others.
* Content: a document frame that failed is queued durably and never placed, and a crash
  between queueing and placing does the same to a message: a hole in the own record.
* Queue, `dropped`: a flush deletes the map entry by key after its awaits
  (`retry-queue.ts:836`), which may be another array by then; its content is durable and is
  found again after a restart.
* Salt, `spoilt`: `resumeSalt` acts on a fingerprint that other frames have overtaken: it
  resumes a salt the peer has erased, or erases one (`session-salts.ts:1155-1163`) that the
  peer keeps; messages are refused until the peers attach again. A half that is handled
  before the own announcement makes the peer's fingerprint come twice, and the side without a
  salt gives up without any fault: the content handler is registered
  (`session-lifecycle.ts:472`) before the liveness wiring (519).
* Salt, `cut`: `evictSession` (`session-salts.ts:1588`) forgets hashes whose messages are under
  way, and abandoning one of them takes back the claim of another.
* Salt: a teardown of the side that has not derived yet makes it mint a new half; both derive
  different salts and freeze, which the header of `session-salt-agreement.ts` does not count
  among the unrepairable cases. `FrozenOnlyIfEvicted` says that nothing but an eviction leads
  there.

## 5. Proofs

`SessionRecordProofs` proves, for any two daemons, any contents, and any number of sends,
faults and crashes:

* `TypeCorrect`: `Spec => []TypeOK`;
* `RecordFollows`: `Spec => FollowsOrder`, that is, SessionRecord implements `OrderedRecord`;
* `RecordSafe`: `Spec => []RecordMatchesRelay`, what of this can be said of one state;
* `AckSafe`: `Spec => []AckedIsDurable`.

They rest on the assumptions of `SessionRecord` (two daemons, speakers and documents are
subsets, bounds are naturals) and on nothing else. All follow from one inductive invariant
(`Invariance`), since none is inductive as it stands:

* `PositionsOK`: every copy of a message, be it a send in progress, a frame, a mailbox
  entry, a row, a hold or a witness, has either no position or the one where the relay's
  log has exactly that leaf. The log only grows, so a copy once right stays right.
* `OrderOK`: without a skewed send every copy has a position, both trees are prefixes of
  the log, and a send in progress owns a position that is neither placed nor held, no two
  the same one. This is what makes the "next" branch of `placeOwnLeaf` right and its
  "behind" branch unreachable.
* `DrainedOK`: a frame is screened only after holds were restored and released.
* `AcksOK`: an acknowledgement under way or recorded is of a leaf in the tree.

The lemmas go from the operators (`RunEndFacts`, `RestoreOK`, `ReleaseOK`, `PlaceFacts`,
`AppendFacts`, `HoldFacts`: each takes a side that agrees with the log to one that does), over
`VerdictFacts` for the decision after the screen, to one lemma per action and `NextInv`. The
refinement needs no more: every function of the record was shown to extend the tree, in the
relay's order until something is skewed (`CommitExtends`, `OrderedStep`). Two mutants show what
the pieces are for: `PlaceAtTail` breaks the placing, `DupNeverAgain` the second duplicate
check.

`SessionRecordLossProofs` goes on from `Inv` and proves three more invariants of the run
`record`:

* `Lossless`: `Spec => []NothingLost`;
* `Positioned`: `Spec => []QueuedKeepsPosition`;
* `ReadyComplete`: `Spec => []ReadyUnlessRepeated`.

The argument is that what a side has, in its tree, its rows of holds and its annex, only grows
(`Keeps`), whichever function of `held-content.ts` works on it: `RestoreKeeps`, `ReleaseKeeps`,
`PlaceKeeps`, `AppendReceivedKeeps` and `HoldReceivedKeeps` say so one by one. A hold entered
over another by position hides nothing, since `PositionsOK` gives both the same leaf of the log,
and a release that walks the holds in memory drops the right rows, since the two are the same
once they were restored (`Mirrored`). On top of that `Kept` says that what was reported, or is
about to be, is covered (`NothingUncovered`: in the counterparty's record, the mailbox, the
durable queue, the armed timer, or orphaned by a crash); that a position belongs to one send
and, until its content has left, to no other copy (`OwnPositions`), so a row the queue already
has for a refused send's hash is an earlier send's; and that what waits for an acknowledgement
has its leaf placed, held or with its send (`PositionsKept`).

Readiness needs that each position a side learnt of is in its record or still noted in
`witnessedSeq` or `ownLeavesOrdered` (`Accounted`). A note goes only when its leaf is in place
(`Retires`), except that a later note for the same hash replaces it: with one text sent twice
the invariant is false, and so is `ReadyMeansComplete` (`record_repeat`). `SentOnce` says that this
has not happened so far; then each content has one position (`OneEach`).

`SealCloseProofs` proves, for any number of closes, leaves, nodes and events, every invariant
and action property the run `seal_close` checks, and the refinement:

* `TypeCorrect`, `LocksOwned`, `WaiterSafe`, `NodesKnown`, `LeafOnce` are
  `Spec => []P` for `TypeOK`, `LocksHaveOwners`, `WaiterKept`, `NoStrayNode` and `OneClosingLeaf`;
* `FinalOrStale`: `Spec => FinalUnlessStale`;
* `PromiseKept`: `Spec => KeepsPromise`, that is, SealClose implements `SealOutcome`.

They assume what `CloserAssumption` and `LifecycleAssumption` say of the constants: bounds are
naturals and the automatic answer is none of the closes. The inductive invariant `Inv` has
three parts:

* `LifeInv`, the row and the node: a node being built is new and nobody else's, one whose
  teardown has come to the relay is down (`Nodes`). This makes `NoStrayNode` inductive.
* `CloseInv`, the closes: the lock is held through every await of a ceremony, so a close that
  still waits owns the waiter (`Waiting`); who was told "sealed" was told so after the
  certificate was stored or lost (`Answers`); a frame of the directory is under way only when
  it has decided (`Decided`). `Answers` and `Decided` carry the refinement.
* `LeafInv`, the leaves, as long as every submission was answered (`~silent`): at most one
  submission is in the relay client, the only own leaf outside is its leaf, and with no
  submission under way the store has that leaf (`Remembered`); the counterparty closes once
  and is answered once (`AnswerOnce`).

The state machine of SessionLifecycle is proved by the shape of its steps: each either hands
the node to one new operation (`Joins`) or drops one map entry (`DropEntry`). A step of a close
is a turn of one process (`TurnOK`): the lemmas say what a turn may do to locks, waiters and
answers, and each action is shown to be one.

`RelayClientProofs` proves every invariant of the run `relay_client`, for any sessions,
leaves, streams, retries and faults: `TypeCorrect`, `OkOrdered`, `MatchingKept`
(`AlignedUnlessCrossed`), `GhostCrossed` (`GhostOnlyIfCrossed`) and `AnswersTrue`. They assume
`SessionOfAssumption` (a leaf belongs to a session) and `LimitsAssumption` (bounds are
naturals). `OkOrdered` follows from `Attested` alone: an acknowledgement names the position at
which the relay's log has its leaf, and the log only grows. The others need, as long as no
reader has crossed, that

* there is at most one frame in either direction of the current stream, and it belongs to the
  pending work at the head of the chain (`Matched`): the reason is that a timeout resets the
  stream before the next work starts;
* what is remembered of a session was said by the relay of that session (`Told`), and each
  session spoken in on the stream is remembered as recorded (`Spoke`);
* a submit that would still present its session comes from a client that heard nothing of its
  end (`Unheard`), which is what keeps ghosts away.

`RetryQueueProofs` proves every invariant of the run `queue`, for any contents, flusher keys,
cap and numbers of copies, failed statements and restarts: `TypeCorrect`, `InOrderAlways`
(`ParkedInOrder`), `Durable`, `Rerun` and `Found`. It assumes `SizesAssumption` (a cap of at
least one, finitely many flusher keys). `DurableUnlessRobbed` is inductive with the types; the
order of the arrays is not: it needs that rows are numbered in the order of acceptance, below
counters that a restart takes from the rows (`Numbered`), and that every array, also one only
a flush still has, is in order and has each content once (`Arranged`). Splicing is shown to
leave a subsequence (`Spliced`), `ORDER BY` to yield every row once, by ranking the rows
(`SortedExists`). `Attended` says that a flush nobody asked to run again still has before it
what it was asked for; with a flusher at rest that is `RerunHonoured`.

`SessionOpeningProofs` proves every invariant of the run `opening`, for any numbers of
sessions, nodes, reservations and events: `TypeCorrect`, `SharedByRace` (`SharedOnlyByRace`),
`NodesCounted` (`NodesAccounted`), `OfflineRests` (`OfflineIsOff`) and `AnnouncedSafe`
(`AnnouncedOnce`), from `OpeningAssumption`. Behind them: only the head of the accept chain is
being accepted (`Chained`), which is what the chain of promises is for; until a race a node is
the receiver's or one session's and a promotion under way has the receiver of the map
(`Owned`); until a stop overtakes something, every running node is counted among those
(`Counted`). What an offline agent gets after all is stated without excepting such stops: what
moves was overtaken or begun since, and without anything overtaken there is neither a receiver,
nor one being built that will not be thrown away, nor a reservation (`Resting`).

`SaltAgreementProofs` proves every invariant of the run `salt`, for any numbers of messages
and events: `TypeCorrect`, `RuleIsOne` (`OneRule`), `SaltKept` (`LeafSaltKept`),
`FreezeNeedsEviction` (`FrozenOnlyIfEvicted`) and `SaltShared` (`SaltIsShared`), from
`AgreementAssumption`. The invariant ties a
side's counters and latches to its tree and to what is under way (`Ruled`), says that what a
peer took was hashed by a salt the sender had (`Seen`), and that before the first eviction
nobody has a second half, so that one salt can be derived (`Fresh`). The cells of the frame
table are not gone through one by one against it: announcing, receiving, timing out and
failing to send are all shown to be a handling (`Handles`) that keeps counters and salt in
step, a message is one of four sends (`Sends`), and an eviction drops what is in memory
(`Drops`).

`SaltIsShared` speaks of the end of an exchange only, and what it starts from is arbitrary: the
peers attach again with whatever salts, halves and latches were left. Behind it is a debt
(`Agreed`): a side that would hash with a salt its peer lacks is still to announce it, or has
its own fingerprint or half on the way to the peer, or a half, an adoption_closed or another
salt's fingerprint on the way to itself (`Asked`); and one whose peer has suspended the same
salt is owed the fingerprint or the adoption_closed (`Warned`), since a half would be answered
with a fingerprint it agrees to and the peer could erase the salt afterwards. The second debt
is why the first is not inductive alone. Each cell of the frame table, here gone through one
by one, pays one debt with another frame, ends it, or dooms the session. The proof needs that
bags of frames hold each at least once (`Counted`), that only a salt is suspended and that
none is adopted beside counted hashes (`Settled`).

Only model-checked: `HeldOnlyBehindOwn`, and the liveness properties, which need fairness and
`ENABLED` and are out of the prover's reach. No module that is proved about declares a RECURSIVE
operator, and none uses `SelectSeq` or `SortSeq`, about which the prover knows nothing.

## 6. Not modelled, and the plan

Left out of the modelled components:

* content path: the frame ordering that `inbound-refusals.ts:928` records when a frame or a
  parked entry arrives; a duplicate without a position, which the code also counter-submits
  (`session-content-ingest.ts:2164-2204`); the delivery acknowledgements sent for parked
  entries; a session torn down and revived inside one process (its maps go and its rows
  stay, as in `Crash`, but for that session alone) and the graceful shutdown; quarantine and
  refusal notices; authorship proofs; a relay that refuses a session for good; a failed
  transcript write; kills between two statements of one synchronous section; claims that
  expire during a send; away replies, which take no claim;
* relay client: the own-leaf chain, the release, abandon and liveness exchanges; queue:
  `drainSession`, which nothing calls;
* closing: a `submitSealLeaf` that throws, which leaves the entry of a waiter behind
  (`close-session-handler.ts:1135`); the counterparty's closing leaf delivered again after a
  restart; the one-shot close of away-inbox, the early return of a `wait_for_seal` that is
  false, the details of an upgrade beyond its arrival, the failure store, the reasons given;
* opening: what throws between an accepted session and its announcement
  (`inbound-sessions.ts:988-1141`), which leaves it live and unannounced; a stop of an agent that
  was never started (`agent-handlers.ts:371-374`), which returns before it stops anything;
  requests over a visiting connection, the choice of relays, the cap on nodes, the
  expiry of announced sessions by age, trust signals; a failed row's `node.stop` and the
  rebuild after it are one step;
* salt: the key agreement of `session-ephemerals`, malformed frames and degenerate halves, a
  salt row that can not be read (it closes adoption and hashes without salt), a frontier or a
  row that fails inside the confirmation of a fingerprint (`session-salts.ts:1162`, 1215-1260),
  frames of an earlier attachment that are handled after the next one (`Connect` drops them,
  while `session-salt-agreement.ts:408-410` and `session-liveness.ts:165-167` say a queued copy
  may still come), the labels.

Pure crypto, wire formats, rendering and stores without interleaving stay out.

Next, in this order:

1. `Signaling` and `SubmissionRetry`: reconnect, pending requests, the pump and its timer.
2. `SingleDaemon`: lock, probe, spawn and lost races.
3. Documents and channels: amendment reconciliation, collection positions.
