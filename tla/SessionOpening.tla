--------------------------- MODULE SessionOpening ---------------------------
(***************************************************************************)
(* How the sessions of one agent come to be.  The agent has one standing   *)
(* receiver, a node that is built ahead; a session is opened by promoting  *)
(* it, whether the session was offered by a counterparty (acceptSession)   *)
(* or initiated here (createSessionNode), and a replacement is built.  An  *)
(* action ends where the code awaits.  The directory, the relay and the    *)
(* counterparties are choices: an offer names a dialer, an assignment may  *)
(* come without an offer, twice, or not at all.                            *)
(*                                                                         *)
(* SessionLifecycle has what happens to a session once it is open.         *)
(***************************************************************************)
EXTENDS Naturals, Sequences, Functions

CONSTANTS
    Inbound,        \* sessions counterparties offer; a session also names its own dialer
    Outbound,       \* sessions this agent initiates
    Other,          \* a dialer that no session's assignment names
    None,           \* nobody
    Tries,          \* srRetryDelaysMs.length
    MaxNodes,       \* bound: receivers built
    MaxEvents,      \* bound: offers, assignments, requests of ours, stops, and failures
    MaxWaiters      \* bound: callers in cello_await_session

ASSUME OpeningAssumption ==
    /\ Inbound \cap Outbound = {} /\ {Other, None} \cap (Inbound \cup Outbound) = {}
    /\ Other # None
    /\ {Tries, MaxNodes, MaxEvents, MaxWaiters} \subseteq Nat

Session == Inbound \cup Outbound
Node == 1..MaxNodes

VARIABLES
    online,     \* FALSE: explicitlyOfflineAgents has the agent
    stopping,   \* cello_set_agent_offline waits for the receiver's node to stop
    wants,      \* agentsWantingReceiver has the agent
    recv,       \* the node standingReceivers has for the agent, 0 for none
    creating,   \* standingReceiverCreating: "no", a node is starting, or a pause before the next
    attempt,    \* attempts that failed in this ensureStandingReceiver
    removing,   \* standingReceiverRemoving has the agent
    built,      \* nodes 1..built have been started
    stopped,    \* of them, those that were stopped
    gate,       \* the peer a node's gater admits
    offered,    \* offeredDialer
    asked,      \* offers that wait for a reservation: the receiver they read, and the dialer
    chain,      \* inboundAcceptChain
    inFlight,   \* inboundInFlight
    slot,       \* negotiationInProgress has the agent
    step,       \* where the promotion of a session is
    node,       \* the node a promotion read, then the node of the session
    row,        \* the session's row
    live,       \* sessions activeNodes has
    queue,      \* inboundSessionQueues
    waiters,    \* inboundSessionWaiters, by number
    \* history
    told,       \* sessions cello_await_session returned
    raced,      \* a receiver was promoted or offered while a promotion had it, or a
                \* reservation put one back that was no longer in the map
    unheard,    \* a start found the removal of a stop still pending
    late,       \* the agent was taken offline under a promotion or a reservation
    overtaken,  \* while the agent is offline: the sessions that were being promoted, or
                \* reserved for, when it was stopped, and those begun since
    events

receiverVars == <<wants, recv, creating, attempt, removing, built>>
agentVars    == <<online, stopping, slot>>
offerVars    == <<offered, asked>>
acceptVars   == <<chain, inFlight>>
sessionVars  == <<step, node, row, live>>
toldVars     == <<queue, waiters, told>>
flagVars     == <<raced, unheard, late, overtaken>>
vars == <<receiverVars, agentVars, offerVars, acceptVars, sessionVars, toldVars, flagVars,
          stopped, gate, events>>

NoAsk == [node |-> 0, dialer |-> None]

\* Types of every variable.
TypeOK ==
    /\ {online, stopping, slot, wants, removing, raced, unheard, late} \subseteq BOOLEAN
    /\ recv \in 0..MaxNodes /\ built \in 0..MaxNodes
    /\ creating \in {"no", "start", "pause"} /\ attempt \in 0..Tries
    /\ stopped \subseteq 1..built /\ gate \in [Node -> Session \cup {Other, None}]
    /\ offered \in [Inbound -> Inbound \cup {Other, None}]
    /\ asked \in [Inbound -> [node : 0..MaxNodes, dialer : Inbound \cup {Other, None}]]
    /\ chain \in Seq(Inbound) /\ IsInjective(chain) /\ inFlight \subseteq Inbound
    /\ step \in [Session -> {"none", "queued", "receiver", "params", "connect", "asked", "dial",
                             "evict", "handlers", "done"}]
    /\ node \in [Session -> 0..MaxNodes] /\ row \in [Session -> {"none", "active", "closed"}]
    /\ live \subseteq Session /\ overtaken \subseteq Session
    /\ queue \in Seq(Inbound) /\ waiters \in 0..MaxWaiters /\ told \subseteq Inbound
    /\ events \in 0..MaxEvents

Init ==
    /\ online = TRUE /\ stopping = FALSE
    /\ wants = TRUE /\ recv = 0 /\ creating = "start" /\ attempt = 0 /\ removing = FALSE
    /\ built = 0 /\ stopped = {} /\ gate = [n \in Node |-> None]
    /\ offered = [s \in Inbound |-> None] /\ asked = [s \in Inbound |-> NoAsk]
    /\ chain = << >> /\ inFlight = {}
    /\ slot = FALSE /\ step = [s \in Session |-> "none"] /\ node = [s \in Session |-> 0]
    /\ row = [s \in Session |-> "none"] /\ live = {}
    /\ queue = << >> /\ waiters = 0 /\ told = {}
    /\ raced = FALSE /\ unheard = FALSE /\ late = FALSE /\ overtaken = {}
    /\ events = 0

Event == events < MaxEvents /\ events' = events + 1

\* Nodes of sessions are stopped: their gaters admit nobody any more.
Stop(nodes) ==
    /\ stopped' = stopped \cup nodes
    /\ gate' = [n \in Node |-> IF n \in nodes THEN None ELSE gate[n]]

-----------------------------------------------------------------------------
(* The standing receiver.                                                  *)

\* ensureStandingReceiver up to its first await, the map having r.
Ensure(r) ==
    IF r = 0 /\ creating = "no"
      THEN creating' = "start" /\ attempt' = 0 /\ removing' = FALSE
      ELSE UNCHANGED <<creating, attempt, removing>>

\* Mutant: the removal asked for while the node started is not looked at.
Started_Heedless ==
    /\ creating = "start" /\ built < MaxNodes /\ built' = built + 1
    /\ creating' = "no" /\ attempt' = 0 /\ removing' = FALSE
    /\ recv' = built + 1 /\ UNCHANGED stopped
    /\ UNCHANGED <<wants, agentVars, offerVars, acceptVars, sessionVars, toldVars, flagVars,
                   gate, events>>

\* The node of tryCreateStandingReceiver has started.
Started ==
    /\ creating = "start" /\ built < MaxNodes /\ built' = built + 1
    /\ creating' = "no" /\ attempt' = 0 /\ removing' = FALSE
    /\ IF removing THEN stopped' = stopped \cup {built + 1} /\ UNCHANGED recv
                   ELSE recv' = built + 1 /\ UNCHANGED stopped
    /\ UNCHANGED <<wants, agentVars, offerVars, acceptVars, sessionVars, toldVars, flagVars,
                   gate, events>>

\* Mutant: one attempt too many.
StartFails_OneMore ==
    /\ creating = "start" /\ Event
    /\ IF attempt <= Tries THEN creating' = "pause" /\ attempt' = attempt + 1
                           ELSE creating' = "no" /\ UNCHANGED attempt
    /\ UNCHANGED <<wants, recv, removing, built, agentVars, offerVars, acceptVars, sessionVars,
                   toldVars, flagVars, stopped, gate>>

\* It has not.  After the last attempt the agent is left without (standing_receiver.dead).
StartFails ==
    /\ creating = "start" /\ Event
    /\ IF attempt < Tries THEN creating' = "pause" /\ attempt' = attempt + 1
                          ELSE creating' = "no" /\ UNCHANGED attempt
    /\ UNCHANGED <<wants, recv, removing, built, agentVars, offerVars, acceptVars, sessionVars,
                   toldVars, flagVars, stopped, gate>>

\* The pause is over; a removal asked for meanwhile ends the creation.
Retries ==
    /\ creating = "pause"
    /\ IF removing THEN creating' = "no" /\ attempt' = 0
                   ELSE creating' = "start" /\ UNCHANGED attempt
    /\ removing' = FALSE
    /\ UNCHANGED <<wants, recv, built, agentVars, offerVars, acceptVars, sessionVars, toldVars,
                   flagVars, stopped, gate, events>>

\* cello_set_agent_offline, first part: the receiver leaves the map and its node is stopped.
SetOffline ==
    /\ online /\ ~stopping /\ Event
    /\ online' = FALSE /\ stopping' = TRUE /\ wants' = FALSE /\ recv' = 0
    /\ IF recv # 0 THEN stopped' = stopped \cup {recv} /\ UNCHANGED removing
                   ELSE removing' = (removing \/ creating # "no") /\ UNCHANGED stopped
    /\ overtaken' = {s \in Session : step[s] \notin {"none", "queued", "done"}}
                       \cup {s \in Inbound : asked[s] # NoAsk}
    /\ late' = (late \/ overtaken' # {})
    /\ UNCHANGED <<slot, creating, attempt, built, offerVars, acceptVars, sessionVars, toldVars,
                   raced, unheard, gate>>

\* Its second part: destroySessionNode for every live session of the agent.
OfflineSessions ==
    /\ stopping /\ stopping' = FALSE
    /\ live' = {} /\ Stop({node[s] : s \in live})
    /\ row' = [s \in Session |-> IF s \in live THEN "closed" ELSE row[s]]
    /\ node' = [s \in Session |-> IF s \in live THEN 0 ELSE node[s]]
    /\ IF wants /\ live # {} THEN Ensure(recv) ELSE UNCHANGED <<creating, attempt, removing>>
    /\ UNCHANGED <<online, slot, wants, recv, built, offerVars, acceptVars, step, toldVars, flagVars,
                   events>>

\* startAgentInternal.
StartAgent ==
    /\ ~online /\ online' = TRUE /\ wants' = TRUE /\ Ensure(recv)
    /\ unheard' = (unheard \/ (removing /\ creating # "no")) /\ overtaken' = {}
    /\ UNCHANGED <<stopping, slot, recv, built, offerVars, acceptVars, sessionVars, toldVars,
                   raced, late, stopped, gate, events>>

-----------------------------------------------------------------------------
(* Offers: session_offer, answered with the receiver's address.            *)

\* A promotion has read the receiver r and has not taken it out of the map.
BeingTaken(r) == \E s \in Session : step[s] = "evict" /\ node[s] = r

\* admitOfferedDialer for the receiver r.
Admit(s, p, r) ==
    gate' = [gate EXCEPT ![r] = p] /\ offered' = [offered EXCEPT ![s] = p]

\* An offer: it names no relay and is answered at once, or a reservation is taken first.
Offer(s, p) ==
    /\ recv # 0 /\ asked[s] = NoAsk /\ Event
    /\ \/ Admit(s, p, recv) /\ raced' = (raced \/ BeingTaken(recv)) /\ UNCHANGED asked
       \/ asked' = [asked EXCEPT ![s] = [node |-> recv, dialer |-> p]]
          /\ UNCHANGED <<gate, offered, raced>>
    /\ UNCHANGED <<receiverVars, agentVars, acceptVars, sessionVars, toldVars,
                   unheard, late, overtaken, stopped>>

\* takeReservationForSession comes back and writes the receiver it had read; the offer is
\* answered, or refused when the agent is relay-only and got no reservation.
Reserved(s) ==
    /\ asked[s] # NoAsk /\ asked' = [asked EXCEPT ![s] = NoAsk]
    /\ recv' = asked[s].node
    /\ raced' = (raced \/ recv # asked[s].node \/ BeingTaken(asked[s].node))
    /\ \/ Admit(s, asked[s].dialer, recv')
       \/ UNCHANGED <<gate, offered>>
    /\ UNCHANGED <<wants, creating, attempt, removing, built, agentVars, acceptVars, sessionVars,
                   toldVars, unheard, late, overtaken, stopped, events>>

\* Mutant: the gate is closed whoever it names.
Revoke_Any(s) ==
    /\ offered' = [offered EXCEPT ![s] = None]
    /\ gate' = IF recv # 0 THEN [gate EXCEPT ![recv] = None] ELSE gate

\* revokeOfferedDialer: the gate is closed only if it still names this session's dialer.
Revoke(s) ==
    /\ offered' = [offered EXCEPT ![s] = None]
    /\ gate' = IF recv # 0 /\ offered[s] # None /\ gate[recv] = offered[s]
                 THEN [gate EXCEPT ![recv] = None] ELSE gate

-----------------------------------------------------------------------------
(* Inbound: session_assignment, the accept chain, acceptSession.           *)

\* Mutant: the session's row is not asked for.
Known_InFlight(s) == s \in inFlight

\* A session_assignment for us also settles those requests of ours that wait for theirs
\* (a request that still discovers its counterparty does not listen yet).
Asked == {t \in Outbound : step[t] = "asked"}
Misread(st, heard) ==
    /\ step' = [t \in Session |-> IF t \in heard THEN "done" ELSE st[t]]
    /\ slot' = (slot /\ heard = {})

Mismatch(s) == offered[s] \notin {None, s}
Known(s) == s \in inFlight \/ row[s] # "none"

\* handleInboundSessionAssignment refuses: the offer named another dialer, the assignment
\* carries no address of ours, it does not verify, or it comes from where none may.
Refuse(s) ==
    /\ Event /\ Revoke(s)
    /\ \E heard \in SUBSET Asked : Misread(step, heard)
    /\ UNCHANGED <<receiverVars, online, stopping, asked, acceptVars, node, row, live, toldVars,
                   flagVars, stopped>>

\* It accepts: the session joins the chain.
Assign(s) ==
    /\ Event /\ ~Mismatch(s) /\ ~Known(s)
    /\ inFlight' = inFlight \cup {s} /\ chain' = Append(chain, s)
    /\ \E heard \in SUBSET Asked : Misread([step EXCEPT ![s] = "queued"], heard)
    /\ UNCHANGED <<receiverVars, online, stopping, offerVars, node, row, live, toldVars, flagVars,
                   stopped, gate>>

\* The finally block of acceptInboundAssignment; the chain goes on.
AcceptEnds(s) == chain' = Tail(chain) /\ inFlight' = inFlight \ {s}

\* acceptInboundAssignment of the head of the chain: refused because the agent is offline,
\* which is before the try block; refused by the tier's bound; or let in, which wants a
\* receiver and waits for it.
AcceptBegins(s) ==
    /\ step[s] = "queued" /\ Head(chain) = s
    /\ \/ ~online /\ chain' = Tail(chain) /\ step' = [step EXCEPT ![s] = "none"]
          /\ UNCHANGED <<inFlight, wants, creating, attempt, removing, unheard>>
       \/ online /\ AcceptEnds(s) /\ step' = [step EXCEPT ![s] = "none"]
          /\ UNCHANGED <<wants, creating, attempt, removing, unheard>>
       \/ online /\ step' = [step EXCEPT ![s] = "receiver"]
          /\ wants' = TRUE /\ Ensure(recv)
          /\ UNCHANGED <<acceptVars, unheard>>
    /\ UNCHANGED <<recv, built, agentVars, offerVars, node, row, live, toldVars, flagVars,
                   late, overtaken, stopped, gate, events>>

\* Mutant: the wait has no deadline.
ReceiverAwaited_Forever(s) ==
    /\ step[s] = "receiver" /\ recv # 0 /\ step' = [step EXCEPT ![s] = "params"]
    /\ UNCHANGED <<receiverVars, agentVars, offerVars, acceptVars, node, row, live, toldVars,
                   flagVars, stopped, gate, events>>

\* waitForStandingReceiver: a receiver is there, or the deadline passes without one.
ReceiverAwaited(s) ==
    /\ step[s] = "receiver"
    /\ \/ recv # 0 /\ step' = [step EXCEPT ![s] = "params"] /\ UNCHANGED acceptVars
       \/ recv = 0 /\ step' = [step EXCEPT ![s] = "none"] /\ AcceptEnds(s)
    /\ UNCHANGED <<receiverVars, agentVars, offerVars, node, row, live, toldVars, flagVars,
                   stopped, gate, events>>

\* A promotion reads the receiver, narrows its gate to the session's peer and evicts the rest.
Take(s) ==
    /\ node' = [node EXCEPT ![s] = recv] /\ gate' = [gate EXCEPT ![recv] = s]
    /\ step' = [step EXCEPT ![s] = "evict"]
    /\ raced' = (raced \/ BeingTaken(recv))

\* acceptSession up to its first await.
AcceptSession(s) ==
    /\ step[s] = "params" /\ offered' = [offered EXCEPT ![s] = None]
    /\ \/ recv # 0 /\ Take(s) /\ UNCHANGED <<creating, attempt, removing, acceptVars>>
       \/ recv = 0 /\ Ensure(0) /\ AcceptEnds(s) /\ step' = [step EXCEPT ![s] = "none"]
          /\ UNCHANGED <<node, gate, raced>>
    /\ UNCHANGED <<wants, recv, built, agentVars, asked, row, live, toldVars,
                   unheard, late, overtaken, stopped, events>>

-----------------------------------------------------------------------------
(* Outbound: cello_initiate_session, createSessionNode.                    *)

\* The slot of a negotiation is looked at, and the receiver advertised; then the agent's
\* stream to the directory is awaited.  The document worker and hermes clients get here for
\* an agent that is offline too (openSessionFor; attendance-guard.ts:64).
Negotiate(s) ==
    /\ step[s] = "none" /\ row[s] = "none" /\ recv # 0 /\ ~slot /\ Event
    /\ step' = [step EXCEPT ![s] = "connect"]
    /\ overtaken' = IF online THEN overtaken ELSE overtaken \cup {s}
    /\ UNCHANGED <<receiverVars, agentVars, offerVars, acceptVars, node, row, live,
                   toldVars, raced, unheard, late, stopped, gate>>

\* The stream is up, the slot is claimed and the request goes out; or it did not come up.
Connected(s) ==
    /\ step[s] = "connect"
    /\ \/ step' = [step EXCEPT ![s] = "asked"] /\ slot' = TRUE
       \/ step' = [step EXCEPT ![s] = "done"] /\ UNCHANGED slot
    /\ UNCHANGED <<receiverVars, online, stopping, offerVars, acceptVars, node, row, live, toldVars,
                   flagVars, stopped, gate, events>>

\* The assignment of s arrives: every request that listens takes it for its own, and those it
\* does not name fail.
Answered(s) ==
    /\ step[s] = "asked" /\ slot' = FALSE
    /\ \E r \in {"dial", "done"}, heard \in SUBSET (Asked \ {s}) :
          step' = [t \in Session |-> CASE t = s -> r [] t \in heard -> "done" [] OTHER -> step[t]]
    /\ UNCHANGED <<receiverVars, online, stopping, offerVars, acceptVars, node, row, live, toldVars,
                   flagVars, stopped, gate, events>>

\* It does not come in time.  The slot is freed though another request may have claimed it.
Unanswered(s) ==
    /\ step[s] = "asked" /\ slot' = FALSE /\ step' = [step EXCEPT ![s] = "done"]
    /\ UNCHANGED <<receiverVars, online, stopping, offerVars, acceptVars, node, row, live, toldVars,
                   flagVars, stopped, gate, events>>

\* createSessionNode up to its first await.
CreateSession(s) ==
    /\ step[s] = "dial"
    /\ \/ recv # 0 /\ Take(s) /\ UNCHANGED <<creating, attempt, removing>>
       \/ recv = 0 /\ Ensure(0) /\ step' = [step EXCEPT ![s] = "done"]
          /\ UNCHANGED <<node, gate, raced>>
    /\ UNCHANGED <<wants, recv, built, agentVars, offerVars, acceptVars, row, live, toldVars,
                   unheard, late, overtaken, stopped, events>>

-----------------------------------------------------------------------------
(* Both: the row, activeNodes, the announcement.                           *)

\* The eviction is over: the map entry is deleted, whatever it is by now, the row is
\* inserted and the session is live.
Evicted(s) ==
    /\ step[s] = "evict" /\ recv' = 0
    /\ row' = [row EXCEPT ![s] = "active"] /\ live' = live \cup {s}
    /\ step' = [step EXCEPT ![s] = "handlers"]
    /\ UNCHANGED <<wants, creating, attempt, removing, built, agentVars, offerVars, acceptVars,
                   node, toldVars, flagVars, stopped, gate, events>>

\* Mutant: the consumed receiver's node is left running.
RowFails_Leaks(s) ==
    /\ step[s] = "evict" /\ Event /\ recv' = 0
    /\ node' = [node EXCEPT ![s] = 0] /\ Ensure(0)
    /\ \/ s \in Inbound /\ AcceptEnds(s) /\ step' = [step EXCEPT ![s] = "none"]
       \/ s \in Outbound /\ step' = [step EXCEPT ![s] = "done"] /\ UNCHANGED acceptVars
    /\ UNCHANGED <<wants, built, agentVars, offerVars, row, live, toldVars, flagVars, stopped,
                   gate>>

\* The row cannot be written: the node is stopped, the receiver consumed and rebuilt.
RowFails(s) ==
    /\ step[s] = "evict" /\ Event /\ recv' = 0
    /\ Stop({node[s]}) /\ node' = [node EXCEPT ![s] = 0] /\ Ensure(0)
    /\ \/ s \in Inbound /\ AcceptEnds(s) /\ step' = [step EXCEPT ![s] = "none"]
       \/ s \in Outbound /\ step' = [step EXCEPT ![s] = "done"] /\ UNCHANGED acceptVars
    /\ UNCHANGED <<wants, built, agentVars, offerVars, row, live, toldVars, flagVars>>

\* enqueueInboundSession.
Announce(s) ==
    IF waiters > 0 THEN waiters' = waiters - 1 /\ told' = told \cup {s} /\ UNCHANGED queue
                   ELSE queue' = Append(queue, s) /\ UNCHANGED <<waiters, told>>

\* Mutant: no replacement is asked for.
Opened_Unarmed(s) ==
    /\ step[s] = "handlers" /\ step' = [step EXCEPT ![s] = "done"]
    /\ \/ s \in Inbound /\ AcceptEnds(s) /\ Announce(s)
       \/ s \in Outbound /\ UNCHANGED <<acceptVars, toldVars>>
    /\ UNCHANGED <<receiverVars, agentVars, offerVars, node, row, live, flagVars, stopped, gate,
                   events>>

\* The handlers are registered and the relay was tried: the replacement is built, and a
\* session from outside is announced.
Opened(s) ==
    /\ step[s] = "handlers" /\ step' = [step EXCEPT ![s] = "done"] /\ Ensure(recv)
    /\ \/ s \in Inbound /\ AcceptEnds(s) /\ Announce(s)
       \/ s \in Outbound /\ UNCHANGED <<acceptVars, toldVars>>
    /\ UNCHANGED <<wants, recv, built, agentVars, offerVars, node, row, live, flagVars, stopped,
                   gate, events>>

\* A session ends: destroySessionNode or retireSessionNode, with rearmAfterTeardown.
Close(s) ==
    /\ s \in live /\ live' = live \ {s} /\ row' = [row EXCEPT ![s] = "closed"]
    /\ Stop({node[s]}) /\ node' = [node EXCEPT ![s] = 0]
    /\ IF wants THEN Ensure(recv) ELSE UNCHANGED <<creating, attempt, removing>>
    /\ UNCHANGED <<wants, recv, built, agentVars, offerVars, acceptVars, step, toldVars,
                   flagVars, events>>

\* cello_await_session: the oldest event whose session has not ended, or a waiter.  What
\* reapExpiredInboundSessions drops behind that one is dropped here once it is the oldest:
\* a session that has ended stays so, and nobody else takes events.
AwaitSession ==
    /\ \/ \E i \in 1..Len(queue) :
             /\ row[queue[i]] = "active" /\ \A j \in 1..(i - 1) : row[queue[j]] # "active"
             /\ queue' = SubSeq(queue, i + 1, Len(queue)) /\ told' = told \cup {queue[i]}
             /\ UNCHANGED waiters
       \/ /\ \A i \in 1..Len(queue) : row[queue[i]] # "active"
          /\ queue' = << >> /\ waiters < MaxWaiters /\ waiters' = waiters + 1 /\ UNCHANGED told
    /\ UNCHANGED <<receiverVars, agentVars, offerVars, acceptVars, sessionVars, flagVars,
                   stopped, gate, events>>

\* A waiter times out, or its connection closes.
WaiterGone ==
    /\ waiters > 0 /\ waiters' = waiters - 1
    /\ UNCHANGED <<receiverVars, agentVars, offerVars, acceptVars, sessionVars, queue, told,
                   flagVars, stopped, gate, events>>

-----------------------------------------------------------------------------

Next ==
    \/ Started \/ StartFails \/ Retries
    \/ SetOffline \/ OfflineSessions \/ StartAgent
    \/ AwaitSession \/ WaiterGone
    \/ \E s \in Inbound :
          \/ \E p \in {s, Other} : Offer(s, p)
          \/ Reserved(s) \/ Refuse(s) \/ Assign(s)
          \/ AcceptBegins(s) \/ ReceiverAwaited(s) \/ AcceptSession(s)
    \/ \E s \in Outbound :
          \/ Negotiate(s) \/ Connected(s) \/ Answered(s) \/ Unanswered(s) \/ CreateSession(s)
    \/ \E s \in Session : Evicted(s) \/ RowFails(s) \/ Opened(s) \/ Close(s)

Spec == Init /\ [][Next]_vars

\* Nodes start or fail, pauses and awaits end, the chain goes on.
DaemonStep ==
    \/ Started \/ StartFails \/ Retries \/ OfflineSessions
    \/ \E s \in Inbound :
          Reserved(s) \/ AcceptBegins(s) \/ ReceiverAwaited(s) \/ AcceptSession(s)
    \/ \E s \in Outbound : Connected(s) \/ Answered(s) \/ Unanswered(s) \/ CreateSession(s)
    \/ \E s \in Session : Evicted(s) \/ RowFails(s) \/ Opened(s)

FairSpec == Spec /\ WF_vars(DaemonStep)

-----------------------------------------------------------------------------
(* Properties.                                                             *)

\* A receiver serves at most one session: what is live on a node is one session, and the
\* node is not the receiver any more.  (The comments say so: acceptSession consumes the
\* receiver synchronously.)
OneSessionPerReceiver ==
    /\ \A s, t \in live : node[s] = node[t] => s = t
    /\ \A s \in live : node[s] # recv

\* As far as it holds: only two promotions at once, an offer that is answered while a
\* promotion has the receiver, or a reservation that puts a promoted receiver back, make two
\* sessions share a node, or let a node's gate admit anyone but the peer of its live session.
SharedOnlyByRace ==
    \/ raced
    \/ OneSessionPerReceiver /\ \A s \in live : gate[node[s]] = s

\* A live session has a running node, and a node that runs is in the map or belongs to a
\* session (no orphan keeps a port), unless the operator's stop overtook a promotion or a
\* reservation (late), or two of these met at one receiver (raced).
NodesAccounted ==
    \/ raced \/ late
    \/ /\ \A s \in live : node[s] \notin stopped
       /\ \A n \in 1..built : n \in stopped \/ n = recv
                              \/ \E s \in Session : node[s] = n /\ (s \in live \/ step[s] = "evict")

\* Once an agent was taken offline, the sessions it has are those whose promotion was under
\* way at the stop (or which it began since, over a receiver that should not be there), and
\* it has a receiver only if a promotion or reservation was under way too: whatever else was
\* queued, building, pausing or open ends with the stop.  A receiver may also come of a
\* reservation that put back an old one while the new one was being built (raced).
OfflineIsOff ==
    ~online /\ ~stopping =>
        /\ live \subseteq overtaken
        /\ recv # 0 => overtaken # {} \/ raced

\* What the stop itself promises: an offline agent stops talking.  Nothing it has runs.
OfflineMeansOff ==
    ~online /\ ~stopping => stopped = 1..built

\* An accepted session is announced once.
AnnouncedOnce ==
    /\ \A i, j \in DOMAIN queue : queue[i] = queue[j] => i = j
    /\ \A s \in Inbound : step[s] = "done" /\ row[s] = "active" =>
          (s \in told) # (s \in Range(queue))

\* Every attempt to build a receiver failed, and an alarm says so.
Dead == creating = "no" /\ attempt = Tries

\* An agent that wants a receiver gets one, unless every attempt fails: the stop of an agent
\* whose receiver was being built, and its start, leave it without (unheard).
WantedGetsReceiver ==
    wants /\ recv = 0 ~> recv # 0 \/ ~wants \/ Dead \/ unheard \/ built = MaxNodes

\* Accepts go one at a time, and none holds up those behind it for good.
ChainMoves == \A s \in Inbound : s \in Range(chain) ~> s \notin Range(chain)

=============================================================================
