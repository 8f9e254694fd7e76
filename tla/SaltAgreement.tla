--------------------------- MODULE SaltAgreement ---------------------------
(***************************************************************************)
(* The agreement of two daemons on the salt of one session, and the rule   *)
(* each of its messages is hashed by.  Either side announces its half when *)
(* the other attaches, combines the halves when it receives one, and       *)
(* announces the fingerprint of what it got; a side that hashed a message  *)
(* before closes adoption and says so.  Every frame has a stream of its    *)
(* own, so frames overtake each other.  The salt and the leaves are rows;  *)
(* everything else of an agreement is in memory.                           *)
(*                                                                         *)
(* The salt of two halves is the set of the two: the derivation is taken   *)
(* to be injective, and a fingerprint to name its salt.  Halves are sound  *)
(* and frames well formed.                                                 *)
(***************************************************************************)
EXTENDS Naturals, FiniteSets, Bags

CONSTANTS
    A, B,           \* the two daemons
    MaxMsgs,        \* bound: messages of both sides
    MaxEvents       \* bound: messages and, beside the first attachment, attachments, teardowns,
                    \* restarts, frames lost, reads and writes that fail

ASSUME AgreementAssumption == A # B /\ {MaxMsgs, MaxEvents} \subseteq Nat

Side == {A, B}
Peer(p) == IF p = A THEN B ELSE A
Msg == Side \X (1..MaxMsgs)
Sender(i) == i[1]

Half == Side \X (1..MaxEvents + 1)
Salt == {s \in SUBSET Half : Cardinality(s) = 2}
Plain == {}                     \* no salt, and the rule SHA256

Frame(k, s) == [kind |-> k, of |-> s]
ClosedFrame == Frame("closed", {})

VARIABLES
    salt,       \* sessions.content_salt of a side
    tree,       \* the rules of the leaves in a side's tree
    mem,        \* what the maps of SessionSalts have for the session
    minted,     \* halves a side has generated
    up,         \* the session has a node
    frozen,     \* frozenSessions has the session
    doomed,     \* freezeSession waits for the notice to the peer, or for the node to stop
    due,        \* the peer attached, and the announcement is to be made
    net,        \* frames on their way to a side
    msg,        \* messages: where they are, their rule, what the peer made of them
    events,
    \* history
    cut,        \* messages that lost their claim before their leaf was placed: the maps were
                \* evicted, or a message evicted before was abandoned and took one back
    evicted,    \* a teardown or a restart has dropped a side's maps
    spoilt      \* since the peers attached: a frame was lost, a read or a write failed, a side
                \* gave up asking, or took a confirmation of a salt it had suspended

nodeVars  == <<up, frozen, doomed>>
vars == <<salt, tree, mem, minted, nodeVars, due, net, msg, events, cut, evicted, spoilt>>

NoMem == [half      |-> 0,      \* saltContributions
          susp      |-> FALSE,  \* saltSuspended
          plain     |-> 0,      \* hashedWithoutSalt
          spent     |-> FALSE,  \* hashedWithSalt is not zero
          told      |-> FALSE,  \* unsaltedAnnounced
          ansHalf   |-> Plain,  \* saltRepairedAgainst
          ansPrint  |-> Plain,  \* saltRepairedAgainstFingerprint
          pending   |-> FALSE]  \* saltPending

\* Types of every variable.
TypeOK ==
    /\ salt \in [Side -> Salt \cup {Plain}]
    /\ tree \in [Side -> SUBSET (Salt \cup {Plain})]
    /\ \A p \in Side :
        /\ mem[p].half \in 0..minted[p] /\ mem[p].plain \in 0..MaxMsgs
        /\ {mem[p].susp, mem[p].spent, mem[p].told, mem[p].pending} \subseteq BOOLEAN
        /\ mem[p].ansHalf \in {Plain} \cup {{h} : h \in Half}
        /\ mem[p].ansPrint \in Salt \cup {Plain}
        /\ \A f \in DOMAIN net[p] : f.kind \in {"half", "print", "closed"} /\ f.of \subseteq Half
    /\ minted \in [Side -> 0..MaxEvents + 1]
    /\ {up, frozen, doomed, due} \subseteq [Side -> BOOLEAN]
    /\ msg \in [Msg -> [st   : {"new", "waiting", "hashed", "placed", "void"},
                        rule : Salt \cup {Plain}, seen : {"no", "yes", "refused"}]]
    /\ events \in 0..MaxEvents
    /\ cut \subseteq Msg /\ {evicted, spoilt} \subseteq BOOLEAN

Init ==
    /\ salt = [p \in Side |-> Plain] /\ tree = [p \in Side |-> {}]
    /\ mem = [p \in Side |-> NoMem] /\ minted = [p \in Side |-> 0]
    /\ up = [p \in Side |-> TRUE]
    /\ frozen = [p \in Side |-> FALSE] /\ doomed = [p \in Side |-> FALSE]
    /\ due = [p \in Side |-> TRUE] /\ net = [p \in Side |-> EmptyBag]
    /\ msg = [i \in Msg |-> [st |-> "new", rule |-> Plain, seen |-> "no"]]
    /\ events = 0
    /\ cut = {} /\ evicted = FALSE /\ spoilt = FALSE

-----------------------------------------------------------------------------
(* What SessionSalts reads and decides.                                    *)

\* saltAdoptionClosed: a message was hashed without the salt, or there are leaves.
Closed(p) == tree[p] # {} \/ mem[p].plain > 0

Sent == Cardinality({j \in Msg : msg[j].st # "new"})
Event == Sent + events < MaxEvents /\ events' = events + 1

\* A read or a statement fails, or it does not.
Trouble(fails) ==
    /\ IF fails THEN Event ELSE UNCHANGED events
    /\ spoilt' = (spoilt \/ fails)

\* Mutant: a half is made for every frame.
Mints_Always(p) == salt[p] = Plain

\* saltState: a side without a salt has a half, made now if need be.
Mints(p) == salt[p] = Plain /\ mem[p].half = 0

OwnHalf(p) == IF Mints(p) THEN minted[p] + 1 ELSE mem[p].half
State(p)  == [mem[p] EXCEPT !.half = OwnHalf(p)]
Minting(p) == minted' = [minted EXCEPT ![p] = IF Mints(p) THEN @ + 1 ELSE @]

HalfFrame(p)  == Frame("half", {<<p, OwnHalf(p)>>})
PrintFrame(p) == Frame("print", salt[p])

Waiting(p)  == {i \in Msg : Sender(i) = p /\ msg[i].st = "waiting"}
Unplaced(p) == {i \in Msg : Sender(i) = p /\ msg[i].st = "hashed"}

\* The messages is are hashed by a rule.
Hashed(is, rule) ==
    [i \in Msg |-> IF i \in is THEN [st |-> "hashed", rule |-> rule, seen |-> "no"] ELSE msg[i]]

\* Mutant: a hash without the salt leaves no trace until its leaf is placed.
CountPlain_Late(m, n) == [m EXCEPT !.told = @ \/ n > 0]

\* contentHashForSession counts n hashes by SHA256.
CountPlain(m, n) == [m EXCEPT !.plain = @ + n, !.told = @ \/ n > 0]

\* settleSaltPending with an outcome but "agreed": whoever waited goes on without the salt.
SettledPlain(p, m) == CountPlain([m EXCEPT !.pending = FALSE], Cardinality(Waiting(p)))

\* Mutant: a salt under which nothing has been placed yet counts as unspent.
Unspent_Unplaced(m, closed) == ~closed

\* suspendSalt and discardUnspentSalt refuse once a hash was made under the salt, and when
\* adoption is closed.
Unspent(m, closed) == ~m.spent /\ ~closed

\* Mutant: the salt stays in use.
Suspended_Not(p, m, closed) == m

\* suspendSalt.
Suspended(p, m, closed) ==
    [m EXCEPT !.susp = @ \/ (salt[p] # Plain /\ Unspent(m, closed))]

\* p has taken the frame f and sends the frames of answers.
Exchange(p, f, answers) ==
    net' = [net EXCEPT ![p] = @ (-) SetToBag({f}), ![Peer(p)] = @ (+) SetToBag(answers)]

\* sendSaltFrame marks the agreement pending before it sends anything but adoption_closed.
Marked(m) == [m EXCEPT !.pending = TRUE]

-----------------------------------------------------------------------------
(* Attachment and loss.                                                    *)

\* The peers attach again: frames of the connection before are gone.
Connect ==
    /\ up[A] /\ up[B] /\ Event
    /\ due' = [p \in Side |-> TRUE] /\ net' = [p \in Side |-> EmptyBag]
    /\ spoilt' = FALSE
    /\ UNCHANGED <<salt, tree, mem, minted, nodeVars, msg, cut, evicted>>

\* onCounterpartyAttached: what this side holds is announced, a salt by its fingerprint.
Announce(p) ==
    /\ due[p] /\ due' = [due EXCEPT ![p] = FALSE]
    /\ Minting(p) /\ mem' = [mem EXCEPT ![p] = Marked(State(p))]
    /\ net' = [net EXCEPT ![Peer(p)] =
                  @ (+) SetToBag({IF salt[p] = Plain THEN HalfFrame(p) ELSE PrintFrame(p)})]
    /\ UNCHANGED <<salt, tree, nodeVars, msg, events, cut, evicted, spoilt>>

\* The stream of a frame to the peer of p fails.
SendFails(p, f) ==
    /\ f \in DOMAIN net[Peer(p)] /\ Trouble(TRUE)
    /\ net' = [net EXCEPT ![Peer(p)] = @ (-) SetToBag({f})]
    /\ mem' = [mem EXCEPT ![p] = SettledPlain(p, mem[p])]
    /\ msg' = Hashed(Waiting(p), Plain)
    /\ UNCHANGED <<salt, tree, minted, nodeVars, due, cut, evicted>>

Timeout(p) ==
    /\ mem[p].pending
    /\ mem' = [mem EXCEPT ![p] = SettledPlain(p, mem[p])]
    /\ msg' = Hashed(Waiting(p), Plain)
    /\ UNCHANGED <<salt, tree, minted, nodeVars, due, net, events, cut, evicted, spoilt>>

-----------------------------------------------------------------------------
(* handleSaltFrame.                                                        *)

\* The peer can not adopt a salt.  Whoever can, answers that it does not either.
ClosedArrives(p, fails) ==
    LET closed == Closed(p) \/ fails IN
    /\ ClosedFrame \in DOMAIN net[p] /\ Trouble(fails)
    /\ Minting(p)
    /\ mem' = [mem EXCEPT ![p] = SettledPlain(p, Suspended(p, State(p), closed))]
    /\ msg' = Hashed(Waiting(p), Plain)
    /\ Exchange(p, ClosedFrame, IF closed THEN {} ELSE {ClosedFrame})
    /\ UNCHANGED <<salt, tree, nodeVars, due, cut, evicted>>

\* A side that can not adopt a salt, and has none.
Declines(p, f, fails) ==
    /\ f.kind # "closed" /\ salt[p] = Plain
    /\ Closed(p) \/ fails
    /\ Trouble(fails) /\ Minting(p)
    /\ mem' = [mem EXCEPT ![p] = SettledPlain(p, State(p))]
    /\ msg' = Hashed(Waiting(p), Plain)
    /\ Exchange(p, f, {ClosedFrame})
    /\ UNCHANGED <<salt, tree, nodeVars, due, cut, evicted>>

\* The first half of the peer: the salt is stored, then announced.
Derives(p, f) ==
    LET s == {<<p, OwnHalf(p)>>} \cup f.of IN
    /\ f.kind = "half" /\ salt[p] = Plain /\ ~Closed(p)
    /\ Trouble(FALSE) /\ Minting(p)
    /\ salt' = [salt EXCEPT ![p] = s]
    /\ mem' = [mem EXCEPT ![p] =
                  [Marked(State(p)) EXCEPT !.spent = @ \/ Waiting(p) # {}]]
    /\ msg' = Hashed(Waiting(p), s)
    /\ Exchange(p, f, {Frame("print", s)})
    /\ UNCHANGED <<tree, nodeVars, due, cut, evicted>>

\* persistSessionSalt returns false.
DerivesUnstored(p, f) ==
    /\ f.kind = "half" /\ salt[p] = Plain /\ ~Closed(p)
    /\ Trouble(TRUE) /\ Minting(p)
    /\ mem' = [mem EXCEPT ![p] = SettledPlain(p, State(p))]
    /\ msg' = Hashed(Waiting(p), Plain)
    /\ Exchange(p, f, {})
    /\ UNCHANGED <<salt, tree, nodeVars, due, cut, evicted>>

\* The peer has a salt and this side has none: it asks for the peer's half with its own,
\* once for each salt, and gives up the second time.
Asks(p, f) ==
    /\ f.kind = "print" /\ salt[p] = Plain /\ ~Closed(p)
    /\ Minting(p) /\ spoilt' = (spoilt \/ mem[p].ansPrint = f.of)
    /\ IF mem[p].ansPrint = f.of
         THEN /\ mem' = [mem EXCEPT ![p] = SettledPlain(p, State(p))]
              /\ msg' = Hashed(Waiting(p), Plain)
              /\ Exchange(p, f, {ClosedFrame})
         ELSE /\ mem' = [mem EXCEPT ![p] = [Marked(State(p)) EXCEPT !.ansPrint = f.of]]
              /\ Exchange(p, f, {HalfFrame(p)})
              /\ UNCHANGED msg
    /\ UNCHANGED <<salt, tree, nodeVars, due, events, cut, evicted>>

\* Mutant: a half is answered with a half every time.
Repair_Always(p, f) == HalfFrame(p)

\* This side's half, and once the peer's half has been answered so, the fingerprint.
Repair(p, f) == IF mem[p].ansHalf = f.of THEN PrintFrame(p) ELSE HalfFrame(p)

\* The peer starts over and this side has the salt.
Repairs(p, f) ==
    /\ f.kind = "half" /\ salt[p] # Plain /\ mem[p].half # 0
    /\ mem' = [mem EXCEPT ![p] = [Marked(@) EXCEPT !.ansHalf = f.of]]
    /\ Exchange(p, f, {Repair(p, f)})
    /\ UNCHANGED <<salt, tree, minted, nodeVars, due, msg, events, cut, evicted, spoilt>>

\* The half this side's salt was made of is gone: salt_state_divergent.
Diverges(p, f) ==
    /\ f.kind = "half" /\ salt[p] # Plain /\ mem[p].half = 0
    /\ doomed' = [doomed EXCEPT ![p] = TRUE]
    /\ Exchange(p, f, {})
    /\ UNCHANGED <<salt, tree, mem, minted, up, frozen, due, msg, events, cut, evicted, spoilt>>

\* The fingerprint of this side's own salt.  A suspended salt counts again, unless the
\* operator was told that the session goes without: then it is erased, if that is allowed.
Confirms(p, f) ==
    LET erased == mem[p].susp /\ mem[p].told /\ Unspent(mem[p], Closed(p)) IN
    /\ f = PrintFrame(p) /\ salt[p] # Plain
    /\ salt' = [salt EXCEPT ![p] = IF erased THEN Plain ELSE @]
    /\ mem' = [mem EXCEPT ![p] = [@ EXCEPT !.susp = FALSE, !.pending = FALSE]]
    /\ Exchange(p, f, {}) /\ spoilt' = (spoilt \/ mem[p].susp)
    /\ UNCHANGED <<tree, minted, nodeVars, due, msg, events, cut, evicted>>

\* The fingerprint of another salt: the peer is told, and the session is frozen after that.
Mismatches(p, f) ==
    /\ f.kind = "print" /\ salt[p] # Plain /\ f.of # salt[p]
    /\ mem' = [mem EXCEPT ![p] = Marked(@)]
    /\ doomed' = [doomed EXCEPT ![p] = TRUE]
    /\ Exchange(p, f, {PrintFrame(p)})
    /\ UNCHANGED <<salt, tree, minted, up, frozen, due, msg, events, cut, evicted, spoilt>>

Receive(p) ==
    \/ \E fails \in BOOLEAN : ClosedArrives(p, fails)
    \/ \E f \in DOMAIN net[p] :
        \/ \E fails \in BOOLEAN : Declines(p, f, fails)
        \/ Derives(p, f) \/ DerivesUnstored(p, f) \/ Asks(p, f)
        \/ Repairs(p, f) \/ Diverges(p, f) \/ Confirms(p, f) \/ Mismatches(p, f)

-----------------------------------------------------------------------------
(* Messages.                                                               *)

\* contentHashForSession for the next message of p.  An away reply arms the wait first
\* (expectSaltAgreement).  A salt that is suspended is erased with the first hash that
\* does without it, and where it can not be erased the hash is salted.
Send(i, arms, fails) ==
    LET p == Sender(i)
        m == IF arms THEN Marked(mem[p]) ELSE mem[p]
        closed == Closed(p) \/ fails
        erased == m.susp /\ Unspent(m, closed)
    IN /\ up[p] /\ msg[i].st = "new" /\ Trouble(fails)
       /\ Sent + events' < MaxEvents
       /\ i[2] = Sent + 1
       /\ \/ /\ salt[p] # Plain /\ ~erased
             /\ msg' = Hashed({i}, salt[p])
             /\ mem' = [mem EXCEPT ![p] = [m EXCEPT !.spent = TRUE]]
             /\ UNCHANGED salt
          \/ /\ salt[p] # Plain /\ erased
             /\ msg' = Hashed({i}, Plain)
             /\ mem' = [mem EXCEPT ![p] = CountPlain([m EXCEPT !.susp = FALSE], 1)]
             /\ salt' = [salt EXCEPT ![p] = Plain]
          \/ /\ salt[p] = Plain /\ (closed \/ ~m.pending)
             /\ msg' = Hashed({i}, Plain)
             /\ mem' = [mem EXCEPT ![p] = CountPlain(m, 1)]
             /\ UNCHANGED salt
          \/ /\ salt[p] = Plain /\ ~closed /\ m.pending
             /\ msg' = [msg EXCEPT ![i].st = "waiting"]
             /\ mem' = [mem EXCEPT ![p] = m]
             /\ UNCHANGED salt
    /\ UNCHANGED <<tree, minted, nodeVars, due, net, cut, evicted>>

\* Mutant: a claim is given back that is not held.
Abandon_Unheld(i) ==
    LET p == Sender(i) IN
    /\ msg[i].st = "hashed" /\ msg[i].seen = "no"
    /\ msg' = [msg EXCEPT ![i].st = "void"]
    /\ mem' = [mem EXCEPT ![p].plain = IF msg[i].rule = Plain THEN @ - 1 ELSE @]
    /\ UNCHANGED <<salt, tree, minted, nodeVars, due, net, events, cut, evicted, spoilt>>

\* cello_send gives up on a message that reached nobody.
Abandon(i) ==
    LET p == Sender(i) IN
    /\ msg[i].st = "hashed" /\ msg[i].seen = "no"
    /\ msg' = [msg EXCEPT ![i].st = "void"]
    /\ mem' = [mem EXCEPT ![p].plain = IF msg[i].rule = Plain /\ @ > 0 THEN @ - 1 ELSE @]
    /\ cut' = IF i \in cut THEN cut \cup Unplaced(p) ELSE cut
    /\ UNCHANGED <<salt, tree, minted, nodeVars, due, net, events, evicted, spoilt>>

\* The message is ordered and placed in its sender's tree.
Place(i) ==
    /\ msg[i].st = "hashed"
    /\ msg' = [msg EXCEPT ![i].st = "placed"]
    /\ tree' = [tree EXCEPT ![Sender(i)] = @ \cup {msg[i].rule}]
    /\ UNCHANGED <<salt, mem, minted, nodeVars, due, net, events, cut, evicted, spoilt>>

\* The content reaches the peer, which recomputes the hash by the rule it names.
Deliver(i) ==
    LET q == Peer(Sender(i))
        takes == msg[i].rule \in {Plain, salt[q]}
    IN /\ up[q] /\ msg[i].st \in {"hashed", "placed"} /\ msg[i].seen = "no"
       /\ msg' = [msg EXCEPT ![i].seen = IF takes THEN "yes" ELSE "refused"]
       /\ tree' = [tree EXCEPT ![q] = IF takes THEN @ \cup {msg[i].rule} ELSE @]
       /\ UNCHANGED <<salt, mem, minted, nodeVars, due, net, events, cut, evicted, spoilt>>

-----------------------------------------------------------------------------
(* Nodes and memory.                                                       *)

\* The session's node is gone, and the frames of both directions with it.
NodeStops(p) ==
    /\ up' = [up EXCEPT ![p] = FALSE]
    /\ due' = [q \in Side |-> FALSE] /\ net' = [q \in Side |-> EmptyBag]
    /\ spoilt' = TRUE

\* evictSession, then settleSaltPending "closed": a send that waited is told that the
\* session is gone, and is not counted.
Evicts(p) ==
    /\ mem' = [mem EXCEPT ![p] = [NoMem EXCEPT !.told = Waiting(p) # {}]]
    /\ msg' = [i \in Msg |-> IF i \in Waiting(p) THEN [msg[i] EXCEPT !.st = "void"] ELSE msg[i]]
    /\ cut' = cut \cup Unplaced(p) /\ evicted' = TRUE

Freeze(p) ==
    /\ doomed[p]
    /\ doomed' = [doomed EXCEPT ![p] = FALSE] /\ frozen' = [frozen EXCEPT ![p] = TRUE]
    /\ IF up[p] THEN NodeStops(p) /\ Evicts(p)
                ELSE UNCHANGED <<up, due, net, spoilt, mem, msg, cut, evicted>>
    /\ UNCHANGED <<salt, tree, minted, events>>

TearDown(p) ==
    /\ up[p] /\ Event
    /\ NodeStops(p) /\ Evicts(p)
    /\ UNCHANGED <<salt, tree, minted, frozen, doomed>>

\* An interruption stops the node and keeps the maps.
Interrupt(p) ==
    /\ up[p] /\ Event
    /\ NodeStops(p)
    /\ UNCHANGED <<salt, tree, mem, minted, frozen, doomed, msg, cut, evicted>>

\* The daemon dies: its memory is gone, frozenSessions with it.
Restart(p) ==
    /\ Event
    /\ NodeStops(p)
    /\ mem' = [mem EXCEPT ![p] = NoMem]
    /\ msg' = [i \in Msg |-> IF i \in Waiting(p) THEN [msg[i] EXCEPT !.st = "void"] ELSE msg[i]]
    /\ cut' = cut \cup Unplaced(p) /\ evicted' = TRUE
    /\ frozen' = [frozen EXCEPT ![p] = FALSE] /\ doomed' = [doomed EXCEPT ![p] = FALSE]
    /\ UNCHANGED <<salt, tree, minted>>

\* A revival builds a node again, never for a frozen session.
Revive(p) ==
    /\ ~up[p] /\ ~frozen[p]
    /\ up' = [up EXCEPT ![p] = TRUE]
    /\ UNCHANGED <<salt, tree, mem, minted, frozen, doomed, due, net, msg, events, cut, evicted,
                   spoilt>>

-----------------------------------------------------------------------------

Next ==
    \/ Connect
    \/ \E p \in Side :
        \/ Announce(p) \/ Receive(p) \/ Timeout(p) \/ Freeze(p)
        \/ TearDown(p) \/ Interrupt(p) \/ Restart(p) \/ Revive(p)
        \/ \E f \in DOMAIN net[Peer(p)] : SendFails(p, f)
    \/ \E i \in Msg :
        \/ \E arms, fails \in BOOLEAN : Send(i, arms, fails)
        \/ Abandon(i) \/ Place(i) \/ Deliver(i)

Spec == Init /\ [][Next]_vars

\* While frames are in flight some frame is handled, and a freeze ends: it awaits only the
\* stream of its notice and the stop of the node.
Fairness == WF_net(\E p \in Side : Receive(p)) /\ WF_doomed(\E p \in Side : Freeze(p))

FairSpec == Spec /\ Fairness

-----------------------------------------------------------------------------
(* Properties.                                                             *)

\* Messages that have a leaf somewhere.
Leafed == {i \in Msg : msg[i].st = "placed" \/ msg[i].seen = "yes"}

\* "half this transcript under each rule -- verifiable by nobody" is what suspension, its
\* refusals and the counters exist to prevent: the messages of one side that got a leaf are
\* all hashed by one rule, through timeouts, suspensions, erasures, abandoned sends and
\* restarts.  A message that lost its claim (cut) is outside: nothing remembers its hash.
OneRule == \A i, j \in Leafed \ cut : Sender(i) = Sender(j) => msg[i].rule = msg[j].rule

\* discardUnspentSalt never erases a salt that a leaf needs: a side has the salt of every
\* salted leaf in its tree, its own and the peer's, so the record can be verified after a
\* restart.
LeafSaltKept ==
    \A i \in Msg : msg[i].rule # Plain =>
        /\ msg[i].st = "placed" /\ i \notin cut => salt[Sender(i)] = msg[i].rule
        /\ msg[i].seen = "yes" => salt[Peer(Sender(i))] = msg[i].rule

\* "A single dropped frame therefore destroyed a live session": only what empties a side's
\* maps, a teardown or a restart, can lead to a freeze; lost frames, failed statements,
\* timeouts, erased salts and reconnections are repaired.
FrozenOnlyIfEvicted == \A p \in Side : doomed[p] \/ frozen[p] => evicted

NoFrames == net = [p \in Side |-> EmptyBag]
Quiet == NoFrames /\ \A p \in Side : up[p] /\ ~due[p] /\ ~doomed[p]

\* What the exchange is for: once every frame is handled, a salt that a side would hash its
\* first message with is the peer's salt too, whoever hashed, timed out or declined before --
\* unless a frame was lost, a statement failed, a side gave up asking, or a suspended salt was
\* confirmed since the peers attached (spoilt).
SaltIsShared ==
    Quiet /\ ~spoilt =>
        \A p \in Side : salt[p] # Plain /\ ~mem[p].susp /\ ~mem[p].spent /\ ~Closed(p)
                            => salt[Peer(p)] = salt[p]

\* Both sides could adopt a salt and one has been told that the other can not.
Echoing == \E p \in Side : ClosedFrame \in DOMAIN net[p]

\* Halves, fingerprints and their repairs end: a latch for each half and each fingerprint
\* keeps a repair from answering a repair for ever.  Only adoption_closed may go on.
QuietUnlessEchoed == []<>(NoFrames \/ Echoing)

\* onPeerSaltFrame, 442-446: "We answer once IFF we have not already closed ourselves, so the
\* exchange ends rather than echoing."
Quiesces == []<>NoFrames
=============================================================================
