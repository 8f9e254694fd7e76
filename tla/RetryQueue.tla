----------------------------- MODULE RetryQueue -----------------------------
(***************************************************************************)
(* The durable queue of one session of one agent, and the flush that       *)
(* empties it into the relay's mailbox.  One table holds two kinds of      *)
(* rows: awaiting content, which was sent and not confirmed, and direct    *)
(* messages that were never sent.  Memory mirrors it: a JavaScript array   *)
(* per kind, found through a map.  A flush keeps the array it found while  *)
(* it awaits the relay, whatever the map says by then.                     *)
(*                                                                         *)
(* SessionRecord has this component as its rows; there a flush of an entry *)
(* is one step.  drainSession is not modelled: nothing calls it.           *)
(***************************************************************************)
EXTENDS Naturals, Sequences, FiniteSets, SequencesExt

CONSTANTS
    Hash,           \* contents, by hash
    Nonce,          \* direct messages, each with a nonce of its own
    Flusher,        \* keys of flushInFlight: "*" and the agent
    Cap,            \* RETRY_QUEUE_CAP
    MaxCopies,      \* bound: copies accepted
    MaxFaults,      \* bound: failed statements
    MaxCrashes      \* bound: restarts

ASSUME SizesAssumption ==
    /\ Cap \in Nat \ {0} /\ IsFiniteSet(Flusher)
    /\ {MaxCopies, MaxFaults, MaxCrashes} \subseteq Nat

\* Arrays: what a flush holds may not be what is in the map.
Array == 1..(Cardinality(Flusher) + 1)

VARIABLES
    rows,       \* awaiting rows of the table
    direct,     \* direct rows of the table
    array,      \* the awaiting arrays
    cur,        \* the array the map #awaiting has, 0 for none
    queue,      \* the array of #queues
    posA, posD, \* #positionCounters of awaiting and of direct entries
    terminal,   \* the session is sealed or abandoned
    flush,      \* a flush: running, asked to run again, its array and snapshot
    \* history
    sent,       \* nonces used
    copies,     \* the contents accepted, one for each copy
    acked,      \* contents acknowledged
    owed,       \* accepted copies neither parked, abandoned nor acknowledged
    asked,      \* copies a flush was asked to park and has not tried since
    robbed,     \* a DELETE took the row of a copy it was not meant for
    dropped,    \* a flush removed from the map an array that was not its own
    faults, crashes

queueVars == <<rows, array, cur, posA>>
vars == <<queueVars, direct, queue, posD, terminal, flush, sent, copies, acked, owed, asked,
          robbed, dropped, faults, crashes>>

\* k numbers the copies in the order they were accepted; the code has no such field.
Entry  == [h : Hash, pos : Nat \ {0}, k : Nat \ {0}]
Direct == [n : Nonce, pos : Nat \ {0}]

\* Types of every variable.
TypeOK ==
    /\ rows \subseteq Entry /\ direct \subseteq Direct
    /\ array \in [Array -> Seq(Entry)] /\ cur \in Array \cup {0}
    /\ queue \in Seq(Direct) /\ posA \in Nat /\ posD \in Nat
    /\ flush \in [Flusher -> [on : BOOLEAN, again : BOOLEAN, arr : Array \cup {0},
                              todo : Seq(Entry)]]
    /\ owed \subseteq Entry /\ asked \in [Flusher -> SUBSET Entry]
    /\ copies \in Seq(Hash) /\ Len(copies) <= MaxCopies
    /\ sent \subseteq Nonce /\ acked \subseteq Hash
    /\ {terminal, robbed, dropped} \subseteq BOOLEAN
    /\ faults \in 0..MaxFaults /\ crashes \in 0..MaxCrashes

Idle == [on |-> FALSE, again |-> FALSE, arr |-> 0, todo |-> << >>]

Init ==
    /\ rows = {} /\ direct = {}
    /\ array = [g \in Array |-> << >>] /\ cur = 0 /\ queue = << >>
    /\ posA = 0 /\ posD = 0 /\ terminal = FALSE
    /\ flush = [f \in Flusher |-> Idle]
    /\ sent = {} /\ copies = << >> /\ acked = {}
    /\ owed = {} /\ asked = [f \in Flusher |-> {}]
    /\ robbed = FALSE /\ dropped = FALSE
    /\ faults = 0 /\ crashes = 0

Fault == faults < MaxFaults /\ faults' = faults + 1

\* What a lookup in the map finds.
Queued == IF cur = 0 THEN << >> ELSE array[cur]

-----------------------------------------------------------------------------
(* Direct messages.                                                        *)

\* enqueue: at the cap the oldest goes, in the table by session and position.  A
\* statement that fails is logged; without its row the message is in memory only.
Enqueue(n) ==
    LET full   == Len(queue) >= Cap
        e      == [n |-> n, pos |-> posD + 1]
        hit(r) == full /\ r.pos = Head(queue).pos
        left   == {r \in direct : ~hit(r)}
    IN  /\ n \notin sent /\ sent' = sent \cup {n}
        /\ posD' = posD + 1
        /\ queue' = Append(IF full THEN Tail(queue) ELSE queue, e)
        /\ \/ direct' = left \cup {e} /\ rows' = {r \in rows : ~hit(r)} /\ UNCHANGED faults
           \/ direct' = left /\ rows' = {r \in rows : ~hit(r)} /\ Fault
           \/ full /\ direct' = direct \cup {e} /\ UNCHANGED rows /\ Fault
        /\ robbed' = (robbed \/ (rows \ rows') \cap owed # {})
    /\ UNCHANGED <<array, cur, posA, terminal, flush, copies, acked, owed, asked, dropped, crashes>>

\* Mutant of ReapTerminal: the rows of the session go, whatever their kind.
ReapTerminalAll ==
    /\ ~terminal /\ terminal' = TRUE
    /\ rows' = {} /\ direct' = {} /\ queue' = << >> /\ posD' = 0
    /\ UNCHANGED <<array, cur, posA, flush, sent, copies, acked, owed, asked, robbed, dropped,
                   faults, crashes>>

\* The session seals or is abandoned: reapTerminalSession drops its direct messages.
ReapTerminal ==
    /\ ~terminal /\ terminal' = TRUE
    /\ \/ direct' = {} /\ queue' = << >> /\ posD' = 0 /\ UNCHANGED faults
       \/ direct # {} /\ Fault /\ UNCHANGED <<direct, queue, posD>>
    /\ UNCHANGED <<queueVars, flush, sent, copies, acked, owed, asked, robbed, dropped, crashes>>

-----------------------------------------------------------------------------
(* Awaiting content.                                                       *)

\* The array to put an entry in: the one in the map, or a new one.
Slot ==
    IF cur # 0 THEN cur
    ELSE CHOOSE g \in Array : \A f \in Flusher : flush[f].arr # g

\* enqueueAwaitingContent, for a time-to-fallback or a refused deposit.  A content that is
\* in the array is not queued again; one that cannot be stored throws, and only the
\* array may be new: no two rows may have the same content.
EnqueueAwaiting(h) ==
    LET new    == IF cur # 0 THEN array ELSE [array EXCEPT ![Slot] = << >>]
        e      == [h |-> h, pos |-> posA + 1, k |-> Len(copies) + 1]
        stored == \E r \in rows : r.h = h
    IN  /\ \A i \in 1..Len(Queued) : Queued[i].h # h
        /\ Len(copies) < MaxCopies
        /\ cur' = Slot
        /\ \/ /\ ~stored /\ rows' = rows \cup {e}
              /\ array' = [new EXCEPT ![Slot] = Append(@, e)]
              /\ posA' = posA + 1
              /\ copies' = Append(copies, h) /\ owed' = owed \cup {e}
              /\ UNCHANGED faults
           \/ /\ IF stored THEN UNCHANGED faults ELSE Fault
              /\ array' = new /\ UNCHANGED <<rows, posA, copies, owed>>
    /\ UNCHANGED <<direct, queue, posD, terminal, flush, sent, acked, asked, robbed, dropped,
                   crashes>>

\* The DELETE of the row of a content, meant for the copies mine; it may fail.
DeleteRow(h, mine) ==
    \/ /\ rows' = {r \in rows : r.h # h} /\ UNCHANGED faults
       /\ robbed' = (robbed \/ ((rows \ rows') \cap owed) \ mine # {})
    \/ /\ \E r \in rows : r.h = h
       /\ Fault /\ UNCHANGED <<rows, robbed>>

\* The entry of a content is spliced out.
Without(s, h) == RemoveFirstMatch(s, LAMBDA e : e.h = h)

\* Mutant of MarkContentAcked: the map entry always goes.
MarkContentAckedDrops(h) ==
    /\ h \notin acked /\ h \in ToSet(copies)
    /\ acked' = acked \cup {h}
    /\ array' = IF cur = 0 THEN array ELSE [array EXCEPT ![cur] = Without(@, h)]
    /\ cur' = 0
    /\ DeleteRow(h, owed)
    /\ owed' = {e \in owed : e.h # h}
    /\ UNCHANGED <<posA, direct, queue, posD, terminal, flush, sent, copies, asked, dropped, crashes>>

\* markContentAcked, on the first acknowledgement of a hash whose timer is armed.
MarkContentAcked(h) ==
    /\ h \notin acked /\ h \in ToSet(copies)
    /\ acked' = acked \cup {h}
    /\ array' = IF cur = 0 THEN array ELSE [array EXCEPT ![cur] = Without(@, h)]
    /\ cur' = IF Without(Queued, h) = << >> THEN 0 ELSE cur
    /\ DeleteRow(h, owed)
    /\ owed' = {e \in owed : e.h # h}
    /\ UNCHANGED <<posA, direct, queue, posD, terminal, flush, sent, copies, asked, dropped, crashes>>

-----------------------------------------------------------------------------
(* The flush.                                                              *)

\* A pass starts: drainAwaitingToPark keeps the array and takes a snapshot of it.
Begun ==
    [on |-> TRUE, again |-> FALSE, arr |-> IF Queued = << >> THEN 0 ELSE cur, todo |-> Queued]

\* Mutant of Trigger: a trigger during a pass is forgotten.
TriggerForgotten(f) ==
    /\ flush' = IF flush[f].on THEN flush ELSE [flush EXCEPT ![f] = Begun]
    /\ asked' = [asked EXCEPT ![f] = ToSet(Queued)]
    /\ UNCHANGED <<queueVars, direct, queue, posD, terminal, sent, copies, acked, owed, robbed,
                   dropped, faults, crashes>>

\* flushAwaitingContent: boot, agent start, the drain hook, a reconnect or a relay's delay
\* asks for a pass; one asked for during a pass of the same key is deferred to its end.
Trigger(f) ==
    /\ flush' = IF flush[f].on THEN [flush EXCEPT ![f].again = TRUE]
                ELSE [flush EXCEPT ![f] = Begun]
    /\ asked' = [asked EXCEPT ![f] = ToSet(Queued)]
    /\ UNCHANGED <<queueVars, direct, queue, posD, terminal, sent, copies, acked, owed, robbed,
                   dropped, faults, crashes>>

\* The relay refused the entry: it stays, and the pass goes on.
FlushRefused(f) ==
    /\ flush[f].todo # << >>
    /\ flush' = [flush EXCEPT ![f].todo = Tail(@)]
    /\ asked' = [asked EXCEPT ![f] = @ \ {Head(flush[f].todo)}]
    /\ UNCHANGED <<queueVars, direct, queue, posD, terminal, sent, copies, acked, owed, robbed,
                   dropped, faults, crashes>>

\* The relay took the entry, or it can never be parked (its agent was removed): the
\* object leaves the array it was found in, and the row of its hash goes.
FlushParked(f) ==
    LET e == Head(flush[f].todo)
    IN  /\ flush[f].todo # << >>
        /\ flush' = [flush EXCEPT ![f].todo = Tail(@)]
        /\ asked' = [asked EXCEPT ![f] = @ \ {e}]
        /\ array' = [array EXCEPT ![flush[f].arr] = RemoveFirst(@, e)]
        /\ DeleteRow(e.h, {e})
        /\ owed' = owed \ {e}
    /\ UNCHANGED <<cur, posA, direct, queue, posD, terminal, sent, copies, acked, dropped, crashes>>

\* The pass ends.  An array found empty is removed from the map by its key, though the
\* map may have another by now.  A deferred pass starts.
FlushEnd(f) ==
    LET mine  == flush[f].arr
        empty == mine # 0 /\ array[mine] = << >>
    IN  /\ flush[f].on /\ flush[f].todo = << >>
        /\ cur' = IF empty THEN 0 ELSE cur
        /\ dropped' = (dropped \/ (empty /\ cur \notin {0, mine}))
        /\ flush' = [flush EXCEPT ![f] =
              IF ~@.again THEN Idle
              ELSE IF empty THEN [Idle EXCEPT !.on = TRUE] ELSE Begun]
    /\ UNCHANGED <<rows, array, posA, direct, queue, posD, terminal, sent, copies, acked, owed,
                   asked, robbed, faults, crashes>>

-----------------------------------------------------------------------------
\* Rows as loadFromDb reads them.
ByPos(S) == CHOOSE s \in SetToSeqs(S) : \A i, j \in DOMAIN s : i < j => s[i].pos < s[j].pos
MaxPos(S) == Max({e.pos : e \in S} \cup {0})

\* Mutant of AwaitingMax: the counter starts again.
AwaitingMaxLost == 0

\* Mutant of AwaitingMax: the maximum of no rows is below every number.
AwaitingMaxOfNone == IF rows = {} THEN -1 ELSE MaxPos(rows)

\* The position counter of awaiting content, from the rows.
AwaitingMax == MaxPos(rows)

\* The daemon dies and comes back: loadFromDb, then reapAlreadyTerminalSessions.
Restart ==
    LET left == IF terminal THEN {} ELSE direct
    IN  /\ crashes < MaxCrashes /\ crashes' = crashes + 1
        /\ array' = [g \in Array |-> IF g = 1 THEN ByPos(rows) ELSE << >>]
        /\ cur' = IF rows = {} THEN 0 ELSE 1
        /\ posA' = AwaitingMax
        /\ direct' = left /\ queue' = ByPos(left) /\ posD' = MaxPos(left)
        /\ flush' = [f \in Flusher |-> Idle]
        /\ asked' = [f \in Flusher |-> {}]
    /\ UNCHANGED <<rows, terminal, sent, copies, acked, owed, robbed, dropped, faults>>

-----------------------------------------------------------------------------
Next ==
    \/ \E n \in Nonce : Enqueue(n)
    \/ \E h \in Hash : EnqueueAwaiting(h) \/ MarkContentAcked(h)
    \/ \E f \in Flusher : Trigger(f) \/ FlushRefused(f) \/ FlushParked(f) \/ FlushEnd(f)
    \/ ReapTerminal
    \/ Restart

Spec == Init /\ [][Next]_vars

-----------------------------------------------------------------------------
(* Properties.                                                             *)

\* Content is parked in the order it was accepted, also after a restart: the array is in
\* order of acceptance and of position (loadFromDb continues the awaiting counter).
ParkedInOrder ==
    \A g \in Array : \A i, j \in 1..Len(array[g]) :
        i < j => array[g][i].k < array[g][j].k /\ array[g][i].pos < array[g][j].pos

\* Accepted content has its row until it is parked, abandoned or acknowledged, whatever
\* the flushes, the reaping of direct messages and restarts do; only a DELETE by
\* position or by hash that means another copy can take it.
DurableUnlessRobbed == ~robbed => owed \subseteq rows

\* A pass asked for while one is running is made: when a flusher comes to rest it has
\* tried everything that was queued when it was last asked (a coalesced call never drops
\* work, it defers it).
RerunHonoured ==
    \A f \in Flusher : ~flush[f].on => asked[f] \cap owed \cap ToSet(Queued) = {}

\* Content that is durable and owed is found by the next flush: the failed item stays
\* queued for the next reconnect or startup flush (drainAwaitingToPark).
Flushable == owed \cap rows \subseteq ToSet(Queued)

\* It is, unless a flush removed from the map an array it had not drained.
FlushableUnlessDropped == ~dropped => Flushable

=============================================================================
